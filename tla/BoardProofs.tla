----------------------------- MODULE BoardProofs -----------------------------
(****************************************************************************)
(* Proofs about the board: that every write arrives where it is meant to,   *)
(* that the status LED shows what the alert task says, that the readings    *)
(* are what the chips had, how far the pressure may be off, and that the    *)
(* CRC notices a wrong bit of the calibration.  They hold for every         *)
(* calibration, reading and error on the wire, every ramp of the pulse and  *)
(* every interleaving of the two tasks and the chips.                       *)
(*                                                                          *)
(* A driver routine is a sequence of operations, and a program is the       *)
(* routines one after the other.  So the argument is one about places:      *)
(* Program and Place say which operation is next.  A program is Closed:     *)
(* each of its operations leaves selected the chip the next one needs,      *)
(* which is put together from its routines.  BoardInv says that what is     *)
(* selected is what is needed at this place, and that the pins and timer of *)
(* the LED are in step with the alert task.  The writes of the alert task   *)
(* touch other pins, but for the toggle of a blink: it puts the other pins  *)
(* of its port to what they were when it read them, and that of the         *)
(* accelerometer may have been written since.  What this undoes leaves the  *)
(* Trusted chips, and with it ends what is said of the readings (undone).   *)
(*                                                                          *)
(* ReadInv says what each routine has achieved when its operation r is      *)
(* next: ConverterAt, AxisReads, WordAt and ResetAt.  One lemma for each    *)
(* (ConverterBlock, AxisBlock, WordBlock) takes a routine through its       *)
(* operations and names what it leaves alone, so that what the others have  *)
(* achieved stays.                                                          *)
(*                                                                          *)
(* The CRC is linear: Xor works digit by digit (DigitwiseBits) and so is a  *)
(* group law (XorLaws) that a shift goes through (ShiftedLinear).  So the   *)
(* difference of two remainders goes its own way, whatever the words are    *)
(* (ApartNext).  It is 0 up to the byte with the flipped bit; with the next *)
(* byte that bit is at the Top, where the CRC is read, and from there it    *)
(* cannot vanish (TopShifted).                                              *)
(****************************************************************************)
EXTENDS Board, WellFoundedInduction, TLAPS

-----------------------------------------------------------------------------
(* Programs                                                                *)

\* What is left of a program whose next operation is the k-th.
Rest(p, k) == SubSeq(p, k, Len(p))

\* The program p has the routine r from behind place o on.
Part(p, o, r) == o + Len(r) <= Len(p) /\ \A i \in 1 .. Len(r) : p[o + i] = r[i]

\* The operations a driver makes.
BaroBytes == {<<"reset">>, <<"adc">>, <<"D1">>, <<"D2">>} \cup {<<"prom", w>> : w \in Word}
AccBytes == {<<"id", 0>>} \cup {<<h, x>> : h \in {"low", "high"}, x \in Axis}

Operations ==
  {Select(c) : c \in {Baro, Acc}}
  \cup {Send(c, b) : c \in {Baro, "none"}, b \in BaroBytes}
  \cup {Send(Acc, b) : b \in AccBytes}
  \cup {Octet(c, i) : c \in {Baro, Acc, "none"}, i \in 0 .. 2}
  \cup {Wait(t) : t \in Nat}
  \cup {Deselect(c, n, i) : c \in {Baro, Acc},
          n \in Converter \cup {"none", "C", "low", "high"}, i \in Word}
  \cup {Compute, Verify}

LEMMA RestSteps ==
  ASSUME NEW S, NEW p \in Seq(S), NEW k \in 1 .. Len(p)
  PROVE  /\ Rest(p, k) # <<>> /\ Head(Rest(p, k)) = p[k]
         /\ Tail(Rest(p, k)) = Rest(p, k + 1)
<1>1. Len(p) \in Nat /\ Rest(p, k) \in Seq(S) /\ Len(Rest(p, k)) = Len(p) - k + 1
  BY DEF Rest
<1>2. Rest(p, k)[1] = p[k]
  BY <1>1 DEF Rest
<1>3. Tail(Rest(p, k)) = Rest(p, k + 1)
  BY <1>1 DEF Rest
<1> QED
  BY <1>1, <1>2, <1>3

LEMMA RestEnds ==
  ASSUME NEW S, NEW p \in Seq(S)
  PROVE  /\ Rest(p, 1) = p /\ Rest(p, Len(p) + 1) = <<>>
         /\ \A k \in 1 .. Len(p) + 1 : Rest(p, k) = <<>> => k = Len(p) + 1
<1>1. Rest(p, 1) = p /\ Rest(p, Len(p) + 1) = <<>>
  BY DEF Rest
<1>2. ASSUME NEW k \in 1 .. Len(p) + 1, Rest(p, k) = <<>>
      PROVE  k = Len(p) + 1
  BY <1>2, RestSteps
<1> QED
  BY <1>1, <1>2

LEMMA Concatenated ==
  ASSUME NEW S, NEW p \in Seq(S), NEW q \in Seq(S)
  PROVE  /\ p \o q \in Seq(S) /\ Len(p \o q) = Len(p) + Len(q)
         /\ Part(p \o q, 0, p) /\ Part(p \o q, Len(p), q)
  BY DEF Part

LEMMA PartOfPart ==
  ASSUME NEW S, NEW p \in Seq(S), NEW q \in Seq(S), NEW r \in Seq(S), NEW o \in Nat,
         NEW s \in Nat, Part(p, o, q), Part(q, s, r)
  PROVE  Part(p, o + s, r)
<1>1. /\ Len(p) \in Nat /\ Len(q) \in Nat /\ Len(r) \in Nat
      /\ o + Len(q) <= Len(p) /\ s + Len(r) <= Len(q)
  BY DEF Part
<1>2. ASSUME NEW i \in 1 .. Len(r)
      PROVE  p[(o + s) + i] = r[i]
  <2>1. s + i \in 1 .. Len(q)
    BY <1>1
  <2>2. q[s + i] = r[i] /\ p[o + (s + i)] = q[s + i]
    BY <2>1 DEF Part
  <2>3. o + (s + i) = (o + s) + i
    OBVIOUS
  <2> QED
    BY <2>2, <2>3
<1> QED
  BY <1>1, <1>2 DEF Part

-----------------------------------------------------------------------------
(* The routines of the drivers                                             *)

LEMMA OctetsOps ==
  ASSUME NEW chip \in {Baro, Acc, "none"}, NEW n \in 1 .. 3
  PROVE  /\ ReadOctets(chip, n) \in Seq(Operations) /\ Len(ReadOctets(chip, n)) = n
         /\ \A i \in 1 .. n : ReadOctets(chip, n)[i] = Octet(chip, n - i)
<1>1. \A i \in 1 .. n : Octet(chip, n - i) \in Operations
  BY DEF Operations
<1> QED
  BY <1>1 DEF ReadOctets

\* Three parts in a row.
LEMMA Parts ==
  ASSUME NEW S, NEW p \in Seq(S), NEW q \in Seq(S), NEW r \in Seq(S)
  PROVE  /\ p \o q \o r \in Seq(S) /\ Len(p \o q \o r) = Len(p) + Len(q) + Len(r)
         /\ Part(p \o q \o r, 0, p) /\ Part(p \o q \o r, Len(p), q)
         /\ Part(p \o q \o r, Len(p) + Len(q), r)
<1> DEFINE g == p \o q
<1>1. /\ g \in Seq(S) /\ Len(g) = Len(p) + Len(q) /\ Len(p) \in Nat /\ Len(q) \in Nat
      /\ Part(g, 0, p) /\ Part(g, Len(p), q)
  BY Concatenated
<1>2. /\ g \o r \in Seq(S) /\ Len(g \o r) = Len(g) + Len(r)
      /\ Part(g \o r, 0, g) /\ Part(g \o r, Len(g), r)
  BY <1>1, Concatenated
<1> HIDE DEF g
<1>3. Part(g \o r, 0 + 0, p) /\ Part(g \o r, 0 + Len(p), q)
  BY <1>1, <1>2, PartOfPart
<1>4. Part(g \o r, 0, p) /\ Part(g \o r, Len(p), q) /\ Part(g \o r, Len(p) + Len(q), r)
  BY <1>1, <1>2, <1>3
<1> QED
  BY <1>1, <1>2, <1>4 DEF g

LEMMA ReadAdcOps ==
  ASSUME NEW c \in Converter
  PROVE  LET r == ms5611_read_adc(c, Precision) IN
         /\ r \in Seq(Operations) /\ Len(r) = 10
         /\ r[1] = Select(Baro) /\ r[2] = Send(Baro, <<c>>) /\ r[3] = Wait(Ticks(Precision))
         /\ r[4] = Deselect(Baro, "none", 0) /\ r[5] = Select(Baro)
         /\ r[6] = Send(Baro, <<"adc">>) /\ r[7] = Octet(Baro, 2) /\ r[8] = Octet(Baro, 1)
         /\ r[9] = Octet(Baro, 0) /\ r[10] = Deselect(Baro, c, 0)
<1> DEFINE h == <<Select(Baro), Send(Baro, <<c>>), Wait(Ticks(Precision)),
                  Deselect(Baro, "none", 0), Select(Baro), Send(Baro, <<"adc">>)>>
           o == ReadOctets(Baro, 3)
           d == <<Deselect(Baro, c, 0)>>
           r == h \o o \o d
<1>1. h \in Seq(Operations) /\ Len(h) = 6
  <2>1. /\ Select(Baro) \in Operations /\ Send(Baro, <<c>>) \in Operations
        /\ Wait(Ticks(Precision)) \in Operations /\ Deselect(Baro, "none", 0) \in Operations
        /\ Send(Baro, <<"adc">>) \in Operations
    BY DEF Operations, BaroBytes, AccBytes, Converter, Ticks, Precision, Word
  <2> QED
    BY <2>1
<1>2. o \in Seq(Operations) /\ Len(o) = 3
      /\ o[1] = Octet(Baro, 2) /\ o[2] = Octet(Baro, 1) /\ o[3] = Octet(Baro, 0)
  BY OctetsOps
<1>3. d \in Seq(Operations) /\ Len(d) = 1 /\ d[1] = Deselect(Baro, c, 0)
  <2>1. Deselect(Baro, c, 0) \in Operations
    BY DEF Operations, Word
  <2> QED
    BY <2>1
<1>4. /\ h[1] = Select(Baro) /\ h[2] = Send(Baro, <<c>>) /\ h[3] = Wait(Ticks(Precision))
      /\ h[4] = Deselect(Baro, "none", 0) /\ h[5] = Select(Baro)
      /\ h[6] = Send(Baro, <<"adc">>)
  OBVIOUS
<1>5. ms5611_read_adc(c, Precision) = r
  BY DEF ms5611_read_adc
<1> HIDE DEF h, o, d
<1>6. /\ r \in Seq(Operations) /\ Len(r) = 10
      /\ Part(r, 0, h) /\ Part(r, 6, o) /\ Part(r, 9, d)
  <2>1. /\ r \in Seq(Operations) /\ Len(r) = Len(h) + Len(o) + Len(d)
        /\ Part(r, 0, h) /\ Part(r, Len(h), o) /\ Part(r, Len(h) + Len(o), d)
    BY <1>1, <1>2, <1>3, Parts
  <2>2. Len(h) = 6 /\ Len(h) + Len(o) = 9 /\ Len(h) + Len(o) + Len(d) = 10
    BY <1>1, <1>2, <1>3
  <2> QED
    BY <2>1, <2>2
<1> HIDE DEF r
<1>7. /\ r[1] = h[1] /\ r[2] = h[2] /\ r[3] = h[3] /\ r[4] = h[4] /\ r[5] = h[5]
      /\ r[6] = h[6]
  BY <1>1, <1>6 DEF Part
<1>8. r[7] = o[1] /\ r[8] = o[2] /\ r[9] = o[3]
  <2>1. r[6 + 1] = o[1] /\ r[6 + 2] = o[2] /\ r[6 + 3] = o[3]
    BY <1>2, <1>6 DEF Part
  <2> QED
    BY <2>1
<1>9. r[10] = d[1]
  <2>1. r[9 + 1] = d[1]
    BY <1>3, <1>6 DEF Part
  <2> QED
    BY <2>1
<1> QED
  BY <1>2, <1>3, <1>4, <1>5, <1>6, <1>7, <1>8, <1>9

LEMMA Get16Ops ==
  ASSUME NEW w \in Word
  PROVE  LET r == ms5611_get16(w) IN
         /\ r \in Seq(Operations) /\ Len(r) = 5
         /\ r[1] = Select(Baro) /\ r[2] = Send(Baro, <<"prom", w>>)
         /\ r[3] = Octet(Baro, 1) /\ r[4] = Octet(Baro, 0)
         /\ r[5] = Deselect(Baro, "C", w)
<1> DEFINE h == <<Select(Baro), Send(Baro, <<"prom", w>>)>>
           o == ReadOctets(Baro, 2)
           d == <<Deselect(Baro, "C", w)>>
           r == h \o o \o d
<1>1. /\ h \in Seq(Operations) /\ Len(h) = 2
      /\ h[1] = Select(Baro) /\ h[2] = Send(Baro, <<"prom", w>>)
  <2>1. Select(Baro) \in Operations /\ Send(Baro, <<"prom", w>>) \in Operations
    BY DEF Operations, BaroBytes, AccBytes
  <2> QED
    BY <2>1
<1>2. o \in Seq(Operations) /\ Len(o) = 2 /\ o[1] = Octet(Baro, 1) /\ o[2] = Octet(Baro, 0)
  BY OctetsOps
<1>3. d \in Seq(Operations) /\ Len(d) = 1 /\ d[1] = Deselect(Baro, "C", w)
  <2>1. Deselect(Baro, "C", w) \in Operations
    BY DEF Operations
  <2> QED
    BY <2>1
<1>4. ms5611_get16(w) = r
  BY DEF ms5611_get16
<1> HIDE DEF h, o, d
<1>5. /\ r \in Seq(Operations) /\ Len(r) = 5
      /\ Part(r, 0, h) /\ Part(r, 2, o) /\ Part(r, 4, d)
  <2>1. /\ r \in Seq(Operations) /\ Len(r) = Len(h) + Len(o) + Len(d)
        /\ Part(r, 0, h) /\ Part(r, Len(h), o) /\ Part(r, Len(h) + Len(o), d)
    BY <1>1, <1>2, <1>3, Parts
  <2>2. Len(h) = 2 /\ Len(h) + Len(o) = 4 /\ Len(h) + Len(o) + Len(d) = 5
    BY <1>1, <1>2, <1>3
  <2> QED
    BY <2>1, <2>2
<1> HIDE DEF r
<1>6. r[0 + 1] = h[1] /\ r[0 + 2] = h[2] /\ r[2 + 1] = o[1] /\ r[2 + 2] = o[2] /\ r[4 + 1] = d[1]
  BY <1>1, <1>2, <1>3, <1>5 DEF Part
<1> QED
  BY <1>1, <1>2, <1>3, <1>4, <1>5, <1>6

LEMMA CheckOps ==
  /\ Check \in Seq(Operations) /\ Len(Check) = 4
  /\ Check[1] = Send("none", <<"prom", 7>>) /\ Check[2] = Octet("none", 1)
  /\ Check[3] = Octet("none", 0) /\ Check[4] = Verify
<1> DEFINE h == <<Send("none", <<"prom", 7>>)>>
           o == ReadOctets("none", 2)
           d == <<Verify>>
           r == h \o o \o d
<1>1. h \in Seq(Operations) /\ Len(h) = 1 /\ h[1] = Send("none", <<"prom", 7>>)
  <2>1. Send("none", <<"prom", 7>>) \in Operations
    BY DEF Operations, BaroBytes, AccBytes, Word
  <2> QED
    BY <2>1
<1>2. o \in Seq(Operations) /\ Len(o) = 2 /\ o[1] = Octet("none", 1) /\ o[2] = Octet("none", 0)
  BY OctetsOps
<1>3. d \in Seq(Operations) /\ Len(d) = 1 /\ d[1] = Verify
  <2>1. Verify \in Operations
    BY DEF Operations
  <2> QED
    BY <2>1
<1>4. Check = r
  BY DEF Check
<1> HIDE DEF h, o, d
<1>5. /\ r \in Seq(Operations) /\ Len(r) = 4
      /\ Part(r, 0, h) /\ Part(r, 1, o) /\ Part(r, 3, d)
  <2>1. /\ r \in Seq(Operations) /\ Len(r) = Len(h) + Len(o) + Len(d)
        /\ Part(r, 0, h) /\ Part(r, Len(h), o) /\ Part(r, Len(h) + Len(o), d)
    BY <1>1, <1>2, <1>3, Parts
  <2>2. Len(h) = 1 /\ Len(h) + Len(o) = 3 /\ Len(h) + Len(o) + Len(d) = 4
    BY <1>1, <1>2, <1>3
  <2> QED
    BY <2>1, <2>2
<1> HIDE DEF r
<1>6. r[0 + 1] = h[1] /\ r[1 + 1] = o[1] /\ r[1 + 2] = o[2] /\ r[3 + 1] = d[1]
  BY <1>1, <1>2, <1>3, <1>5 DEF Part
<1> QED
  BY <1>1, <1>2, <1>3, <1>4, <1>5, <1>6

LEMMA ResetOps ==
  LET r == ms5611_reset IN
  /\ r \in Seq(Operations) /\ Len(r) = 4
  /\ r[1] = Select(Baro) /\ r[2] = Send(Baro, <<"reset">>) /\ r[3] = Wait(3)
  /\ r[4] = Deselect(Baro, "none", 0)
<1>1. /\ Select(Baro) \in Operations /\ Send(Baro, <<"reset">>) \in Operations
      /\ Wait(3) \in Operations /\ Deselect(Baro, "none", 0) \in Operations
  BY DEF Operations, BaroBytes, AccBytes, Word
<1> QED
  BY <1>1 DEF ms5611_reset

LEMMA AxisOps ==
  ASSUME NEW x \in Axis
  PROVE  LET r == bmx055_read(x) IN
         /\ r \in Seq(Operations) /\ Len(r) = 8
         /\ r[1] = Select(Acc) /\ r[2] = Send(Acc, <<"low", x>>) /\ r[3] = Octet(Acc, 0)
         /\ r[4] = Deselect(Acc, "low", x)
         /\ r[5] = Select(Acc) /\ r[6] = Send(Acc, <<"high", x>>) /\ r[7] = Octet(Acc, 0)
         /\ r[8] = Deselect(Acc, "high", x)
<1> DEFINE lo == bmx055_get("low", x)  hi == bmx055_get("high", x)  r == lo \o hi
<1>1. ASSUME NEW h \in {"low", "high"}
      PROVE  LET g == bmx055_get(h, x) IN
             /\ g \in Seq(Operations) /\ Len(g) = 4
             /\ g[1] = Select(Acc) /\ g[2] = Send(Acc, <<h, x>>)
             /\ g[3] = Octet(Acc, 0) /\ g[4] = Deselect(Acc, h, x)
  <2>1. /\ Select(Acc) \in Operations /\ Send(Acc, <<h, x>>) \in Operations
        /\ Octet(Acc, 0) \in Operations /\ Deselect(Acc, h, x) \in Operations
    BY DEF Operations, BaroBytes, AccBytes, Axis, Word
  <2> QED
    BY <2>1 DEF bmx055_get
<1>2. bmx055_read(x) = r
  BY DEF bmx055_read
<1>3. /\ lo \in Seq(Operations) /\ Len(lo) = 4
      /\ lo[1] = Select(Acc) /\ lo[2] = Send(Acc, <<"low", x>>)
      /\ lo[3] = Octet(Acc, 0) /\ lo[4] = Deselect(Acc, "low", x)
  BY <1>1
<1>4. /\ hi \in Seq(Operations) /\ Len(hi) = 4
      /\ hi[1] = Select(Acc) /\ hi[2] = Send(Acc, <<"high", x>>)
      /\ hi[3] = Octet(Acc, 0) /\ hi[4] = Deselect(Acc, "high", x)
  BY <1>1
<1> HIDE DEF lo, hi
<1>5. r \in Seq(Operations) /\ Len(r) = 8 /\ Part(r, 0, lo) /\ Part(r, 4, hi)
  <2>1. /\ r \in Seq(Operations) /\ Len(r) = Len(lo) + Len(hi)
        /\ Part(r, 0, lo) /\ Part(r, Len(lo), hi)
    BY <1>3, <1>4, Concatenated
  <2> QED
    BY <1>3, <1>4, <2>1
<1> HIDE DEF r
<1>6. /\ r[0 + 1] = lo[1] /\ r[0 + 2] = lo[2] /\ r[0 + 3] = lo[3] /\ r[0 + 4] = lo[4]
      /\ r[4 + 1] = hi[1] /\ r[4 + 2] = hi[2] /\ r[4 + 3] = hi[3] /\ r[4 + 4] = hi[4]
  BY <1>3, <1>4, <1>5 DEF Part
<1> QED
  BY <1>2, <1>3, <1>4, <1>5, <1>6

-----------------------------------------------------------------------------
(* The two programs of the sensor task                                     *)

LEMMA Grown ==
  ASSUME NEW S, NEW p \in Seq(S), NEW q \in Seq(S), NEW o \in Nat, NEW r \in Seq(S)
  PROVE  /\ Part(p, o, r) => Part(p \o q, o, r)
         /\ Part(q, o, r) => Part(p \o q, Len(p) + o, r)
<1>1. p \o q \in Seq(S) /\ Part(p \o q, 0, p) /\ Part(p \o q, Len(p), q) /\ Len(p) \in Nat
  BY Concatenated
<1>2. ASSUME Part(p, o, r)
      PROVE  Part(p \o q, o, r)
  <2>1. Part(p \o q, 0 + o, r)
    BY <1>1, <1>2, PartOfPart
  <2> QED
    BY <2>1
<1>3. ASSUME Part(q, o, r)
      PROVE  Part(p \o q, Len(p) + o, r)
  BY <1>1, <1>3, PartOfPart
<1> QED
  BY <1>2, <1>3

\* The first n words of the calibration are asked for in c.
Asks(c, n) ==
  /\ c \in Seq(Operations) /\ Len(c) = 5 * n
  /\ \A w \in Word : w < n => Part(c, 5 * w, ms5611_get16(w))

LEMMA AsksMore ==
  ASSUME NEW n \in Word, NEW c, Asks(c, n)
  PROVE  Asks(c \o ms5611_get16(n), n + 1)
<1> DEFINE g == ms5611_get16(n)  d == c \o g
<1>1. c \in Seq(Operations) /\ Len(c) = 5 * n
  BY DEF Asks
<1>2. \A w \in Word : ms5611_get16(w) \in Seq(Operations) /\ Len(ms5611_get16(w)) = 5
  BY Get16Ops
<1>3. d \in Seq(Operations) /\ Len(d) = Len(c) + Len(g) /\ Part(d, Len(c), g)
  BY <1>1, <1>2, Concatenated
<1>4. Len(d) = 5 * (n + 1)
  <2>1. Len(d) = 5 * n + 5
    BY <1>1, <1>2, <1>3
  <2> QED
    BY <2>1 DEF Word
<1>5. ASSUME NEW w \in Word, w < n + 1
      PROVE  Part(d, 5 * w, ms5611_get16(w))
  <2>1. CASE w = n
    BY <1>1, <1>3, <2>1
  <2>2. CASE w # n
    <3>1. w < n /\ 5 * w \in Nat
      BY <1>5, <2>2 DEF Word
    <3>2. Part(c, 5 * w, ms5611_get16(w))
      BY <3>1 DEF Asks
    <3> HIDE DEF d
    <3>3. Part(c \o g, 5 * w, ms5611_get16(w))
      BY <1>1, <1>2, <3>1, <3>2, Grown
    <3> QED
      BY <3>3 DEF d
  <2> QED
    BY <2>1, <2>2
<1> HIDE DEF g, d
<1> QED
  BY <1>3, <1>4, <1>5 DEF Asks, d, g

LEMMA CalibrationOps == Asks(Calibration, 8)
<1> DEFINE g(w) == ms5611_get16(w)
           c2 == g(0) \o g(1)  c3 == c2 \o g(2)  c4 == c3 \o g(3)  c5 == c4 \o g(4)
           c6 == c5 \o g(5)  c7 == c6 \o g(6)  c8 == c7 \o g(7)
<1>1. Calibration = c8
  BY DEF Calibration
<1>2. Asks(g(0), 1)
  <2>1. g(0) \in Seq(Operations) /\ Len(g(0)) = 5
    BY Get16Ops DEF Word
  <2>2. Part(g(0), 0, g(0))
    BY <2>1 DEF Part
  <2>3. \A w \in Word : w < 1 => w = 0
    BY DEF Word
  <2> QED
    BY <2>1, <2>2, <2>3 DEF Asks
<1> HIDE DEF g
<1>n. \A n \in Word : \A c : Asks(c, n) => Asks(c \o g(n), n + 1)
  BY AsksMore DEF g
<1>3. Asks(c2, 2)
  <2>1. Asks(c2, 1 + 1)
    BY <1>n, <1>2 DEF Word
  <2> QED
    BY <2>1
<1> HIDE DEF c2
<1>4. Asks(c3, 3)
  <2>1. Asks(c3, 2 + 1)
    BY <1>n, <1>3 DEF Word
  <2> QED
    BY <2>1
<1> HIDE DEF c3
<1>5. Asks(c4, 4)
  <2>1. Asks(c4, 3 + 1)
    BY <1>n, <1>4 DEF Word
  <2> QED
    BY <2>1
<1> HIDE DEF c4
<1>6. Asks(c5, 5)
  <2>1. Asks(c5, 4 + 1)
    BY <1>n, <1>5 DEF Word
  <2> QED
    BY <2>1
<1> HIDE DEF c5
<1>7. Asks(c6, 6)
  <2>1. Asks(c6, 5 + 1)
    BY <1>n, <1>6 DEF Word
  <2> QED
    BY <2>1
<1> HIDE DEF c6
<1>8. Asks(c7, 7)
  <2>1. Asks(c7, 6 + 1)
    BY <1>n, <1>7 DEF Word
  <2> QED
    BY <2>1
<1> HIDE DEF c7
<1>9. Asks(c8, 8)
  <2>1. Asks(c8, 7 + 1)
    BY <1>n, <1>8 DEF Word
  <2> QED
    BY <2>1
<1> QED
  BY <1>1, <1>9

\* config_sensor: the identity of the BMX055, then ms5611_init.
Identity == <<Select(Acc), Send(Acc, <<"id", 0>>), Octet(Acc, 0), Deselect(Acc, "none", 0)>>

LEMMA ConfigOps ==
  /\ config_sensor \in Seq(Operations) /\ Len(config_sensor) = 52
  /\ Identity \in Seq(Operations) /\ Len(Identity) = 4
  /\ Part(config_sensor, 0, Identity)
  /\ Part(config_sensor, 4, ms5611_reset)
  /\ \A w \in Word : Part(config_sensor, 8 + 5 * w, ms5611_get16(w))
  /\ Part(config_sensor, 48, Check)
<1> DEFINE i == Identity  m == ms5611_init  rs == ms5611_reset  ca == Calibration
<1>1. i \in Seq(Operations) /\ Len(i) = 4
  <2>1. /\ Select(Acc) \in Operations /\ Send(Acc, <<"id", 0>>) \in Operations
        /\ Octet(Acc, 0) \in Operations /\ Deselect(Acc, "none", 0) \in Operations
    BY DEF Operations, BaroBytes, AccBytes, Word
  <2> QED
    BY <2>1 DEF Identity
<1>2. rs \in Seq(Operations) /\ Len(rs) = 4
  BY ResetOps
<1>3. /\ ca \in Seq(Operations) /\ Len(ca) = 40
      /\ \A w \in Word : Part(ca, 5 * w, ms5611_get16(w))
  BY CalibrationOps DEF Asks, Word
<1>4. Check \in Seq(Operations) /\ Len(Check) = 4
  BY CheckOps
<1>5. m = rs \o ca \o Check /\ config_sensor = i \o m
  BY DEF ms5611_init, config_sensor, Identity
<1> HIDE DEF i, m, rs, ca
<1>6. /\ m \in Seq(Operations) /\ Len(m) = Len(rs) + Len(ca) + Len(Check)
      /\ Part(m, 0, rs) /\ Part(m, Len(rs), ca) /\ Part(m, Len(rs) + Len(ca), Check)
  <2> DEFINE e == rs \o ca \o Check
  <2>1. /\ e \in Seq(Operations) /\ Len(e) = Len(rs) + Len(ca) + Len(Check)
        /\ Part(e, 0, rs) /\ Part(e, Len(rs), ca) /\ Part(e, Len(rs) + Len(ca), Check)
    BY <1>2, <1>3, <1>4, Parts
  <2> QED
    BY <1>5, <2>1
<1>7. Len(m) = 48 /\ Part(m, 4, ca) /\ Part(m, 44, Check)
  <2>1. Len(rs) + Len(ca) + Len(Check) = 48 /\ Len(rs) + Len(ca) = 44
    BY <1>2, <1>3, <1>4
  <2> QED
    BY <1>2, <1>6, <2>1
<1>8. /\ i \o m \in Seq(Operations) /\ Len(i \o m) = Len(i) + Len(m)
      /\ Part(i \o m, 0, i) /\ Part(i \o m, Len(i), m)
  BY <1>1, <1>6, Concatenated
<1>9. Len(i \o m) = 52 /\ Part(i \o m, 4, m)
  BY <1>1, <1>7, <1>8
<1>10. Part(i \o m, 4, rs)
  <2>1. Part(i \o m, 4 + 0, rs)
    BY <1>2, <1>6, <1>8, <1>9, PartOfPart
  <2> QED
    BY <2>1
<1>11. Part(i \o m, 48, Check)
  <2>1. Part(i \o m, 4 + 44, Check)
    BY <1>4, <1>6, <1>7, <1>8, <1>9, PartOfPart, ZenonT(40)
  <2> QED
    BY <2>1
<1>12. ASSUME NEW w \in Word
       PROVE  Part(i \o m, 8 + 5 * w, ms5611_get16(w))
  <2>1. /\ ms5611_get16(w) \in Seq(Operations) /\ 5 * w \in Nat /\ 4 + 5 * w \in Nat
        /\ 4 + (4 + 5 * w) = 8 + 5 * w
    BY Get16Ops DEF Word
  <2>2. Part(m, 4 + 5 * w, ms5611_get16(w))
    BY <1>3, <1>6, <1>7, <2>1, PartOfPart
  <2>3. Part(i \o m, 4 + (4 + 5 * w), ms5611_get16(w))
    BY <1>6, <1>8, <1>9, <2>1, <2>2, PartOfPart
  <2> QED
    BY <2>1, <2>3
<1> QED
  BY <1>1, <1>5, <1>8, <1>9, <1>10, <1>11, <1>12 DEF i, rs

\* Where task_sensor reads a converter, and an axis.
ReadsAt(c) == IF c = "D1" THEN 0 ELSE 10
AxisAt(x) == 21 + 8 * x

LEMMA TaskOps ==
  /\ task_sensor \in Seq(Operations) /\ Len(task_sensor) = 45
  /\ \A c \in Converter : Part(task_sensor, ReadsAt(c), ms5611_read_adc(c, Precision))
  /\ Part(task_sensor, 20, <<Compute>>)
  /\ \A x \in Axis : Part(task_sensor, AxisAt(x), bmx055_read(x))
<1> DEFINE p == ms5611_read_adc("D1", Precision)  q == ms5611_read_adc("D2", Precision)
           c == <<Compute>>  m == ms5611_get_mbarc
           a == bmx055_read(0)  b == bmx055_read(1)  d == bmx055_read(2)
           t == m \o a \o b
<1>1. /\ p \in Seq(Operations) /\ Len(p) = 10 /\ q \in Seq(Operations) /\ Len(q) = 10
      /\ c \in Seq(Operations) /\ Len(c) = 1
  <2>1. Compute \in Operations
    BY DEF Operations
  <2>2. c \in Seq(Operations) /\ Len(c) = 1
    BY <2>1
  <2> QED
    BY <2>2, ReadAdcOps DEF Converter
<1>2. /\ a \in Seq(Operations) /\ Len(a) = 8 /\ b \in Seq(Operations) /\ Len(b) = 8
      /\ d \in Seq(Operations) /\ Len(d) = 8
  BY AxisOps DEF Axis
<1>3. m = p \o q \o c /\ task_sensor = t \o d
  BY DEF ms5611_get_mbarc, task_sensor
<1> HIDE DEF p, q, c, m, a, b, d
<1>4. m \in Seq(Operations) /\ Len(m) = 21 /\ Part(m, 0, p) /\ Part(m, 10, q) /\ Part(m, 20, c)
  <2>1. /\ m \in Seq(Operations) /\ Len(m) = Len(p) + Len(q) + Len(c)
        /\ Part(m, 0, p) /\ Part(m, Len(p), q) /\ Part(m, Len(p) + Len(q), c)
    <3> DEFINE e == p \o q \o c
    <3>1. /\ e \in Seq(Operations) /\ Len(e) = Len(p) + Len(q) + Len(c)
          /\ Part(e, 0, p) /\ Part(e, Len(p), q) /\ Part(e, Len(p) + Len(q), c)
      BY <1>1, Parts
    <3> QED
      BY <1>3, <3>1
  <2>2. Len(p) + Len(q) + Len(c) = 21 /\ Len(p) + Len(q) = 20
    BY <1>1
  <2> QED
    BY <1>1, <2>1, <2>2
<1>5. t \in Seq(Operations) /\ Len(t) = 37 /\ Part(t, 0, m) /\ Part(t, 21, a) /\ Part(t, 29, b)
  <2>1. /\ t \in Seq(Operations) /\ Len(t) = Len(m) + Len(a) + Len(b)
        /\ Part(t, 0, m) /\ Part(t, Len(m), a) /\ Part(t, Len(m) + Len(a), b)
    BY <1>2, <1>4, Parts
  <2>2. Len(m) + Len(a) + Len(b) = 37 /\ Len(m) + Len(a) = 29
    BY <1>2, <1>4
  <2> QED
    BY <1>4, <2>1, <2>2
<1> HIDE DEF t
<1>6. /\ t \o d \in Seq(Operations) /\ Len(t \o d) = 45
      /\ Part(t \o d, 0, t) /\ Part(t \o d, 37, d)
  <2>1. /\ t \o d \in Seq(Operations) /\ Len(t \o d) = Len(t) + Len(d)
        /\ Part(t \o d, 0, t) /\ Part(t \o d, Len(t), d)
    BY <1>2, <1>5, Concatenated
  <2> QED
    BY <1>2, <1>5, <2>1
<1>7. Part(t \o d, 21, a) /\ Part(t \o d, 29, b)
  BY <1>2, <1>5, Grown
<1>8. Part(t, 0, p) /\ Part(t, 10, q) /\ Part(t, 20, c)
  <2>1. Part(t, 0 + 0, p) /\ Part(t, 0 + 10, q) /\ Part(t, 0 + 20, c)
    BY <1>1, <1>4, <1>5, PartOfPart
  <2> QED
    BY <2>1
<1>9. Part(t \o d, 0, p) /\ Part(t \o d, 10, q) /\ Part(t \o d, 20, c)
  BY <1>1, <1>2, <1>5, <1>8, Grown
<1>10. \A x \in Converter : Part(t \o d, ReadsAt(x), ms5611_read_adc(x, Precision))
  BY <1>9 DEF ReadsAt, Converter, p, q
<1>11. \A x \in Axis : Part(t \o d, AxisAt(x), bmx055_read(x))
  <2>1. AxisAt(0) = 21 /\ AxisAt(1) = 29 /\ AxisAt(2) = 37
    BY DEF AxisAt
  <2>2. Axis = {0, 1, 2}
    BY DEF Axis
  <2> QED
    BY <1>6, <1>7, <2>1, <2>2 DEF a, b, d
<1> QED
  BY <1>3, <1>6, <1>9, <1>10, <1>11 DEF c

-----------------------------------------------------------------------------
(* Which chip is selected                                                  *)

\* The chip that must be selected when op is made, or none, and the one that
\* is selected after it.
Chosen(op) ==
  IF op.op \in {"send", "octet", "deselect"} THEN op.chip
  ELSE IF op.op = "wait" THEN Baro ELSE "none"

After(op) ==
  IF op.op = "select" THEN op.chip
  ELSE IF op.op = "deselect" THEN "none" ELSE Chosen(op)

\* The one before the k-th operation of p, and behind the last.
Needed(p, k) == IF k \in 1 .. Len(p) THEN Chosen(p[k]) ELSE "none"

\* A program that starts and ends with no chip selected, in which each
\* operation leaves the selection the next one needs.
Closed(p) ==
  /\ p \in Seq(Operations)
  /\ Needed(p, 1) = "none"
  /\ \A k \in 1 .. Len(p) : After(p[k]) = Needed(p, k + 1)

LEMMA ClosedTogether ==
  ASSUME NEW p, NEW q, Closed(p), Closed(q)
  PROVE  Closed(p \o q)
<1> DEFINE m == Len(p)  n == Len(q)  r == p \o q
<1>1. p \in Seq(Operations) /\ q \in Seq(Operations) /\ m \in Nat /\ n \in Nat
  BY DEF Closed
<1>2. r \in Seq(Operations) /\ Len(r) = m + n /\ Part(r, 0, p) /\ Part(r, m, q)
  BY <1>1, Concatenated
<1>3. /\ \A k \in 1 .. m : r[k] = p[k]
      /\ \A k \in 1 .. n : r[m + k] = q[k]
  <2>1. \A k \in 1 .. m : r[0 + k] = p[k] /\ 0 + k = k
    BY <1>1, <1>2 DEF Part
  <2>2. \A k \in 1 .. n : r[m + k] = q[k]
    BY <1>1, <1>2 DEF Part
  <2> QED
    BY <2>1, <2>2
<1> HIDE DEF r, m, n
<1>4. \A k \in 1 .. m : Needed(r, k) = Needed(p, k)
  BY <1>1, <1>2, <1>3 DEF Needed, m, n
<1>5. \A k \in 1 .. n + 1 : Needed(r, m + k) = Needed(q, k)
  <2> SUFFICES ASSUME NEW k \in 1 .. n + 1
               PROVE  Needed(r, m + k) = Needed(q, k)
    OBVIOUS
  <2>1. CASE k = n + 1
    BY <1>1, <1>2, <2>1 DEF Needed, n
  <2>2. CASE k # n + 1
    <3>1. k \in 1 .. n /\ m + k \in 1 .. Len(r)
      BY <1>1, <1>2, <2>2
    <3> QED
      BY <1>3, <3>1 DEF Needed, n
  <2> QED
    BY <2>1, <2>2
<1>6. Needed(r, m + 1) = "none"
  BY <1>1, <1>5 DEF Closed
<1>7. Needed(r, 1) = "none"
  <2>1. CASE m = 0
    BY <1>6, <2>1
  <2>2. CASE m # 0
    BY <1>1, <1>4, <2>2 DEF Closed
  <2> QED
    BY <2>1, <2>2
<1>8. ASSUME NEW k \in 1 .. m + n
      PROVE  After(r[k]) = Needed(r, k + 1)
  <2>1. CASE k < m
    <3>1. k \in 1 .. m /\ k + 1 \in 1 .. m
      BY <1>1, <2>1
    <3>2. After(p[k]) = Needed(p, k + 1)
      BY <3>1 DEF Closed, m
    <3> QED
      BY <1>3, <1>4, <3>1, <3>2
  <2>2. CASE k = m
    <3>1. k \in 1 .. m
      BY <1>1, <2>2
    <3>2. After(p[k]) = Needed(p, k + 1) /\ Needed(p, k + 1) = "none"
      BY <1>1, <2>2, <3>1 DEF Closed, Needed, m
    <3> QED
      BY <1>3, <1>6, <2>2, <3>1, <3>2
  <2>3. CASE k > m
    <3> DEFINE j == k - m
    <3>1. j \in 1 .. n /\ j + 1 \in 1 .. n + 1 /\ k = m + j /\ k + 1 = m + (j + 1)
      BY <1>1, <2>3
    <3>2. After(q[j]) = Needed(q, j + 1)
      BY <3>1 DEF Closed, n
    <3>3. r[m + j] = q[j] /\ Needed(r, m + (j + 1)) = Needed(q, j + 1)
      BY <1>3, <1>5, <3>1
    <3> HIDE DEF j
    <3> QED
      BY <3>1, <3>2, <3>3
  <2> QED
    BY <1>1, <2>1, <2>2, <2>3
<1> QED
  BY <1>2, <1>7, <1>8 DEF Closed, r

LEMMA ChosenOf ==
  /\ \A c : Chosen(Select(c)) = "none" /\ After(Select(c)) = c
  /\ \A c, b : Chosen(Send(c, b)) = c /\ After(Send(c, b)) = c
  /\ \A c, i : Chosen(Octet(c, i)) = c /\ After(Octet(c, i)) = c
  /\ \A c, n, i : Chosen(Deselect(c, n, i)) = c /\ After(Deselect(c, n, i)) = "none"
  /\ \A t : Chosen(Wait(t)) = Baro /\ After(Wait(t)) = Baro
  /\ Chosen(Compute) = "none" /\ After(Compute) = "none"
  /\ Chosen(Verify) = "none" /\ After(Verify) = "none"
  BY DEF Chosen, After, Select, Send, Octet, Deselect, Wait, Compute, Verify

LEMMA RoutinesClosed ==
  /\ \A c \in Converter : Closed(ms5611_read_adc(c, Precision))
  /\ \A w \in Word : Closed(ms5611_get16(w))
  /\ \A x \in Axis : Closed(bmx055_read(x))
  /\ Closed(ms5611_reset) /\ Closed(Check) /\ Closed(Identity) /\ Closed(<<Compute>>)
<1>1. ASSUME NEW c \in Converter
      PROVE  Closed(ms5611_read_adc(c, Precision))
  <2> DEFINE r == ms5611_read_adc(c, Precision)
  <2>1. /\ r \in Seq(Operations) /\ Len(r) = 10
        /\ r[1] = Select(Baro) /\ r[2] = Send(Baro, <<c>>) /\ r[3] = Wait(Ticks(Precision))
        /\ r[4] = Deselect(Baro, "none", 0) /\ r[5] = Select(Baro)
        /\ r[6] = Send(Baro, <<"adc">>) /\ r[7] = Octet(Baro, 2) /\ r[8] = Octet(Baro, 1)
        /\ r[9] = Octet(Baro, 0) /\ r[10] = Deselect(Baro, c, 0)
    BY ReadAdcOps
  <2> HIDE DEF r
  <2>2. /\ Needed(r, 1) = "none" /\ Needed(r, 2) = Baro /\ Needed(r, 3) = Baro
        /\ Needed(r, 4) = Baro /\ Needed(r, 5) = "none" /\ Needed(r, 6) = Baro
        /\ Needed(r, 7) = Baro /\ Needed(r, 8) = Baro /\ Needed(r, 9) = Baro
        /\ Needed(r, 10) = Baro /\ Needed(r, 11) = "none"
    BY <2>1, ChosenOf DEF Needed, Baro, Acc
  <2>3. /\ After(r[1]) = Needed(r, 2) /\ After(r[2]) = Needed(r, 3)
        /\ After(r[3]) = Needed(r, 4) /\ After(r[4]) = Needed(r, 5)
        /\ After(r[5]) = Needed(r, 6) /\ After(r[6]) = Needed(r, 7)
        /\ After(r[7]) = Needed(r, 8) /\ After(r[8]) = Needed(r, 9)
        /\ After(r[9]) = Needed(r, 10) /\ After(r[10]) = Needed(r, 11)
    BY <2>1, <2>2, ChosenOf DEF Baro, Acc
  <2>4. ASSUME NEW k \in 1 .. Len(r)
        PROVE  After(r[k]) = Needed(r, k + 1)
    <3>1. k \in Nat /\ k \in 1 .. 10
      BY <2>1
    <3> QED
      BY <2>3, <3>1
  <2>5. Closed(r)
    BY <2>1, <2>2, <2>4 DEF Closed
  <2> QED
    BY <2>5 DEF r
<1>2. ASSUME NEW w \in Word
      PROVE  Closed(ms5611_get16(w))
  <2> DEFINE r == ms5611_get16(w)
  <2>1. /\ r \in Seq(Operations) /\ Len(r) = 5
        /\ r[1] = Select(Baro) /\ r[2] = Send(Baro, <<"prom", w>>)
        /\ r[3] = Octet(Baro, 1) /\ r[4] = Octet(Baro, 0) /\ r[5] = Deselect(Baro, "C", w)
    BY Get16Ops
  <2> HIDE DEF r
  <2>2. /\ Needed(r, 1) = "none" /\ Needed(r, 2) = Baro /\ Needed(r, 3) = Baro
        /\ Needed(r, 4) = Baro /\ Needed(r, 5) = Baro /\ Needed(r, 6) = "none"
    BY <2>1, ChosenOf DEF Needed, Baro, Acc
  <2>3. /\ After(r[1]) = Needed(r, 2) /\ After(r[2]) = Needed(r, 3)
        /\ After(r[3]) = Needed(r, 4) /\ After(r[4]) = Needed(r, 5)
        /\ After(r[5]) = Needed(r, 6)
    BY <2>1, <2>2, ChosenOf DEF Baro, Acc
  <2>4. ASSUME NEW k \in 1 .. Len(r)
        PROVE  After(r[k]) = Needed(r, k + 1)
    <3>1. k \in Nat /\ k \in 1 .. 5
      BY <2>1
    <3> QED
      BY <2>3, <3>1
  <2>5. Closed(r)
    BY <2>1, <2>2, <2>4 DEF Closed
  <2> QED
    BY <2>5 DEF r
<1>3. ASSUME NEW x \in Axis
      PROVE  Closed(bmx055_read(x))
  <2> DEFINE r == bmx055_read(x)
  <2>1. /\ r \in Seq(Operations) /\ Len(r) = 8
        /\ r[1] = Select(Acc) /\ r[2] = Send(Acc, <<"low", x>>) /\ r[3] = Octet(Acc, 0)
        /\ r[4] = Deselect(Acc, "low", x)
        /\ r[5] = Select(Acc) /\ r[6] = Send(Acc, <<"high", x>>) /\ r[7] = Octet(Acc, 0)
        /\ r[8] = Deselect(Acc, "high", x)
    BY AxisOps
  <2> HIDE DEF r
  <2>2. /\ Needed(r, 1) = "none" /\ Needed(r, 2) = Acc /\ Needed(r, 3) = Acc
        /\ Needed(r, 4) = Acc /\ Needed(r, 5) = "none" /\ Needed(r, 6) = Acc
        /\ Needed(r, 7) = Acc /\ Needed(r, 8) = Acc /\ Needed(r, 9) = "none"
    BY <2>1, ChosenOf DEF Needed, Baro, Acc
  <2>3. /\ After(r[1]) = Needed(r, 2) /\ After(r[2]) = Needed(r, 3)
        /\ After(r[3]) = Needed(r, 4) /\ After(r[4]) = Needed(r, 5)
        /\ After(r[5]) = Needed(r, 6) /\ After(r[6]) = Needed(r, 7)
        /\ After(r[7]) = Needed(r, 8) /\ After(r[8]) = Needed(r, 9)
    BY <2>1, <2>2, ChosenOf DEF Baro, Acc
  <2>4. ASSUME NEW k \in 1 .. Len(r)
        PROVE  After(r[k]) = Needed(r, k + 1)
    <3>1. k \in Nat /\ k \in 1 .. 8
      BY <2>1
    <3> QED
      BY <2>3, <3>1
  <2>5. Closed(r)
    BY <2>1, <2>2, <2>4 DEF Closed
  <2> QED
    BY <2>5 DEF r
<1>4. Closed(ms5611_reset)
  <2> DEFINE r == ms5611_reset
  <2>1. /\ r \in Seq(Operations) /\ Len(r) = 4
        /\ r[1] = Select(Baro) /\ r[2] = Send(Baro, <<"reset">>) /\ r[3] = Wait(3)
        /\ r[4] = Deselect(Baro, "none", 0)
    BY ResetOps
  <2> HIDE DEF r
  <2>2. /\ Needed(r, 1) = "none" /\ Needed(r, 2) = Baro /\ Needed(r, 3) = Baro
        /\ Needed(r, 4) = Baro /\ Needed(r, 5) = "none"
    BY <2>1, ChosenOf DEF Needed, Baro, Acc
  <2>3. /\ After(r[1]) = Needed(r, 2) /\ After(r[2]) = Needed(r, 3)
        /\ After(r[3]) = Needed(r, 4) /\ After(r[4]) = Needed(r, 5)
    BY <2>1, <2>2, ChosenOf DEF Baro, Acc
  <2>4. ASSUME NEW k \in 1 .. Len(r)
        PROVE  After(r[k]) = Needed(r, k + 1)
    <3>1. k \in Nat /\ k \in 1 .. 4
      BY <2>1
    <3> QED
      BY <2>3, <3>1
  <2>5. Closed(r)
    BY <2>1, <2>2, <2>4 DEF Closed
  <2> QED
    BY <2>5 DEF r
<1>5. Closed(Check)
  <2> DEFINE r == Check
  <2>1. /\ r \in Seq(Operations) /\ Len(r) = 4
        /\ r[1] = Send("none", <<"prom", 7>>) /\ r[2] = Octet("none", 1)
        /\ r[3] = Octet("none", 0) /\ r[4] = Verify
    BY CheckOps
  <2> HIDE DEF r
  <2>2. /\ Needed(r, 1) = "none" /\ Needed(r, 2) = "none" /\ Needed(r, 3) = "none"
        /\ Needed(r, 4) = "none" /\ Needed(r, 5) = "none"
    BY <2>1, ChosenOf DEF Needed, Baro, Acc
  <2>3. /\ After(r[1]) = Needed(r, 2) /\ After(r[2]) = Needed(r, 3)
        /\ After(r[3]) = Needed(r, 4) /\ After(r[4]) = Needed(r, 5)
    BY <2>1, <2>2, ChosenOf DEF Baro, Acc
  <2>4. ASSUME NEW k \in 1 .. Len(r)
        PROVE  After(r[k]) = Needed(r, k + 1)
    <3>1. k \in Nat /\ k \in 1 .. 4
      BY <2>1
    <3> QED
      BY <2>3, <3>1
  <2>5. Closed(r)
    BY <2>1, <2>2, <2>4 DEF Closed
  <2> QED
    BY <2>5 DEF r
<1>6. Closed(Identity)
  <2> DEFINE r == Identity
  <2>1. /\ r \in Seq(Operations) /\ Len(r) = 4
        /\ r[1] = Select(Acc) /\ r[2] = Send(Acc, <<"id", 0>>) /\ r[3] = Octet(Acc, 0)
        /\ r[4] = Deselect(Acc, "none", 0)
    BY ConfigOps DEF Identity
  <2> HIDE DEF r
  <2>2. /\ Needed(r, 1) = "none" /\ Needed(r, 2) = Acc /\ Needed(r, 3) = Acc
        /\ Needed(r, 4) = Acc /\ Needed(r, 5) = "none"
    BY <2>1, ChosenOf DEF Needed, Baro, Acc
  <2>3. /\ After(r[1]) = Needed(r, 2) /\ After(r[2]) = Needed(r, 3)
        /\ After(r[3]) = Needed(r, 4) /\ After(r[4]) = Needed(r, 5)
    BY <2>1, <2>2, ChosenOf DEF Baro, Acc
  <2>4. ASSUME NEW k \in 1 .. Len(r)
        PROVE  After(r[k]) = Needed(r, k + 1)
    <3>1. k \in Nat /\ k \in 1 .. 4
      BY <2>1
    <3> QED
      BY <2>3, <3>1
  <2>5. Closed(r)
    BY <2>1, <2>2, <2>4 DEF Closed
  <2> QED
    BY <2>5 DEF r
<1>7. Closed(<<Compute>>)
  <2> DEFINE r == <<Compute>>
  <2>1. r \in Seq(Operations) /\ Len(r) = 1 /\ r[1] = Compute
    <3>1. Compute \in Operations
      BY DEF Operations
    <3> QED
      BY <3>1
  <2> HIDE DEF r
  <2>2. Needed(r, 1) = "none" /\ Needed(r, 2) = "none" /\ After(r[1]) = "none"
    BY <2>1, ChosenOf DEF Needed
  <2>3. \A k \in 1 .. Len(r) : After(r[k]) = Needed(r, k + 1)
    BY <2>1, <2>2
  <2>4. Closed(r)
    BY <2>1, <2>2, <2>3 DEF Closed
  <2> QED
    BY <2>4 DEF r
<1> QED
  BY <1>1, <1>2, <1>3, <1>4, <1>5, <1>6, <1>7

LEMMA ProgramsClosed == Closed(task_sensor) /\ Closed(config_sensor)
<1>1. Closed(ms5611_get_mbarc)
  BY RoutinesClosed, ClosedTogether DEF ms5611_get_mbarc, Converter
<1>2. Closed(task_sensor)
  <2>1. Closed(bmx055_read(0)) /\ Closed(bmx055_read(1)) /\ Closed(bmx055_read(2))
    BY RoutinesClosed DEF Axis
  <2>2. Closed((ms5611_get_mbarc \o bmx055_read(0)) \o bmx055_read(1))
    BY <1>1, <2>1, ClosedTogether
  <2> QED
    BY <2>1, <2>2, ClosedTogether DEF task_sensor
<1>3. Closed(Calibration)
  <2> DEFINE g(w) == ms5611_get16(w)
  <2>1. \A w \in {0, 1, 2, 3, 4, 5, 6, 7} : Closed(g(w))
    BY RoutinesClosed DEF Word
  <2> HIDE DEF g
  <2>2. Closed(g(0) \o g(1) \o g(2) \o g(3))
    BY <2>1, ClosedTogether
  <2> DEFINE h == g(0) \o g(1) \o g(2) \o g(3)
  <2> HIDE DEF h
  <2>3. Closed(h \o g(4) \o g(5) \o g(6) \o g(7))
    BY <2>1, <2>2, ClosedTogether DEF h
  <2> QED
    BY <2>3 DEF Calibration, g, h
<1>4. Closed(config_sensor)
  <2>1. config_sensor = Identity \o ((ms5611_reset \o Calibration) \o Check)
    BY DEF config_sensor, ms5611_init, Identity
  <2>2. Closed((ms5611_reset \o Calibration) \o Check)
    BY <1>3, RoutinesClosed, ClosedTogether
  <2> QED
    BY <2>1, <2>2, RoutinesClosed, ClosedTogether
<1> QED
  BY <1>2, <1>4

-----------------------------------------------------------------------------
(* The hardware                                                            *)

LEMMA PinWrite ==
  ASSUME NEW h \in HardwareType, "GPIO" \in h.clock, NEW p \in Pin, NEW l \in BOOLEAN
  PROVE  LET g == pin_write(h, p, l) IN
         /\ g \in HardwareType
         /\ g.pin[p] = [mode |-> h.pin[p].mode, level |-> l]
         /\ \A q \in Pin \ {p} : g.pin[q] = h.pin[q]
         /\ g.clock = h.clock /\ g.counting = h.counting /\ g.duty = h.duty
         /\ g.lost = h.lost
<1> DEFINE g == [h EXCEPT !.pin[p].level = l]
<1>1. pin_write(h, p, l) = g
  BY DEF pin_write, Written
<1>2. h.pin \in [Pin -> [mode : Mode, level : BOOLEAN]]
  BY DEF HardwareType
<1>3. /\ g.pin = [h.pin EXCEPT ![p].level = l] /\ g.clock = h.clock /\ g.enabled = h.enabled
      /\ g.counting = h.counting /\ g.duty = h.duty /\ g.lost = h.lost
  BY DEF HardwareType
<1>4. g.pin[p] = [mode |-> h.pin[p].mode, level |-> l]
  BY <1>2, <1>3
<1>5. \A q \in Pin \ {p} : g.pin[q] = h.pin[q]
  BY <1>2, <1>3
<1>6. g \in HardwareType
  BY <1>2 DEF HardwareType
<1> QED
  BY <1>1, <1>3, <1>4, <1>5, <1>6

\* pin_toggle writes the whole port with the levels that were read.
LEMMA PortWrite ==
  ASSUME NEW h \in HardwareType, "GPIO" \in h.clock, NEW read \in [PortB -> BOOLEAN],
         NEW p \in PortB
  PROVE  LET g == pin_toggle(h, read, p) IN
         /\ g \in HardwareType
         /\ g.pin[p].level = ~read[p]
         /\ \A q \in Pin : /\ g.pin[q].mode = h.pin[q].mode
                           /\ q # p /\ (q \in PortB => read[q] = h.pin[q].level)
                                => g.pin[q] = h.pin[q]
         /\ g.clock = h.clock /\ g.counting = h.counting /\ g.duty = h.duty
         /\ g.lost = h.lost
<1> DEFINE Levels == Inverted(read, p)
           At(q) == IF q \in PortB THEN [h.pin[q] EXCEPT !.level = Levels[q]] ELSE h.pin[q]
           g == [h EXCEPT !.pin = [q \in Pin |-> At(q)]]
<1>1. pin_toggle(h, read, p) = g
  BY DEF pin_toggle, Written
<1>2. h.pin \in [Pin -> [mode : Mode, level : BOOLEAN]]
  BY DEF HardwareType
<1>3. /\ Levels \in [PortB -> BOOLEAN] /\ Levels[p] = ~read[p]
      /\ \A q \in PortB \ {p} : Levels[q] = read[q]
  BY DEF Inverted
<1> HIDE DEF Levels
<1>4. ASSUME NEW q \in Pin
      PROVE  /\ At(q) \in [mode : Mode, level : BOOLEAN] /\ At(q).mode = h.pin[q].mode
             /\ q \in PortB => At(q).level = Levels[q]
             /\ (q \in PortB => Levels[q] = h.pin[q].level) => At(q) = h.pin[q]
  <2>1. h.pin[q] \in [mode : Mode, level : BOOLEAN]
    BY <1>2
  <2>2. ASSUME NEW x \in [mode : Mode, level : BOOLEAN], NEW l \in BOOLEAN
        PROVE  LET y == [x EXCEPT !.level = l] IN
               /\ y \in [mode : Mode, level : BOOLEAN] /\ y.mode = x.mode /\ y.level = l
               /\ l = x.level => y = x
    OBVIOUS
  <2>3. CASE q \in PortB
    <3>1. Levels[q] \in BOOLEAN
      BY <1>3, <2>3
    <3> QED
      BY <2>1, <2>2, <2>3, <3>1
  <2>4. CASE q \notin PortB
    BY <2>1, <2>4
  <2> QED
    BY <2>3, <2>4
<1> HIDE DEF At
<1>5. /\ g.pin = [q \in Pin |-> At(q)] /\ g.clock = h.clock /\ g.enabled = h.enabled
      /\ g.counting = h.counting /\ g.duty = h.duty /\ g.lost = h.lost
  BY DEF HardwareType
<1>6. g \in HardwareType
  <2>1. [q \in Pin |-> At(q)] \in [Pin -> [mode : Mode, level : BOOLEAN]]
    BY <1>4
  <2> QED
    BY <2>1 DEF HardwareType
<1> HIDE DEF g
<1>7. p \in Pin /\ g.pin[p].level = ~read[p]
  <2>1. p \in Pin
    BY DEF PortB, Pin, Enable
  <2> QED
    BY <1>3, <1>4, <1>5, <2>1
<1>8. \A q \in Pin : /\ g.pin[q].mode = h.pin[q].mode
                     /\ q # p /\ (q \in PortB => read[q] = h.pin[q].level)
                          => g.pin[q] = h.pin[q]
  BY <1>3, <1>4, <1>5
<1> QED
  BY <1>1, <1>5, <1>6, <1>7, <1>8

LEMMA PinConfig ==
  ASSUME NEW h \in HardwareType, "GPIO" \in h.clock, NEW p \in Pin, NEW m \in Mode
  PROVE  LET g == pin_config(h, p, m) IN
         /\ g \in HardwareType
         /\ g.pin[p] = [mode |-> m, level |-> h.pin[p].level]
         /\ \A q \in Pin \ {p} : g.pin[q] = h.pin[q]
         /\ g.clock = h.clock /\ g.counting = h.counting /\ g.duty = h.duty
         /\ g.lost = h.lost
<1> DEFINE g == [h EXCEPT !.pin[p].mode = m]
<1>1. pin_config(h, p, m) = g
  BY DEF pin_config, Written
<1>2. h.pin \in [Pin -> [mode : Mode, level : BOOLEAN]]
  BY DEF HardwareType
<1>3. /\ g.pin = [h.pin EXCEPT ![p].mode = m] /\ g.clock = h.clock /\ g.enabled = h.enabled
      /\ g.counting = h.counting /\ g.duty = h.duty /\ g.lost = h.lost
  BY DEF HardwareType
<1>4. g.pin[p] = [mode |-> m, level |-> h.pin[p].level]
  BY <1>2, <1>3
<1>5. \A q \in Pin \ {p} : g.pin[q] = h.pin[q]
  BY <1>2, <1>3
<1>6. g \in HardwareType
  BY <1>2 DEF HardwareType
<1> QED
  BY <1>1, <1>3, <1>4, <1>5, <1>6

LEMMA TimerOn ==
  ASSUME NEW h \in HardwareType
  PROVE  LET g == timer_enable(h) IN
         /\ g \in HardwareType /\ g.pin = h.pin /\ g.clock = h.clock \cup {"TIM2"}
         /\ g.counting = TRUE /\ g.duty = h.duty /\ g.lost = h.lost
  BY DEF timer_enable, ClockOn, Written, HardwareType, Peripheral

LEMMA TimerOff ==
  ASSUME NEW h \in HardwareType
  PROVE  LET g == timer_disable(h) IN
         /\ g \in HardwareType /\ g.pin = h.pin /\ g.clock = h.clock \ {"TIM2"}
         /\ g.counting = h.counting /\ g.duty = h.duty
         /\ g.lost = h.lost \cup {"counter off"}
<1> DEFINE f == [h EXCEPT !.clock = @ \ {"TIM2"}]
           g == [f EXCEPT !.lost = @ \cup {"counter off"}]
<1>1. /\ f \in HardwareType /\ f.pin = h.pin /\ f.clock = h.clock \ {"TIM2"}
      /\ f.counting = h.counting /\ f.duty = h.duty /\ f.lost = h.lost
  BY DEF HardwareType
<1>2. timer_disable(h) = g
  BY <1>1 DEF timer_disable, ClockOff, Written
<1> HIDE DEF f
<1>3. /\ g \in HardwareType /\ g.pin = f.pin /\ g.clock = f.clock
      /\ g.counting = f.counting /\ g.duty = f.duty /\ g.lost = f.lost \cup {"counter off"}
  <2>1. f.lost \cup {"counter off"} \in SUBSET Writes
    BY <1>1 DEF HardwareType, Writes
  <2> QED
    BY <1>1, <2>1 DEF HardwareType
<1> HIDE DEF g
<1> QED
  BY <1>1, <1>2, <1>3

LEMMA TimerSet ==
  ASSUME NEW h \in HardwareType, "TIM2" \in h.clock, NEW v \in Nat
  PROVE  LET g == arch_timer_set(h, v) IN
         /\ g \in HardwareType /\ g.pin = h.pin /\ g.clock = h.clock
         /\ g.counting = h.counting /\ g.duty = v /\ g.lost = h.lost
  BY DEF arch_timer_set, Written, HardwareType

LEMMA TimerInit ==
  ASSUME NEW h \in HardwareType
  PROVE  LET g == arch_init_timer(h) IN
         /\ g \in HardwareType /\ g.pin = h.pin /\ g.clock = h.clock \cup {"TIM2"}
         /\ g.duty = 0 /\ g.lost = h.lost
<1> DEFINE f == [h EXCEPT !.clock = @ \cup {"TIM2"}]
           g == [f EXCEPT !.duty = 0]
<1>1. /\ f \in HardwareType /\ f.pin = h.pin /\ f.clock = h.clock \cup {"TIM2"}
      /\ f.lost = h.lost
  BY DEF HardwareType, Peripheral
<1>2. arch_init_timer(h) = g
  BY <1>1 DEF arch_init_timer, ClockOn, Written
<1> HIDE DEF f
<1>3. g \in HardwareType /\ g.pin = f.pin /\ g.clock = f.clock /\ g.duty = 0 /\ g.lost = f.lost
  BY <1>1 DEF HardwareType
<1> HIDE DEF g
<1> QED
  BY <1>1, <1>2, <1>3

LEMMA ClocksOn ==
  ASSUME NEW h \in HardwareType
  PROVE  /\ LET g == arch_config_clocks(h) IN
            /\ g \in HardwareType /\ g.pin = h.pin /\ g.clock = h.clock \cup {"GPIO"}
            /\ g.duty = h.duty /\ g.lost = h.lost
         /\ \A bus \in Bus :
              LET g == BusConfig(h, bus) IN
              /\ g \in HardwareType /\ g.pin = h.pin /\ g.clock = h.clock \cup {bus}
              /\ g.duty = h.duty /\ g.lost = h.lost
<1>1. LET g == arch_config_clocks(h) IN
      /\ g \in HardwareType /\ g.pin = h.pin /\ g.clock = h.clock \cup {"GPIO"}
      /\ g.duty = h.duty /\ g.lost = h.lost
  BY DEF arch_config_clocks, ClockOn, HardwareType, Peripheral
<1>2. ASSUME NEW bus \in Bus
      PROVE  LET g == BusConfig(h, bus) IN
             /\ g \in HardwareType /\ g.pin = h.pin /\ g.clock = h.clock \cup {bus}
             /\ g.duty = h.duty /\ g.lost = h.lost
  <2> DEFINE f == [h EXCEPT !.clock = @ \cup {bus}]
             g == [f EXCEPT !.enabled = @ \cup {bus}]
  <2>1. /\ f \in HardwareType /\ f.pin = h.pin /\ f.clock = h.clock \cup {bus}
        /\ f.duty = h.duty /\ f.lost = h.lost
    BY DEF HardwareType, Peripheral
  <2>2. BusConfig(h, bus) = g
    BY <2>1 DEF BusConfig, ClockOn, Written
  <2> HIDE DEF f
  <2>3. /\ g \in HardwareType /\ g.pin = f.pin /\ g.clock = f.clock
        /\ g.duty = f.duty /\ g.lost = f.lost
    BY <2>1 DEF HardwareType
  <2> HIDE DEF g
  <2> QED
    BY <2>1, <2>2, <2>3
<1> QED
  BY <1>1, <1>2

\* The hardware after startup: the GPIO ports have their clock, the pins that
\* select the sensors are outputs, and no write was lost but the one.
Ready(h) ==
  /\ h \in HardwareType
  /\ "GPIO" \in h.clock
  /\ \A p \in Enable : h.pin[p].mode = "output"
  /\ h.lost \subseteq {"counter off"}

SelectedIn(h) == {p \in Enable : h.pin[p].mode = "input" \/ DrivesLow(h, p)}

\* Nothing of the status LED and its timer changes between h and g.
SameLed(h, g) ==
  /\ g.pin["STATUS_LED"] = h.pin["STATUS_LED"]
  /\ g.clock = h.clock /\ g.counting = h.counting /\ g.duty = h.duty

\* Nothing of port B but the pin of the accelerometer.
SamePort(h, g) == \A p \in PortB \ {Acc} : g.pin[p] = h.pin[p]

\* Nothing of the selection.
SameChips(h, g) == \A p \in Enable : g.pin[p] = h.pin[p]

LEMMA PinKinds ==
  /\ Enable \subseteq Pin /\ {Baro, Acc} \subseteq Enable
  /\ {"STATUS_LED", Led1, Led2, "ADESTO_FLASH_CS", "ADESTO_FLASH_RESET"} \subseteq Pin \ Enable
  /\ Led1 # "STATUS_LED" /\ Led2 # "STATUS_LED"
  BY DEF Pin, Enable, Baro, Acc, Led1, Led2

LEMMA PortKinds ==
  PortB \subseteq Pin /\ "STATUS_LED" \in PortB /\ Acc # "STATUS_LED" /\ Baro \notin PortB
  BY DEF Pin, Enable, Baro, Acc, PortB

LEMMA SelectedLow ==
  ASSUME NEW h, Ready(h)
  PROVE  SelectedIn(h) = {p \in Enable : h.pin[p].level = FALSE}
<1>1. \A p \in Enable : h.pin[p] \in [mode : Mode, level : BOOLEAN] /\ h.pin[p].mode = "output"
  BY PinKinds DEF Ready, HardwareType
<1>2. ASSUME NEW p \in Enable
      PROVE  (h.pin[p].mode = "input" \/ DrivesLow(h, p)) <=> h.pin[p].level = FALSE
  <2>1. ASSUME NEW r \in [mode : Mode, level : BOOLEAN], r.mode = "output"
        PROVE  r = [mode |-> "output", level |-> FALSE] <=> r.level = FALSE
    BY <2>1
  <2> QED
    BY <1>1, <2>1 DEF DrivesLow
<1> QED
  BY <1>2 DEF SelectedIn

\* A chip is selected or deselected: level is that of its pin.
LEMMA ChipWrite ==
  ASSUME NEW h, Ready(h), NEW c \in {Baro, Acc}, NEW level \in BOOLEAN
  PROVE  LET g == pin_write(h, c, level) IN
         /\ Ready(g) /\ SameLed(h, g) /\ SamePort(h, g)
         /\ g.pin[c] = [mode |-> h.pin[c].mode, level |-> level]
         /\ c \in SelectedIn(g) <=> g.pin[c].level = FALSE
         /\ \A p \in Enable \ {c} : p \in SelectedIn(g) <=> p \in SelectedIn(h)
<1> DEFINE g == pin_write(h, c, level)
<1>1. /\ g \in HardwareType
      /\ g.pin[c] = [mode |-> h.pin[c].mode, level |-> level]
      /\ \A q \in Pin \ {c} : g.pin[q] = h.pin[q]
      /\ g.clock = h.clock /\ g.counting = h.counting /\ g.duty = h.duty
      /\ g.lost = h.lost
  <2>1. h \in HardwareType /\ "GPIO" \in h.clock /\ c \in Pin
    BY PinKinds DEF Ready
  <2> QED
    BY <2>1, PinWrite
<1> HIDE DEF g
<1>2. Ready(g)
  <2>1. \A p \in Enable : g.pin[p].mode = h.pin[p].mode
    BY <1>1, PinKinds
  <2> QED
    BY <1>1, <2>1 DEF Ready
<1>3. SameLed(h, g) /\ SamePort(h, g)
  BY <1>1, PinKinds, PortKinds DEF SameLed, SamePort
<1>4. /\ SelectedIn(g) = {p \in Enable : g.pin[p].level = FALSE}
      /\ SelectedIn(h) = {p \in Enable : h.pin[p].level = FALSE}
  BY <1>2, SelectedLow
<1>5. c \in SelectedIn(g) <=> g.pin[c].level = FALSE
  BY <1>1, <1>4, PinKinds
<1>6. \A p \in Enable \ {c} : p \in SelectedIn(g) <=> p \in SelectedIn(h)
  BY <1>1, <1>4, PinKinds
<1> QED
  BY <1>1, <1>2, <1>3, <1>5, <1>6 DEF g

LEMMA ChipSelected ==
  ASSUME NEW h, Ready(h), NEW c \in {Baro, Acc}
  PROVE  LET g == pin_clear(h, c) IN
         /\ Ready(g) /\ SameLed(h, g) /\ SamePort(h, g) /\ c \in SelectedIn(g)
         /\ \A p \in Enable \ {c} : p \in SelectedIn(g) <=> p \in SelectedIn(h)
<1> DEFINE g == pin_write(h, c, FALSE)
<1>1. /\ Ready(g) /\ SameLed(h, g) /\ SamePort(h, g)
      /\ g.pin[c] = [mode |-> h.pin[c].mode, level |-> FALSE]
      /\ c \in SelectedIn(g) <=> g.pin[c].level = FALSE
      /\ \A p \in Enable \ {c} : p \in SelectedIn(g) <=> p \in SelectedIn(h)
  BY ChipWrite
<1> HIDE DEF g
<1>2. g.pin[c].level = FALSE
  BY ONLY <1>1
<1>3. c \in SelectedIn(g)
  BY ONLY <1>1, <1>2
<1> QED
  BY <1>1, <1>3 DEF g, pin_clear

LEMMA ChipDeselected ==
  ASSUME NEW h, Ready(h), NEW c \in {Baro, Acc}
  PROVE  LET g == pin_set(h, c) IN
         /\ Ready(g) /\ SameLed(h, g) /\ SamePort(h, g) /\ c \notin SelectedIn(g)
         /\ \A p \in Enable \ {c} : p \in SelectedIn(g) <=> p \in SelectedIn(h)
<1> DEFINE g == pin_write(h, c, TRUE)
<1>1. /\ Ready(g) /\ SameLed(h, g) /\ SamePort(h, g)
      /\ g.pin[c] = [mode |-> h.pin[c].mode, level |-> TRUE]
      /\ c \in SelectedIn(g) <=> g.pin[c].level = FALSE
      /\ \A p \in Enable \ {c} : p \in SelectedIn(g) <=> p \in SelectedIn(h)
  BY ChipWrite
<1> HIDE DEF g
<1>2. g.pin[c].level = TRUE
  BY ONLY <1>1
<1>3. c \notin SelectedIn(g)
  BY ONLY <1>1, <1>2
<1> QED
  BY <1>1, <1>3 DEF g, pin_set

\* A pin that selects nothing is written.
LEMMA OtherPin ==
  ASSUME NEW h, Ready(h), NEW p \in Pin \ Enable, NEW l \in BOOLEAN
  PROVE  LET g == pin_write(h, p, l) IN
         /\ Ready(g) /\ SameChips(h, g)
         /\ g.pin[p] = [mode |-> h.pin[p].mode, level |-> l]
         /\ p # "STATUS_LED" => SameLed(h, g)
         /\ g.clock = h.clock /\ g.counting = h.counting /\ g.duty = h.duty
<1> DEFINE g == pin_write(h, p, l)
<1>1. /\ g \in HardwareType
      /\ g.pin[p] = [mode |-> h.pin[p].mode, level |-> l]
      /\ \A q \in Pin \ {p} : g.pin[q] = h.pin[q]
      /\ g.clock = h.clock /\ g.counting = h.counting /\ g.duty = h.duty
      /\ g.lost = h.lost
  BY PinWrite DEF Ready
<1> HIDE DEF g
<1>2. Ready(g) /\ SameChips(h, g)
  BY <1>1, PinKinds DEF Ready, SameChips
<1>3. p # "STATUS_LED" => SameLed(h, g)
  BY <1>1, PinKinds DEF SameLed
<1> QED
  BY <1>1, <1>2, <1>3 DEF g

LEMMA WarnedKeeps ==
  ASSUME NEW h, Ready(h), toggle \in BOOLEAN
  PROVE  Ready(Warned(h)) /\ SameChips(h, Warned(h)) /\ SameLed(h, Warned(h))
<1>1. ASSUME NEW l \in BOOLEAN, NEW m \in BOOLEAN
      PROVE  LET f == pin_write(h, Led1, l)
                 g == pin_write(f, Led2, m)
             IN  Ready(g) /\ SameChips(h, g) /\ SameLed(h, g)
  <2> DEFINE f == pin_write(h, Led1, l)  g == pin_write(f, Led2, m)
  <2>1. Ready(f) /\ SameChips(h, f) /\ SameLed(h, f)
    BY OtherPin, PinKinds
  <2> HIDE DEF f
  <2>2. Ready(g) /\ SameChips(f, g) /\ SameLed(f, g)
    BY <2>1, OtherPin, PinKinds
  <2> HIDE DEF g
  <2>3. SameChips(h, g) /\ SameLed(h, g)
    BY <2>1, <2>2 DEF SameChips, SameLed
  <2> QED
    BY <2>2, <2>3 DEF f, g
<1>2. Warned(h) \in {pin_write(pin_write(h, Led1, TRUE), Led2, FALSE),
                     pin_write(pin_write(h, Led1, FALSE), Led2, TRUE)}
  BY DEF Warned, pin_set, pin_clear
<1> QED
  BY <1>1, <1>2

-----------------------------------------------------------------------------
(* The status LED                                                          *)

LedPin(h) == h.pin["STATUS_LED"]

LedIs(h, show) ==
  CASE show = "off" -> LedPin(h).mode = "output" /\ LedPin(h).level = FALSE
    [] show = "on" -> LedPin(h).mode = "output" /\ LedPin(h).level = TRUE
    [] show = "pulse" -> LedPin(h).mode = "af" /\ "TIM2" \in h.clock /\ h.counting = TRUE

LEMMA LedShows ==
  ASSUME NEW h, Ready(h)
  PROVE  /\ LedPin(h) \in [mode : Mode, level : BOOLEAN]
         /\ \A show \in Shows : LedIs(h, show) => Led(h) = show
         /\ LedPin(h).mode = "output" => (Led(h) = "on" <=> LedPin(h).level = TRUE)
<1>1. LedPin(h) \in [mode : Mode, level : BOOLEAN]
  BY PinKinds DEF Ready, HardwareType, LedPin
<1>2. ASSUME LedIs(h, "off")
      PROVE  Led(h) = "off"
  BY <1>2 DEF LedIs, Led, LedPin
<1>3. ASSUME LedIs(h, "on")
      PROVE  Led(h) = "on"
  BY <1>3 DEF LedIs, Led, LedPin
<1>4. ASSUME LedIs(h, "pulse")
      PROVE  Led(h) = "pulse"
  BY <1>4 DEF LedIs, Led, LedPin
<1>5. LedPin(h).mode = "output" => (Led(h) = "on" <=> LedPin(h).level = TRUE)
  BY <1>1 DEF Led, LedPin
<1> QED
  BY <1>1, <1>2, <1>3, <1>4, <1>5 DEF Shows

LEMMA PulseOff ==
  ASSUME NEW h, Ready(h)
  PROVE  LET g == disable_pulse(h) IN
         /\ Ready(g) /\ SameChips(h, g) /\ g.duty = h.duty
         /\ LedPin(g).mode = "output" /\ LedPin(g).level = LedPin(h).level
<1> DEFINE f == timer_disable(h)  g == pin_config(f, "STATUS_LED", "output")
<1>1. /\ f \in HardwareType /\ f.pin = h.pin /\ f.clock = h.clock \ {"TIM2"}
      /\ f.duty = h.duty /\ f.lost = h.lost \cup {"counter off"}
  BY TimerOff DEF Ready
<1>2. disable_pulse(h) = g
  BY DEF disable_pulse
<1> HIDE DEF f
<1>3. "GPIO" \in f.clock
  BY <1>1 DEF Ready
<1>4. /\ g \in HardwareType
      /\ g.pin["STATUS_LED"] = [mode |-> "output", level |-> f.pin["STATUS_LED"].level]
      /\ \A q \in Pin \ {"STATUS_LED"} : g.pin[q] = f.pin[q]
      /\ g.clock = f.clock /\ g.duty = f.duty /\ g.lost = f.lost
  <2> DEFINE s == "STATUS_LED"  o == "output"  e == pin_config(f, s, o)
  <2>0. f \in HardwareType
    BY <1>1
  <2>1. s \in Pin /\ o \in Mode
    BY PinKinds DEF Mode
  <2> HIDE DEF s, o
  <2>2. /\ e \in HardwareType /\ e.pin[s] = [mode |-> o, level |-> f.pin[s].level]
        /\ \A q \in Pin \ {s} : e.pin[q] = f.pin[q]
        /\ e.clock = f.clock /\ e.duty = f.duty /\ e.lost = f.lost
    BY ONLY <1>3, <2>0, <2>1, PinConfig
  <2> QED
    BY <2>2 DEF s, o
<1> HIDE DEF g
<1>5. SameChips(h, g)
  BY <1>1, <1>4, PinKinds DEF SameChips
<1>6. Ready(g)
  BY <1>1, <1>3, <1>4, <1>5 DEF Ready, SameChips
<1>7. LedPin(g).mode = "output" /\ LedPin(g).level = LedPin(h).level
  <2>1. g.pin["STATUS_LED"] = [mode |-> "output", level |-> h.pin["STATUS_LED"].level]
    BY <1>1, <1>4
  <2> QED
    BY ONLY <2>1 DEF LedPin
<1> QED
  BY <1>1, <1>2, <1>4, <1>5, <1>6, <1>7

LEMMA PulseOn ==
  ASSUME NEW h, Ready(h)
  PROVE  LET g == enable_pulse(h) IN
         Ready(g) /\ SameChips(h, g) /\ g.duty = h.duty /\ LedIs(g, "pulse")
<1> DEFINE f == pin_config(h, "STATUS_LED", "af")  g == timer_enable(f)
<1>1. /\ f \in HardwareType
      /\ f.pin["STATUS_LED"] = [mode |-> "af", level |-> h.pin["STATUS_LED"].level]
      /\ \A q \in Pin \ {"STATUS_LED"} : f.pin[q] = h.pin[q]
      /\ f.clock = h.clock /\ f.duty = h.duty /\ f.lost = h.lost
  BY PinConfig, PinKinds, ZenonT(40) DEF Mode, Ready
<1>2. enable_pulse(h) = g
  BY DEF enable_pulse
<1> HIDE DEF f
<1>3. /\ g \in HardwareType /\ g.pin = f.pin /\ g.clock = f.clock \cup {"TIM2"}
      /\ g.counting = TRUE /\ g.duty = f.duty /\ g.lost = f.lost
  BY <1>1, TimerOn
<1> HIDE DEF g
<1>4. SameChips(h, g)
  BY <1>1, <1>3, PinKinds DEF SameChips
<1>5. Ready(g)
  BY <1>1, <1>3, <1>4, ZenonT(40) DEF Ready, SameChips
<1>6. LedIs(g, "pulse")
  BY <1>1, <1>3 DEF LedIs, LedPin
<1> QED
  BY <1>1, <1>2, <1>3, <1>4, <1>5, <1>6

LEMMA LedWrite ==
  ASSUME NEW h, Ready(h), NEW l \in BOOLEAN
  PROVE  LET g == pin_write(h, "STATUS_LED", l) IN
         /\ Ready(g) /\ SameChips(h, g) /\ g.duty = h.duty
         /\ LedPin(g).mode = LedPin(h).mode /\ LedPin(g).level = l
         /\ LedPin(g).mode = "output" => LedIs(g, IF l THEN "on" ELSE "off")
<1> DEFINE g == pin_write(h, "STATUS_LED", l)
<1>1. /\ Ready(g) /\ SameChips(h, g) /\ g.duty = h.duty
      /\ g.pin["STATUS_LED"] = [mode |-> h.pin["STATUS_LED"].mode, level |-> l]
  BY OtherPin, PinKinds
<1> HIDE DEF g
<1>2. LedPin(g).mode = LedPin(h).mode /\ LedPin(g).level = l
  BY <1>1 DEF LedPin
<1>3. LedPin(g).mode = "output" => LedIs(g, IF l THEN "on" ELSE "off")
  BY <1>2 DEF LedIs
<1> QED
  BY <1>1, <1>2, <1>3 DEF g

LEMMA SameLedIs ==
  ASSUME NEW h, NEW g, SameLed(h, g)
  PROVE  /\ LedPin(g) = LedPin(h) /\ g.duty = h.duty
         /\ \A show \in Shows : LedIs(h, show) => LedIs(g, show)
  BY DEF SameLed, LedPin, LedIs, Shows

\* The values of the ramp.
Ramp == {m * Step : m \in 0 .. Full \div Step}

LEMMA RampSteps ==
  /\ Step \in Nat \ {0} /\ Full \in Nat /\ Step <= Full /\ 0 \in Ramp
  /\ \A x \in Ramp : /\ x \in 0 .. Full
                     /\ x > 0 => x - Step \in Ramp
                     /\ x < Full => x + Step \in Ramp
<1> DEFINE M == Full \div Step
<1>1. Step \in Nat \ {0} /\ Full \in Nat \ {0} /\ Full % Step = 0
  BY BoardAssumption
<1>2. M \in Nat /\ Full = M * Step
  <2>1. Full = Step * (Full \div Step) + (Full % Step) /\ Full \div Step \in Nat
    BY <1>1
  <2> QED
    BY <1>1, <2>1
<1>3. M >= 1 /\ Step <= Full
  <2>1. M # 0
    BY <1>1, <1>2
  <2> QED
    BY <1>1, <1>2, <2>1
<1>4. Ramp = {m * Step : m \in 0 .. M}
  BY DEF Ramp
<1> HIDE DEF M
<1>5. ASSUME NEW m \in 0 .. M
      PROVE  /\ m * Step \in 0 .. Full
             /\ m * Step > 0 => m * Step - Step \in Ramp
             /\ m * Step < Full => m * Step + Step \in Ramp
  <2>1. m * Step <= M * Step /\ 0 <= m * Step /\ m * Step \in Int
    BY <1>1, <1>2
  <2>2. ASSUME m * Step > 0
        PROVE  m * Step - Step \in Ramp
    <3>1. m # 0
      BY <1>1, <2>2
    <3>2. m - 1 \in 0 .. M /\ m * Step - Step = (m - 1) * Step
      BY <1>1, <1>2, <3>1
    <3> QED
      BY <1>4, <3>2
  <2>3. ASSUME m * Step < Full
        PROVE  m * Step + Step \in Ramp
    <3>1. m # M
      BY <1>2, <2>3
    <3>2. m + 1 \in 0 .. M /\ m * Step + Step = (m + 1) * Step
      BY <1>1, <1>2, <3>1
    <3> QED
      BY <1>4, <3>2
  <2> QED
    BY <1>1, <1>2, <2>1, <2>2, <2>3
<1>6. 0 \in Ramp
  <2>1. 0 * Step = 0 /\ 0 \in 0 .. M
    BY <1>1, <1>2
  <2> QED
    BY <1>4, <2>1
<1> QED
  BY <1>1, <1>3, <1>4, <1>5, <1>6

LEMMA PulsedRamp ==
  ASSUME NEW p \in [value : Ramp, direction : {-Step, Step}]
  PROVE  Pulsed(p) \in [value : Ramp, direction : {-Step, Step}]
<1>1. /\ p.value \in Ramp /\ p.value \in Int /\ Step \in Nat \ {0} /\ Full \in Nat
      /\ Step <= Full /\ p.direction \in {-Step, Step}
  BY RampSteps
<1>2. CASE p.value >= Full
  <2>1. p.value - Step \in Ramp /\ p.value - Step = p.value + -Step
    BY <1>1, <1>2, RampSteps
  <2> QED
    BY <1>2, <2>1 DEF Pulsed
<1>3. CASE ~(p.value >= Full) /\ p.value <= 0
  <2>1. p.value + Step \in Ramp
    BY <1>1, <1>3, RampSteps
  <2> QED
    BY <1>3, <2>1 DEF Pulsed
<1>4. CASE ~(p.value >= Full) /\ ~(p.value <= 0)
  <2>1. /\ p.value + Step \in Ramp
        /\ p.value - Step \in Ramp /\ p.value - Step = p.value + -Step
    BY <1>1, <1>4, RampSteps
  <2> QED
    BY <1>1, <1>4, <2>1 DEF Pulsed
<1> QED
  BY <1>2, <1>3, <1>4

LEMMA Eased ==
  ASSUME NEW v \in Ramp
  PROVE  easing_f(v) \in Nat /\ easing_f(v) <= Period
<1> DEFINE a == v \div Ease  b == Full \div Ease
<1>1. v \in 0 .. Full /\ Full \in Nat /\ Ease \in Nat \ {0} /\ b * b <= Period /\ Period \in Nat
  BY RampSteps, BoardAssumption
<1>2. a \in Nat /\ b \in Nat /\ a <= b
  <2>1. /\ a \in Int /\ b \in Int /\ v = Ease * a + (v % Ease) /\ Full = Ease * b + (Full % Ease)
        /\ v % Ease \in 0 .. Ease - 1 /\ Full % Ease \in 0 .. Ease - 1
    BY <1>1
  <2> HIDE DEF a, b
  <2>2. a >= 0 /\ b >= 0
    <3>1. \A x \in Int, r \in 0 .. Ease - 1 : Ease * x + r >= 0 => x >= 0
      <4> SUFFICES ASSUME NEW x \in Int, NEW r \in 0 .. Ease - 1, Ease * x + r >= 0,
                          ~(x >= 0)
                   PROVE  FALSE
        OBVIOUS
      <4>1. Ease * x <= Ease * (-1)
        BY <1>1
      <4> QED
        BY <1>1, <4>1
    <3> QED
      BY <1>1, <2>1, <3>1
  <2>3. a <= b
    <3> SUFFICES ASSUME a >= b + 1
                 PROVE  FALSE
      BY <2>1
    <3>1. Ease * a >= Ease * (b + 1) /\ Ease * (b + 1) = Ease * b + Ease
      BY <1>1, <2>1
    <3> QED
      BY <1>1, <2>1, <3>1
  <2> QED
    BY <2>1, <2>2, <2>3
<1> HIDE DEF a, b
<1>3. a * a <= b * b /\ a * a \in Nat /\ b * b \in Nat
  BY <1>2
<1>4. a * a <= Period
  BY <1>1, <1>3
<1>5. easing_f(v) = a * a
  BY DEF easing_f, a
<1> QED
  BY <1>3, <1>4, <1>5

-----------------------------------------------------------------------------
(* The alert task                                                          *)

\* The alert task has written nothing that changes the selection, but for what
\* a toggle undoes.
Leaves == /\ Trusted' \subseteq Trusted
          /\ \A p \in Trusted' : hw'.pin[p] = hw.pin[p]

LEMMA ChipsLeft ==
  ASSUME SameChips(hw, hw'), undone' = undone
  PROVE  Leaves
  BY DEF Leaves, SameChips, Trusted

\* n toggles of the blinking are done: of each two one lit the LED, except
\* that the first one turned off a LED that was on, and may have found the
\* pin high behind a pulse.
Toggled(n) ==
  /\ shown \in {n - 1, n}
  /\ alert.state = "off" => shown = n
  /\ alert.state = "on" => shown = n - 1

AlertTypes ==
  /\ alert \in [at : {"wait", "blink", "toggle", "lit"}, state : Shows, left : Nat,
                read : [PortB -> BOOLEAN]]
  /\ undone \in BOOLEAN
  /\ pulse \in [value : Ramp, direction : {-Step, Step}] /\ toggle \in BOOLEAN
  /\ shown \in Nat /\ before \in [led : Shows, argument : Nat]

AlertInv ==
  /\ AlertTypes
  /\ hw.duty <= Period
  /\ alert.at = "wait" => LedIs(hw, alert.state) /\ BlinksCounted
  /\ alert.at # "wait" =>
       /\ before.led = alert.state /\ alert.left <= before.argument
       /\ LedPin(hw).mode = "output"
       /\ alert.left < before.argument => Toggled(before.argument - alert.left)
  /\ alert.at \in {"blink", "toggle"} =>
       IF alert.left < before.argument THEN LedPin(hw).level = FALSE
       ELSE /\ shown = 0
            /\ alert.state = "off" => LedPin(hw).level = FALSE
            /\ alert.state = "on" => LedPin(hw).level = TRUE
  /\ alert.at = "toggle" =>
       alert.left > 0 /\ \A p \in PortB \ {Acc} : alert.read[p] = hw.pin[p].level
  /\ alert.at = "lit" => alert.left < before.argument

LEMMA TickStep ==
  ASSUME Ready(hw), AlertInv, Tick
  PROVE  Ready(hw') /\ Leaves /\ AlertInv'
<1> USE DEF AlertInv
<1>1. /\ alert.at = "wait" /\ LedIs(hw, alert.state) /\ BlinksCounted
      /\ UNCHANGED <<alert, shown, before, undone>> /\ toggle' = ~toggle
      /\ alert.state \in Shows /\ toggle \in BOOLEAN
  BY DEF Tick, AlertTypes
<1>2. PICK h : /\ hw' = Warned(h) /\ Ready(h) /\ SameChips(hw, h) /\ LedIs(h, alert.state)
               /\ h.duty <= Period
               /\ pulse' \in [value : Ramp, direction : {-Step, Step}]
  <2>1. CASE alert.state = "pulse"
    <3> DEFINE v == easing_f(pulse'.value)  g == arch_timer_set(hw, v)
    <3>1. pulse' = Pulsed(pulse) /\ hw' = Warned(g)
      BY <2>1 DEF Tick
    <3>2. pulse' \in [value : Ramp, direction : {-Step, Step}]
      BY <3>1, PulsedRamp DEF AlertTypes
    <3>3. v \in Nat /\ v <= Period
      BY <3>2, Eased
    <3> HIDE DEF v
    <3>4. "TIM2" \in hw.clock
      BY <1>1, <2>1 DEF LedIs
    <3>5. /\ g \in HardwareType /\ g.pin = hw.pin /\ g.clock = hw.clock
          /\ g.counting = hw.counting /\ g.duty = v /\ g.lost = hw.lost
      BY <3>3, <3>4, TimerSet DEF Ready
    <3> HIDE DEF g
    <3>6. Ready(g) /\ SameChips(hw, g)
      BY <3>5 DEF Ready, SameChips
    <3>7. LedIs(g, alert.state)
      BY <1>1, <2>1, <3>5 DEF LedIs, LedPin
    <3> QED
      BY <3>1, <3>2, <3>3, <3>5, <3>6, <3>7
  <2>2. CASE alert.state # "pulse"
    <3>1. hw' = Warned(hw) /\ pulse' = pulse
      BY <2>2 DEF Tick
    <3> QED
      BY <1>1, <3>1 DEF AlertTypes, SameChips
  <2> QED
    BY <2>1, <2>2
<1>3. Ready(hw') /\ SameChips(h, hw') /\ SameLed(h, hw')
  BY <1>1, <1>2, WarnedKeeps
<1>4. Leaves
  <2>1. SameChips(hw, hw')
    BY <1>2, <1>3 DEF SameChips
  <2> QED
    BY <1>1, <2>1, ChipsLeft
<1>5. LedIs(hw', alert.state) /\ hw'.duty <= Period
  BY <1>1, <1>2, <1>3, SameLedIs
<1>6. AlertTypes'
  BY <1>1, <1>2 DEF AlertTypes
<1>7. BlinksCounted'
  BY <1>1 DEF BlinksCounted
<1> QED
  BY <1>1, <1>3, <1>4, <1>5, <1>6, <1>7

LEMMA ShowStep ==
  ASSUME Ready(hw), AlertInv, NEW show \in Shows, Show(show)
  PROVE  Ready(hw') /\ Leaves /\ AlertInv'
<1>1. /\ hw' = Showing(show) /\ alert' = [alert EXCEPT !.state = show] /\ alert.at = "wait"
      /\ shown' = 0 /\ before' = [led |-> alert.state, argument |-> 0]
      /\ UNCHANGED <<pulse, toggle, undone>>
  BY DEF Show, AlertArrives
<1>2. AlertTypes' /\ alert'.at = "wait" /\ alert'.state = show
  BY <1>1 DEF AlertInv, AlertTypes
<1>3. BlinksCounted'
  BY <1>1 DEF BlinksCounted
<1> DEFINE d == disable_pulse(hw)
<1>4. Ready(d) /\ SameChips(hw, d) /\ d.duty = hw.duty /\ LedPin(d).mode = "output"
  BY PulseOff
<1> HIDE DEF d
<1>5. Ready(hw') /\ SameChips(hw, hw') /\ hw'.duty = hw.duty /\ LedIs(hw', show)
  <2>1. CASE show = "pulse"
    BY <1>1, <2>1, PulseOn DEF Showing
  <2>2. ASSUME NEW l \in BOOLEAN, show = IF l THEN "on" ELSE "off"
        PROVE  Ready(hw') /\ SameChips(hw, hw') /\ hw'.duty = hw.duty /\ LedIs(hw', show)
    <3> DEFINE g == pin_write(d, "STATUS_LED", l)
    <3>1. hw' = g
      BY <1>1, <2>2 DEF Showing, pin_set, pin_clear, d
    <3>2. /\ Ready(g) /\ SameChips(d, g) /\ g.duty = d.duty
          /\ LedPin(g).mode = LedPin(d).mode
          /\ LedPin(g).mode = "output" => LedIs(g, show)
      BY <1>4, <2>2, LedWrite
    <3> HIDE DEF g
    <3> QED
      BY <1>4, <3>1, <3>2 DEF SameChips
  <2> QED
    BY <2>1, <2>2 DEF Shows
<1>6. Leaves
  BY <1>1, <1>5, ChipsLeft
<1> QED
  BY <1>2, <1>3, <1>5, <1>6 DEF AlertInv

LEMMA BlinkStep ==
  ASSUME Ready(hw), AlertInv, NEW argument \in 0 .. MaxBlinks, Blink(argument)
  PROVE  Ready(hw') /\ Leaves /\ AlertInv'
<1>1. /\ hw' = disable_pulse(hw) /\ alert.at = "wait"
      /\ alert' = [alert EXCEPT !.at = "blink", !.left = argument]
      /\ shown' = 0 /\ before' = [led |-> alert.state, argument |-> argument]
      /\ UNCHANGED <<pulse, toggle, undone>> /\ argument \in Nat
  BY BoardAssumption DEF Blink, AlertArrives
<1>2. /\ AlertTypes' /\ alert'.at = "blink" /\ alert'.state = alert.state
      /\ alert'.left = argument /\ before'.led = alert.state /\ before'.argument = argument
  BY <1>1 DEF AlertInv, AlertTypes
<1>3. /\ Ready(hw') /\ SameChips(hw, hw') /\ hw'.duty = hw.duty
      /\ LedPin(hw').mode = "output" /\ LedPin(hw').level = LedPin(hw).level
  BY <1>1, PulseOff
<1>4. /\ alert.state = "off" => LedPin(hw).level = FALSE
      /\ alert.state = "on" => LedPin(hw).level = TRUE
  BY <1>1 DEF AlertInv, LedIs
<1>5. Leaves
  BY <1>1, <1>3, ChipsLeft
<1> QED
  BY <1>1, <1>2, <1>3, <1>4, <1>5 DEF AlertInv

LEMMA IgnoreStep ==
  ASSUME Ready(hw), AlertInv, Ignore
  PROVE  Ready(hw') /\ Leaves /\ AlertInv'
<1>1. /\ alert.at = "wait" /\ shown' = 0 /\ before' = [led |-> alert.state, argument |-> 0]
      /\ UNCHANGED <<hw, alert, pulse, toggle, undone>>
  BY DEF Ignore, AlertArrives
<1>2. AlertTypes' /\ BlinksCounted'
  BY <1>1 DEF AlertInv, AlertTypes, BlinksCounted
<1>3. Leaves
  BY <1>1, ChipsLeft DEF SameChips
<1> QED
  BY <1>1, <1>2, <1>3 DEF AlertInv, Ready

LEMMA BlinkReadsStep ==
  ASSUME Ready(hw), AlertInv, BlinkReads
  PROVE  Ready(hw') /\ Leaves /\ AlertInv'
<1>1. /\ alert.at = "blink" /\ alert.left > 0
      /\ alert' = [alert EXCEPT !.at = "toggle", !.read = PortLevels(hw)]
      /\ UNCHANGED <<hw, pulse, toggle, shown, before, undone>>
  BY DEF BlinkReads, sensorvars
<1>2. PortLevels(hw) \in [PortB -> BOOLEAN]
  <2>1. \A p \in PortB : hw.pin[p].level \in BOOLEAN
    BY PortKinds DEF Ready, HardwareType
  <2> QED
    BY <2>1 DEF PortLevels
<1>3. /\ AlertTypes' /\ alert'.at = "toggle" /\ alert'.left = alert.left
      /\ alert'.state = alert.state /\ alert'.read = PortLevels(hw)
  BY <1>1, <1>2 DEF AlertInv, AlertTypes
<1>4. \A p \in PortB \ {Acc} : alert'.read[p] = hw'.pin[p].level
  BY <1>1, <1>3 DEF PortLevels
<1>5. Toggled(before.argument - alert.left) => Toggled(before.argument - alert.left)'
  BY <1>1, <1>3 DEF Toggled
<1>6. Leaves
  BY <1>1, ChipsLeft DEF SameChips
<1> QED
  BY <1>1, <1>3, <1>4, <1>5, <1>6 DEF AlertInv

LEMMA BlinkOnStep ==
  ASSUME Ready(hw), AlertInv, BlinkOn
  PROVE  Ready(hw') /\ Leaves /\ AlertInv'
<1> DEFINE l == LedPin(hw).level  n == before.argument - alert.left
           led == "STATUS_LED"
<1>1. /\ alert.at = "toggle" /\ shown' = LitUp(hw')
      /\ hw' = pin_toggle(hw, alert.read, led)
      /\ alert' = [alert EXCEPT !.at = "lit", !.left = @ - 1, !.read = Unread]
      /\ undone' = (undone \/ Undoes)
      /\ UNCHANGED <<pulse, toggle, before>>
  BY DEF BlinkOn
<1>2. /\ AlertTypes /\ before.led = alert.state /\ alert.left <= before.argument
      /\ alert.left \in Nat /\ before.argument \in Nat /\ shown \in Nat
      /\ alert.state \in Shows /\ alert.left > 0
      /\ LedPin(hw).mode = "output" /\ l \in BOOLEAN
  BY <1>1, LedShows DEF AlertInv, AlertTypes
<1>a. /\ \A p \in PortB \ {Acc} : alert.read[p] = hw.pin[p].level
      /\ alert.read \in [PortB -> BOOLEAN] /\ alert.read[led] = l
      /\ led \in PortB /\ led \in Pin /\ undone \in BOOLEAN
  BY <1>1, <1>2, PortKinds DEF AlertInv, AlertTypes, LedPin
<1>b. /\ hw' \in HardwareType
      /\ hw'.pin[led].level = ~l
      /\ \A q \in Pin : /\ hw'.pin[q].mode = hw.pin[q].mode
                        /\ q # led /\ (q \in PortB => alert.read[q] = hw.pin[q].level)
                             => hw'.pin[q] = hw.pin[q]
      /\ hw'.clock = hw.clock /\ hw'.duty = hw.duty /\ hw'.lost = hw.lost
  <2> DEFINE g == pin_toggle(hw, alert.read, led)
  <2>1. /\ g \in HardwareType
        /\ g.pin[led].level = ~alert.read[led]
        /\ \A q \in Pin : /\ g.pin[q].mode = hw.pin[q].mode
                          /\ q # led /\ (q \in PortB => alert.read[q] = hw.pin[q].level)
                               => g.pin[q] = hw.pin[q]
        /\ g.clock = hw.clock /\ g.duty = hw.duty /\ g.lost = hw.lost
    <3>1. hw \in HardwareType /\ "GPIO" \in hw.clock
      BY DEF Ready
    <3> HIDE DEF led
    <3> QED
      BY <1>a, <3>1, PortWrite
  <2> HIDE DEF g
  <2> QED
    BY <1>1, <1>a, <2>1 DEF g
<1> HIDE DEF led
<1>d. \A q \in Pin : hw'.pin[q].mode = hw.pin[q].mode
  BY <1>b
<1>e. \A q \in Pin : q # led /\ (q \in PortB => alert.read[q] = hw.pin[q].level)
                      => hw'.pin[q] = hw.pin[q]
  BY <1>b
<1>f. Leaves
  <2>1. Trusted' \subseteq Trusted /\ Trusted' \subseteq Enable
    BY <1>1 DEF Trusted
  <2>2. ASSUME NEW p \in Trusted'
        PROVE  hw'.pin[p] = hw.pin[p]
    <3>1. p \in Pin /\ p # led
      BY <2>1, PinKinds DEF led
    <3>2. p \in PortB => alert.read[p] = hw.pin[p].level
      <4>1. CASE p # Acc
        BY <1>a, <4>1
      <4>2. CASE p = Acc
        <5>1. ~undone'
          BY <4>2 DEF Trusted
        <5>2. ~Undoes
          BY <1>1, <5>1
        <5> QED
          BY <3>1, <5>2 DEF Undoes, led
      <4> QED
        BY <4>1, <4>2
    <3> QED
      BY <1>e, <3>1, <3>2
  <2> QED
    BY <2>1, <2>2 DEF Leaves
<1>3. /\ Ready(hw') /\ hw'.duty = hw.duty
      /\ LedPin(hw').mode = "output" /\ LedPin(hw').level = ~l
  <2>1. \A p \in Enable : hw'.pin[p].mode = hw.pin[p].mode
    BY <1>d, PinKinds
  <2>2. hw' \in HardwareType /\ hw'.clock = hw.clock /\ hw'.lost = hw.lost /\ hw'.duty = hw.duty
    BY <1>b
  <2>3. Ready(hw')
    BY <2>1, <2>2 DEF Ready
  <2>4. hw'.pin[led].mode = hw.pin[led].mode /\ hw'.pin[led].level = ~l
    BY <1>a, <1>b, <1>d
  <2> QED
    BY <1>2, <2>2, <2>3, <2>4 DEF LedPin, led
<1>4. shown' = IF l = TRUE THEN shown ELSE shown + 1
  <2>1. Led(hw) = "on" <=> l = TRUE
    BY <1>2, LedShows
  <2>2. Led(hw') = "on" <=> ~l = TRUE
    BY <1>3, LedShows
  <2> QED
    BY <1>1, <1>2, <2>1, <2>2 DEF LitUp
<1> HIDE DEF l
<1>5. /\ alert'.at = "lit" /\ alert'.left = alert.left - 1 /\ alert'.state = alert.state
      /\ alert'.left \in Nat /\ before' = before
      /\ before.argument - alert'.left = n + 1 /\ n \in Nat
  BY <1>1, <1>2 DEF AlertTypes
<1>6. AlertTypes'
  <2>1. shown' \in Nat
    BY <1>2, <1>4
  <2>2. alert.left - 1 \in Nat
    BY <1>2
  <2>3. alert' \in [at : {"wait", "blink", "toggle", "lit"}, state : Shows, left : Nat,
                   read : [PortB -> BOOLEAN]]
    <3>1. Unread \in [PortB -> BOOLEAN]
      BY DEF Unread
    <3> QED
      BY <1>1, <1>2, <2>2, <3>1 DEF AlertTypes
  <2>4. undone' \in BOOLEAN
    BY <1>1, <1>a DEF Undoes
  <2> QED
    BY <1>1, <1>2, <2>1, <2>3, <2>4 DEF AlertTypes
<1>7. /\ shown' \in {n, n + 1}
      /\ alert.state = "off" => shown' = n + 1
      /\ alert.state = "on" => shown' = n
  <2>1. CASE n = 0
    <3>1. /\ ~(alert.left < before.argument) /\ shown = 0
          /\ alert.state = "off" => l = FALSE
          /\ alert.state = "on" => l = TRUE
      BY <1>1, <1>2, <2>1 DEF AlertInv, l
    <3> QED
      BY <1>2, <1>4, <2>1, <3>1
  <2>2. CASE n # 0
    <3>1. alert.left < before.argument
      BY <1>2, <2>2
    <3>2. l = FALSE /\ Toggled(n)
      BY <1>1, <3>1 DEF AlertInv, l
    <3>3. shown' = shown + 1
      BY <1>4, <3>2
    <3> QED
      BY <1>2, <1>5, <3>2, <3>3 DEF Toggled
  <2> QED
    BY <2>1, <2>2
<1>8. Toggled(before.argument - alert.left)'
  BY <1>5, <1>7 DEF Toggled
<1>9. alert'.left < before.argument /\ alert'.left <= before.argument
  BY <1>2, <1>5
<1> QED
  BY <1>2, <1>3, <1>5, <1>6, <1>8, <1>9, <1>f DEF AlertInv

LEMMA BlinkOffStep ==
  ASSUME Ready(hw), AlertInv, BlinkOff
  PROVE  Ready(hw') /\ Leaves /\ AlertInv'
<1>1. /\ alert.at = "lit" /\ alert' = [alert EXCEPT !.at = "blink"]
      /\ hw' = pin_write(hw, "STATUS_LED", FALSE)
      /\ UNCHANGED <<pulse, toggle, shown, before, undone>>
  BY DEF BlinkOff, pin_clear
<1>2. /\ AlertTypes' /\ alert'.at = "blink" /\ alert'.left = alert.left
      /\ alert'.state = alert.state
  BY <1>1 DEF AlertInv, AlertTypes
<1>3. /\ before.led = alert.state /\ alert.left <= before.argument
      /\ LedPin(hw).mode = "output" /\ alert.left < before.argument
      /\ Toggled(before.argument - alert.left)
  BY <1>1 DEF AlertInv
<1>4. /\ Ready(hw') /\ SameChips(hw, hw') /\ hw'.duty = hw.duty
      /\ LedPin(hw').mode = "output" /\ LedPin(hw').level = FALSE
  BY <1>1, <1>3, LedWrite
<1>5. Toggled(before.argument - alert.left)'
  BY <1>1, <1>2, <1>3 DEF Toggled
<1>6. Leaves
  BY <1>1, <1>4, ChipsLeft
<1> QED
  BY <1>1, <1>2, <1>3, <1>4, <1>5, <1>6 DEF AlertInv

LEMMA BlinkEndStep ==
  ASSUME Ready(hw), AlertInv, BlinkEnd
  PROVE  Ready(hw') /\ Leaves /\ AlertInv'
<1> DEFINE l == LedPin(hw).level
<1>1. /\ alert.at = "blink" /\ alert.left = 0 /\ hw' = Restored /\ shown' = LitUp(hw')
      /\ alert' = [alert EXCEPT !.at = "wait"] /\ UNCHANGED <<pulse, toggle, before, undone>>
  BY DEF BlinkEnd
<1>2. /\ AlertTypes /\ before.led = alert.state /\ before.argument \in Nat
      /\ shown \in Nat /\ alert.state \in Shows /\ LedPin(hw).mode = "output"
      /\ l \in BOOLEAN
  BY <1>1, LedShows DEF AlertInv, AlertTypes
<1>3. Led(hw) = "on" <=> l = TRUE
  BY <1>2, LedShows
<1> HIDE DEF l
<1>4. alert'.at = "wait" /\ alert'.state = alert.state
  BY <1>1, <1>2 DEF AlertTypes
<1>5. IF before.argument > 0 THEN l = FALSE /\ Toggled(before.argument)
      ELSE alert.state = "off" => l = FALSE
  BY <1>1, <1>2 DEF AlertInv, l
<1>6. Ready(hw') /\ SameChips(hw, hw') /\ hw'.duty = hw.duty /\ LedIs(hw', alert.state)
  <2>1. CASE alert.state = "on"
    <3>1. hw' = pin_write(hw, "STATUS_LED", TRUE)
      BY <1>1, <2>1 DEF Restored, pin_set
    <3> QED
      BY <1>2, <2>1, <3>1, LedWrite
  <2>2. CASE alert.state = "pulse"
    <3>1. hw' = enable_pulse(hw)
      BY <1>1, <2>2 DEF Restored
    <3> QED
      BY <2>2, <3>1, PulseOn
  <2>3. CASE alert.state = "off"
    <3>1. hw' = hw
      BY <1>1, <2>3 DEF Restored
    <3>2. l = FALSE
      BY <1>5, <2>3
    <3> QED
      BY <1>2, <2>3, <3>1, <3>2 DEF LedIs, SameChips, l
  <2> QED
    BY <1>2, <2>1, <2>2, <2>3 DEF Shows
<1>7. Led(hw') = alert.state
  BY <1>2, <1>6, LedShows
<1>8. shown' = IF l = FALSE /\ alert.state = "on" THEN shown + 1 ELSE shown
  BY <1>1, <1>2, <1>3, <1>7 DEF LitUp
<1>9. AlertTypes'
  BY <1>1, <1>2, <1>8 DEF AlertTypes
<1>10. BlinksCounted'
  <2> SUFFICES ASSUME before.argument > 0
               PROVE  \/ shown' = before.argument
                      \/ before.led = "pulse" /\ shown' = before.argument - 1
    BY <1>1 DEF BlinksCounted
  <2>1. l = FALSE /\ Toggled(before.argument)
    BY <1>5
  <2> QED
    BY <1>2, <1>8, <2>1 DEF Toggled, Shows
<1>11. Leaves
  BY <1>1, <1>6, ChipsLeft
<1> QED
  BY <1>4, <1>6, <1>9, <1>10, <1>11 DEF AlertInv

LEMMA AlertStep ==
  ASSUME Ready(hw), AlertInv, Alert
  PROVE  Ready(hw') /\ Leaves /\ AlertInv'
  BY TickStep, ShowStep, BlinkStep, IgnoreStep, BlinkReadsStep, BlinkOnStep, BlinkOffStep,
     BlinkEndStep DEF Alert

-----------------------------------------------------------------------------
(* Startup                                                                 *)

Starts == {"clocks", "flash", "tasks"} \cup Bus \cup Pin

LEMMA StartupSteps ==
  /\ Startup \in Seq(Starts) /\ Len(Startup) = 16
  /\ Startup[1] = "clocks" /\ Startup[2] = "SPI1" /\ Startup[3] = "SPI2"
  /\ Startup[4] = "USART1"
  /\ Startup[5] = "MS5611_EN" /\ Startup[6] = "BMX055_EN_ACC"
  /\ Startup[7] = "BMX055_EN_GYRO" /\ Startup[8] = "BMX055_EN_MAG"
  /\ \A k \in 9 .. 14 : Startup[k] \in Pin \ Enable
  /\ Startup[15] = "flash" /\ Startup[16] = "tasks"
<1> DEFINE a == <<"clocks", "SPI1", "SPI2", "USART1">>  b == InitPins
           d == <<"flash", "tasks">>  s == a \o b \o d
<1>1. /\ a \in Seq(Starts) /\ Len(a) = 4
      /\ a[1] = "clocks" /\ a[2] = "SPI1" /\ a[3] = "SPI2" /\ a[4] = "USART1"
  BY DEF Starts, Bus
<1>2. /\ b \in Seq(Starts) /\ Len(b) = 10
      /\ b[1] = "MS5611_EN" /\ b[2] = "BMX055_EN_ACC"
      /\ b[3] = "BMX055_EN_GYRO" /\ b[4] = "BMX055_EN_MAG"
      /\ b[5] \in Pin \ Enable /\ b[6] \in Pin \ Enable /\ b[7] \in Pin \ Enable
      /\ b[8] \in Pin \ Enable /\ b[9] \in Pin \ Enable /\ b[10] \in Pin \ Enable
  BY DEF Starts, InitPins, Pin, Enable
<1>3. d \in Seq(Starts) /\ Len(d) = 2 /\ d[1] = "flash" /\ d[2] = "tasks"
  BY DEF Starts
<1>4. Startup = s
  BY DEF Startup
<1> HIDE DEF a, b, d
<1>5. s \in Seq(Starts) /\ Len(s) = 16 /\ Part(s, 0, a) /\ Part(s, 4, b) /\ Part(s, 14, d)
  <2>1. /\ s \in Seq(Starts) /\ Len(s) = Len(a) + Len(b) + Len(d)
        /\ Part(s, 0, a) /\ Part(s, Len(a), b) /\ Part(s, Len(a) + Len(b), d)
    BY <1>1, <1>2, <1>3, Parts
  <2>2. Len(a) + Len(b) + Len(d) = 16 /\ Len(a) + Len(b) = 14
    BY <1>1, <1>2, <1>3
  <2> QED
    BY <1>1, <2>1, <2>2
<1> HIDE DEF s
<1>6. s[0 + 1] = a[1] /\ s[0 + 2] = a[2] /\ s[0 + 3] = a[3] /\ s[0 + 4] = a[4]
  BY <1>1, <1>5 DEF Part
<1>7. /\ s[4 + 1] = b[1] /\ s[4 + 2] = b[2] /\ s[4 + 3] = b[3] /\ s[4 + 4] = b[4]
      /\ s[4 + 5] = b[5] /\ s[4 + 6] = b[6] /\ s[4 + 7] = b[7] /\ s[4 + 8] = b[8]
      /\ s[4 + 9] = b[9] /\ s[4 + 10] = b[10]
  BY <1>2, <1>5 DEF Part
<1>8. s[14 + 1] = d[1] /\ s[14 + 2] = d[2]
  BY <1>3, <1>5 DEF Part
<1>9. \A k \in 9 .. 14 : s[k] \in Pin \ Enable
  <2>1. /\ s[9] \in Pin \ Enable /\ s[10] \in Pin \ Enable /\ s[11] \in Pin \ Enable
        /\ s[12] \in Pin \ Enable /\ s[13] \in Pin \ Enable /\ s[14] \in Pin \ Enable
    BY <1>2, <1>7
  <2> QED
    BY <2>1
<1> QED
  BY <1>1, <1>2, <1>3, <1>4, <1>5, <1>6, <1>7, <1>8, <1>9

LEMMA FlashKeeps ==
  ASSUME NEW h \in HardwareType, "GPIO" \in h.clock
  PROVE  LET g == config_flash(h) IN
         /\ g \in HardwareType /\ SameChips(h, g) /\ g.clock = h.clock
         /\ g.duty = h.duty /\ g.lost = h.lost
<1> DEFINE R == "ADESTO_FLASH_RESET"  S == "ADESTO_FLASH_CS"
           Like(g) == /\ g \in HardwareType /\ SameChips(h, g) /\ g.clock = h.clock
                      /\ g.duty = h.duty /\ g.lost = h.lost
<1>1. ASSUME NEW g, Like(g), NEW p \in {R, S}
      PROVE  /\ Like(pin_config(g, p, "output"))
             /\ Like(pin_set(g, p)) /\ Like(pin_clear(g, p))
  <2>1. "GPIO" \in g.clock /\ p \in Pin \ Enable /\ "output" \in Mode
    BY <1>1, PinKinds DEF Mode
  <2>2. ASSUME NEW f \in HardwareType, \A q \in Pin \ {p} : f.pin[q] = g.pin[q],
               f.clock = g.clock, f.duty = g.duty, f.lost = g.lost
        PROVE  Like(f)
    BY <1>1, <2>1, <2>2, PinKinds DEF SameChips
  <2>3. Like(pin_config(g, p, "output"))
    BY <1>1, <2>1, <2>2, PinConfig
  <2>4. Like(pin_set(g, p)) /\ Like(pin_clear(g, p))
    BY <1>1, <2>1, <2>2, PinWrite DEF pin_set, pin_clear
  <2> QED
    BY <2>3, <2>4
<1>2. Like(h)
  BY DEF SameChips
<1> HIDE DEF Like
<1> DEFINE a == pin_config(h, R, "output")  b == pin_config(a, S, "output")
           c == pin_set(b, R)  d == pin_set(c, S)
           e == pin_set(pin_clear(pin_set(d, R), R), R)
<1>3. Like(a) /\ Like(b)
  BY <1>1, <1>2
<1> HIDE DEF a, b
<1>4. Like(c) /\ Like(d)
  BY <1>1, <1>3
<1> HIDE DEF c, d
<1>5. Like(e)
  BY <1>1, <1>4
<1>6. config_flash(h) = e
  BY DEF config_flash, flash_reset, a, b, c, d
<1> QED
  BY <1>5, <1>6 DEF Like

\* Where startup is.
Stage == Len(Startup) + 1 - Len(boot)

Chip(h, p) == h.pin[p].mode = "output" /\ h.pin[p].level = TRUE

\* The hardware while startup goes on: no write is lost, the GPIO ports have
\* their clock from the first step on, and no sensor is selected once its pin
\* is an output.
StartHw(h, stage) ==
  /\ h \in HardwareType /\ h.lost = {}
  /\ stage > 1 => "GPIO" \in h.clock
  /\ \A i \in 1 .. stage - 1 : Startup[i] \in Enable => Chip(h, Startup[i])

StartInv ==
  /\ StartHw(hw, Stage)
  /\ job = <<>> /\ served = 0
  /\ alert = [at |-> "none", state |-> "pulse", left |-> 0, read |-> Unread]
  /\ pulse = [value |-> 0, direction |-> Step] /\ toggle = FALSE
  /\ shown = 0 /\ before = [led |-> "off", argument |-> 0] /\ undone = FALSE

\* What a step of startup makes of the hardware.
Started(h, s) ==
  CASE s = "clocks" -> arch_config_clocks(h)
    [] s \in Bus -> BusConfig(h, s)
    [] s \in Pin -> pin_set(pin_config(h, s, "output"), s)
    [] s = "flash" -> config_flash(h)
    [] s = "tasks" -> task_alert_config(h)

LEMMA BootHw ==
  ASSUME NEW h, NEW k \in 1 .. 15, StartHw(h, k)
  PROVE  StartHw(Started(h, Startup[k]), k + 1)
<1> DEFINE s == Startup[k]  g == Started(h, s)
<1>1. /\ k = 1 <=> s = "clocks"
      /\ s = "clocks" \/ s \in Bus \/ s \in Pin \/ s = "flash"
      /\ s = "clocks" => s \notin Bus /\ s \notin Pin
      /\ s \in Bus => s \notin {"clocks", "flash", "tasks"} /\ s \notin Pin
      /\ s \in Pin => s \notin {"clocks", "flash", "tasks"} /\ s \notin Bus
      /\ s = "flash" => s # "clocks" /\ s \notin Bus /\ s \notin Pin
  <2>1. k \in {1, 2, 3, 4} \cup {5, 6, 7, 8} \cup 9 .. 14 \cup {15}
    OBVIOUS
  <2>2. CASE k \in {1, 2, 3, 4}
    BY <2>2, StartupSteps DEF Bus, Pin, Enable
  <2>3. CASE k \in {5, 6, 7, 8}
    BY <2>3, StartupSteps DEF Bus, Pin, Enable
  <2>4. CASE k \in 9 .. 14
    <3>1. s \in Pin /\ k # 1
      BY <2>4, StartupSteps
    <3> QED
      BY <3>1 DEF Bus, Pin, Enable
  <2>5. CASE k = 15
    BY <2>5, StartupSteps DEF Bus, Pin, Enable
  <2> QED
    BY <2>1, <2>2, <2>3, <2>4, <2>5
<1>2. /\ h \in HardwareType /\ h.lost = {} /\ (k > 1 => "GPIO" \in h.clock)
      /\ \A i \in 1 .. k - 1 : Startup[i] \in Enable => Chip(h, Startup[i])
  BY DEF StartHw
<1>b. s = Startup[k]
  OBVIOUS
<1>c. s # "clocks" => "GPIO" \in h.clock
  BY <1>1, <1>2
<1> HIDE DEF s
<1>e. s = "clocks" => g = arch_config_clocks(h)
  BY <1>1 DEF Started
<1>f. s \in Bus => g = BusConfig(h, s)
  BY <1>1 DEF Started
<1>g. s \in Pin => g = pin_set(pin_config(h, s, "output"), s)
  BY <1>1 DEF Started
<1>h. s = "flash" => g = config_flash(h)
  BY <1>1 DEF Started
<1> HIDE DEF g
<1>a. /\ s = "clocks" => g = arch_config_clocks(h)
      /\ s \in Bus => g = BusConfig(h, s)
      /\ s \in Pin => g = pin_set(pin_config(h, s, "output"), s)
      /\ s = "flash" => g = config_flash(h)
  BY <1>e, <1>f, <1>g, <1>h
<1>3. /\ g \in HardwareType /\ g.lost = {} /\ "GPIO" \in g.clock
      /\ \A p \in Enable \ {s} : g.pin[p] = h.pin[p]
      /\ s \in Enable => Chip(g, s)
  <2>1. CASE s = "clocks"
    <3>1. g = arch_config_clocks(h) /\ s \notin Enable
      BY <1>a, <2>1 DEF Enable
    <3> QED
      BY <1>2, <3>1, ClocksOn
  <2>2. CASE s \in Bus
    <3>1. g = BusConfig(h, s) /\ s \notin Enable /\ "GPIO" \in h.clock
      BY <1>a, <1>c, <2>2 DEF Enable, Bus
    <3>2. /\ g \in HardwareType /\ g.pin = h.pin /\ g.clock = h.clock \cup {s}
          /\ g.lost = h.lost
      <4> DEFINE f == BusConfig(h, s)
      <4>1. /\ f \in HardwareType /\ f.pin = h.pin /\ f.clock = h.clock \cup {s}
            /\ f.lost = h.lost
        BY <1>2, <2>2, ClocksOn
      <4> HIDE DEF f
      <4> QED
        BY <3>1, <4>1 DEF f
    <3> QED
      BY <1>2, <3>1, <3>2
  <2>3. CASE s \in Pin
    <3> DEFINE f == pin_config(h, s, "output")
    <3>1. g = pin_set(f, s) /\ "GPIO" \in h.clock
      BY <1>1, <1>a, <1>c, <2>3
    <3>2. /\ f \in HardwareType
          /\ f.pin[s] = [mode |-> "output", level |-> h.pin[s].level]
          /\ \A q \in Pin \ {s} : f.pin[q] = h.pin[q]
          /\ f.clock = h.clock /\ f.lost = h.lost
      BY <1>2, <2>3, <3>1, PinConfig DEF Mode
    <3> HIDE DEF f
    <3>3. /\ g \in HardwareType /\ g.pin[s] = [mode |-> f.pin[s].mode, level |-> TRUE]
          /\ \A q \in Pin \ {s} : g.pin[q] = f.pin[q]
          /\ g.clock = f.clock /\ g.lost = f.lost
      <4> DEFINE w == pin_write(f, s, TRUE)
      <4>1. "GPIO" \in f.clock /\ g = w
        BY <3>1, <3>2 DEF pin_set
      <4>2. /\ w \in HardwareType /\ w.pin[s] = [mode |-> f.pin[s].mode, level |-> TRUE]
            /\ \A q \in Pin \ {s} : w.pin[q] = f.pin[q]
            /\ w.clock = f.clock /\ w.lost = f.lost
        BY <2>3, <3>2, <4>1, PinWrite
      <4> HIDE DEF w
      <4> QED
        BY <4>1, <4>2
    <3>4. Chip(g, s)
      <4>1. f.pin[s].mode = "output"
        BY ONLY <3>2
      <4> QED
        BY ONLY <3>3, <4>1 DEF Chip
    <3> QED
      BY <1>2, <3>1, <3>2, <3>3, <3>4, PinKinds
  <2>4. CASE s = "flash"
    <3>1. g = config_flash(h) /\ "GPIO" \in h.clock /\ s \notin Enable
      BY <1>a, <1>c, <2>4 DEF Enable
    <3> QED
      BY <1>2, <3>1, FlashKeeps DEF SameChips
  <2> QED
    BY <1>1, <2>1, <2>2, <2>3, <2>4
<1>4. ASSUME NEW i \in 1 .. k, Startup[i] \in Enable
      PROVE  Chip(g, Startup[i])
  <2>1. CASE Startup[i] = s
    BY <1>3, <1>4, <2>1
  <2>2. CASE Startup[i] # s
    <3>1. i \in 1 .. k - 1
      BY <1>b, <2>2
    <3>2. Chip(h, Startup[i]) /\ g.pin[Startup[i]] = h.pin[Startup[i]]
      BY <1>2, <1>3, <1>4, <2>2, <3>1
    <3> QED
      BY <3>2 DEF Chip
  <2> QED
    BY <2>1, <2>2
<1>5. (k + 1) - 1 = k
  OBVIOUS
<1> QED
  BY <1>3, <1>4, <1>5, <1>b DEF StartHw, g

-----------------------------------------------------------------------------
(* The invariant of the hardware, with the sensor task's place             *)

\* What the sensor task does, and which operation of it is next.
Program == IF served > 0 THEN task_sensor ELSE config_sensor
Place == Len(Program) + 1 - Len(job)

ProgramInv ==
  /\ Place \in 1 .. Len(Program) + 1
  /\ job = Rest(Program, Place)
  /\ SelectedIn(hw) \cap Trusted = {Needed(Program, Place)} \cap Trusted

BoardInv ==
  /\ served \in Nat
  /\ Stage \in 1 .. 17 /\ boot = Rest(Startup, Stage)
  /\ boot # <<>> => StartInv
  /\ boot = <<>> => Ready(hw) /\ AlertInv /\ ProgramInv

LEMMA TrustedChips == Trusted \subseteq Enable /\ "none" \notin Enable /\ Baro \in Trusted
  BY DEF Trusted, Enable, Baro, Acc

LEMMA ProgramFacts ==
  ASSUME served \in Nat
  PROVE  /\ Program \in Seq(Operations) /\ Closed(Program) /\ Len(Program) \in Nat
         /\ Needed(Program, 1) = "none" /\ Needed(Program, Len(Program) + 1) = "none"
<1>1. Program \in Seq(Operations) /\ Closed(Program)
  BY TaskOps, ConfigOps, ProgramsClosed DEF Program
<1> HIDE DEF Program
<1> QED
  BY <1>1 DEF Closed, Needed

\* A program at its first operation, and at its end.
LEMMA ProgramStarts ==
  ASSUME NEW p, Closed(p)
  PROVE  /\ Rest(p, 1) = p /\ Len(p) + 1 - Len(p) = 1 /\ 1 \in 1 .. Len(p) + 1
         /\ Needed(p, 1) = "none"
<1>1. p \in Seq(Operations) /\ Len(p) \in Nat
  BY DEF Closed
<1> QED
  BY <1>1, RestEnds DEF Closed

\* One operation of the program is made.
LEMMA ProgramStep ==
  ASSUME served \in Nat, ProgramInv, job # <<>>, job' = Tail(job), served' = served
  PROVE  /\ Place \in 1 .. Len(Program) /\ Op = Program[Place] /\ Op \in Operations
         /\ Place' = Place + 1 /\ Place' \in 1 .. Len(Program) + 1
         /\ Program' = Program /\ job' = Rest(Program', Place')
         /\ Chosen(Op) = Needed(Program, Place) /\ After(Op) = Needed(Program', Place')
<1>1. Program \in Seq(Operations) /\ Len(Program) \in Nat /\ Closed(Program)
  BY ProgramFacts
<1>2. Program' = Program
  BY DEF Program
<1>3. Place \in 1 .. Len(Program) + 1 /\ job = Rest(Program, Place)
  BY DEF ProgramInv
<1> DEFINE p == Program  k == Place
<1> HIDE DEF p, k
<1>4. k \in 1 .. Len(p)
  <2>1. k # Len(p) + 1
    BY <1>1, <1>3, RestEnds DEF p, k
  <2> QED
    BY <1>1, <1>3, <2>1 DEF p, k
<1>5. job # <<>> /\ Op = p[k] /\ job' = Rest(p, k + 1)
  BY <1>1, <1>3, <1>4, RestSteps DEF p, k, Op
<1>6. Op \in Operations
  BY <1>1, <1>4, <1>5 DEF p
<1>7. Place' = k + 1
  <2>1. Rest(p, k) = SubSeq(p, k, Len(p)) /\ Len(Rest(p, k)) = Len(p) + 1 - k
    BY <1>1, <1>4 DEF Rest, p
  <2>2. Len(Rest(p, k + 1)) = Len(p) + 1 - (k + 1)
    BY <1>1, <1>4 DEF Rest, p
  <2>3. Place' = Len(p) + 1 - Len(Rest(p, k + 1))
    BY <1>2, <1>5 DEF Place, p
  <2> QED
    BY <1>1, <1>4, <2>2, <2>3 DEF p
<1>8. Chosen(Op) = Needed(p, k)
  BY <1>4, <1>5 DEF Needed
<1>9. After(Op) = Needed(p, k + 1)
  BY <1>1, <1>4, <1>5 DEF Closed, p
<1> QED
  BY <1>1, <1>2, <1>4, <1>5, <1>6, <1>7, <1>8, <1>9 DEF p, k

\* What an operation can be.
LEMMA OperationKinds ==
  ASSUME NEW op \in Operations
  PROVE  \/ \E c \in {Baro, Acc} : op = Select(c)
         \/ \E c \in {Baro, "none"}, b \in BaroBytes : op = Send(c, b)
         \/ \E b \in AccBytes : op = Send(Acc, b)
         \/ \E c \in {Baro, Acc, "none"}, i \in 0 .. 2 : op = Octet(c, i)
         \/ \E t \in Nat : op = Wait(t)
         \/ \E c \in {Baro, Acc}, n \in Converter \cup {"none", "C", "low", "high"}, i \in Word :
               op = Deselect(c, n, i)
         \/ op = Compute \/ op = Verify
  BY DEF Operations

LEMMA OperationChips ==
  \A op \in Operations :
    /\ op.op \in {"select", "send", "octet", "wait", "deselect", "compute", "verify"}
    /\ op.op \in {"select", "deselect"} => op.chip \in {Baro, Acc}
    /\ op.op \in {"send", "octet"} => op.chip \in {Baro, Acc, "none"}
<1>1. ASSUME NEW c, NEW b, NEW n, NEW i, NEW t
      PROVE  /\ Select(c).op = "select" /\ Select(c).chip = c
             /\ Send(c, b).op = "send" /\ Send(c, b).chip = c
             /\ Octet(c, i).op = "octet" /\ Octet(c, i).chip = c
             /\ Deselect(c, n, i).op = "deselect" /\ Deselect(c, n, i).chip = c
             /\ Wait(t).op = "wait" /\ Compute.op = "compute" /\ Verify.op = "verify"
  BY DEF Select, Send, Octet, Deselect, Wait, Compute, Verify
<1> SUFFICES ASSUME NEW op \in Operations
             PROVE  /\ op.op \in {"select", "send", "octet", "wait", "deselect", "compute",
                                  "verify"}
                    /\ op.op \in {"select", "deselect"} => op.chip \in {Baro, Acc}
                    /\ op.op \in {"send", "octet"} => op.chip \in {Baro, Acc, "none"}
  OBVIOUS
<1>2. ASSUME NEW c \in {Baro, Acc}, op = Select(c)
      PROVE  op.op = "select" /\ op.chip = c
  BY <1>1, <1>2
<1>3. ASSUME NEW c \in {Baro, "none"}, NEW b \in BaroBytes, op = Send(c, b)
      PROVE  op.op = "send" /\ op.chip = c
  BY <1>1, <1>3
<1>4. ASSUME NEW b \in AccBytes, op = Send(Acc, b)
      PROVE  op.op = "send" /\ op.chip = Acc
  BY <1>1, <1>4
<1>5. ASSUME NEW c \in {Baro, Acc, "none"}, NEW i \in 0 .. 2, op = Octet(c, i)
      PROVE  op.op = "octet" /\ op.chip = c
  BY <1>1, <1>5
<1>6. ASSUME NEW t \in Nat, op = Wait(t)
      PROVE  op.op = "wait"
  BY <1>1, <1>6
<1>7. ASSUME NEW c \in {Baro, Acc}, NEW n \in Converter \cup {"none", "C", "low", "high"},
             NEW i \in Word, op = Deselect(c, n, i)
      PROVE  op.op = "deselect" /\ op.chip = c
  BY <1>1, <1>7
<1>8. Compute.op = "compute" /\ Verify.op = "verify"
  BY <1>1
<1> QED
  BY <1>2, <1>3, <1>4, <1>5, <1>6, <1>7, <1>8, OperationKinds

LEMMA SensorStep ==
  ASSUME served \in Nat, Ready(hw), ProgramInv, SensorTask, undone' = undone
  PROVE  /\ Ready(hw') /\ ProgramInv' /\ SameLed(hw, hw') /\ SamePort(hw, hw')
         /\ served' \in Nat
<1>t. Trusted' = Trusted /\ Trusted \subseteq Enable /\ "none" \notin Trusted
  BY TrustedChips DEF Trusted
<1> HIDE DEF Trusted
<1>1. ASSUME job # <<>>, job' = Tail(job), served' = served, Op.op \notin {"select", "deselect"},
             hw' = hw
      PROVE  Ready(hw') /\ ProgramInv' /\ SameLed(hw, hw') /\ SamePort(hw, hw')
  <2>1. /\ Place' \in 1 .. Len(Program) + 1 /\ Program' = Program
        /\ job' = Rest(Program', Place')
        /\ Chosen(Op) = Needed(Program, Place) /\ After(Op) = Needed(Program', Place')
    BY <1>1, ProgramStep
  <2>2. After(Op) = Chosen(Op)
    BY <1>1 DEF After
  <2>3. SelectedIn(hw') \cap Trusted' = {Needed(Program', Place')} \cap Trusted'
    BY <1>1, <1>t, <2>1, <2>2 DEF ProgramInv
  <2> QED
    BY <1>1, <2>1, <2>3 DEF ProgramInv, SameLed, SamePort
<1>2. CASE ChipSelect
  <2>1. /\ job # <<>> /\ Op.op = "select" /\ job' = Tail(job)
        /\ hw' = pin_clear(hw, Op.chip) /\ served' = served
    BY <1>2 DEF ChipSelect, Doing
  <2>2. /\ Place' \in 1 .. Len(Program) + 1 /\ Program' = Program /\ Op \in Operations
        /\ job' = Rest(Program', Place')
        /\ Chosen(Op) = Needed(Program, Place) /\ After(Op) = Needed(Program', Place')
    BY <2>1, ProgramStep
  <2>3. Op.chip \in {Baro, Acc}
    BY <2>1, <2>2, OperationChips
  <2>4. Chosen(Op) = "none" /\ After(Op) = Op.chip
    BY <2>1 DEF Chosen, After
  <2>5. SelectedIn(hw) \cap Trusted = {}
    BY <1>t, <2>2, <2>4 DEF ProgramInv
  <2>6. /\ Ready(hw') /\ SameLed(hw, hw') /\ SamePort(hw, hw')
        /\ Op.chip \in SelectedIn(hw')
        /\ \A p \in Enable \ {Op.chip} : p \in SelectedIn(hw') <=> p \in SelectedIn(hw)
    BY <2>1, <2>3, ChipSelected
  <2>7. SelectedIn(hw') \cap Trusted' = {Needed(Program', Place')} \cap Trusted'
    BY <1>t, <2>2, <2>4, <2>5, <2>6
  <2> QED
    BY <2>1, <2>2, <2>6, <2>7 DEF ProgramInv
<1>3. CASE ChipDeselect
  <2>1. /\ job # <<>> /\ Op.op = "deselect" /\ job' = Tail(job)
        /\ hw' = pin_set(hw, Op.chip) /\ served' = served
    BY <1>3 DEF ChipDeselect, Doing
  <2>2. /\ Place' \in 1 .. Len(Program) + 1 /\ Program' = Program /\ Op \in Operations
        /\ job' = Rest(Program', Place')
        /\ Chosen(Op) = Needed(Program, Place) /\ After(Op) = Needed(Program', Place')
    BY <2>1, ProgramStep
  <2>3. Op.chip \in {Baro, Acc}
    BY <2>1, <2>2, OperationChips
  <2>4. Chosen(Op) = Op.chip /\ After(Op) = "none"
    BY <2>1 DEF Chosen, After
  <2>5. SelectedIn(hw) \cap Trusted = {Op.chip} \cap Trusted
    BY <2>2, <2>4 DEF ProgramInv
  <2>6. /\ Ready(hw') /\ SameLed(hw, hw') /\ SamePort(hw, hw')
        /\ Op.chip \notin SelectedIn(hw')
        /\ \A p \in Enable \ {Op.chip} : p \in SelectedIn(hw') <=> p \in SelectedIn(hw)
    BY <2>1, <2>3, ChipDeselected
  <2>7. SelectedIn(hw') \cap Trusted' = {Needed(Program', Place')} \cap Trusted'
    BY <1>t, <2>2, <2>4, <2>5, <2>6
  <2> QED
    BY <2>1, <2>2, <2>6, <2>7 DEF ProgramInv
<1>4. CASE Transfer \/ ReadOctet \/ Delay \/ VerifyProm \/ GetMbarc
  BY <1>1, <1>4 DEF Transfer, ReadOctet, Delay, VerifyProm, GetMbarc, Doing
<1>5. CASE Serve
  <2>1. job = <<>> /\ job' = task_sensor /\ served' = served + 1 /\ hw' = hw
    BY <1>5 DEF Serve
  <2>2. Program' = task_sensor /\ served' \in Nat
    BY <2>1 DEF Program
  <2>3. SelectedIn(hw) \cap Trusted = {}
    <3>1. Program \in Seq(Operations) /\ Len(Program) \in Nat
          /\ Needed(Program, Len(Program) + 1) = "none"
      BY ProgramFacts
    <3>2. Place = Len(Program) + 1
      BY <2>1, <3>1, RestEnds, ZenonT(40) DEF ProgramInv
    <3> QED
      BY <1>t, <3>1, <3>2 DEF ProgramInv
  <2>4. Closed(task_sensor)
    BY ProgramsClosed
  <2>5. Place' = 1
    BY <2>1, <2>2, <2>4, ProgramStarts DEF Place
  <2>6. /\ Place' \in 1 .. Len(Program') + 1 /\ job' = Rest(Program', Place')
        /\ Needed(Program', Place') = "none"
    BY <2>1, <2>2, <2>4, <2>5, ProgramStarts
  <2> QED
    BY <1>t, <2>1, <2>2, <2>3, <2>6 DEF ProgramInv, SameLed, SamePort
<1> QED
  BY <1>2, <1>3, <1>4, <1>5 DEF SensorTask, ChipSelect, ChipDeselect, Transfer, ReadOctet,
     Delay, VerifyProm, GetMbarc

LEMMA SameAlertInv ==
  ASSUME AlertInv, SameLed(hw, hw'), SamePort(hw, hw'), UNCHANGED alertvars
  PROVE  AlertInv'
<1>1. /\ LedPin(hw') = LedPin(hw) /\ hw'.duty = hw.duty
      /\ \A show \in Shows : LedIs(hw, show) => LedIs(hw', show)
  BY SameLedIs
<1>2. /\ alert' = alert /\ pulse' = pulse /\ toggle' = toggle /\ shown' = shown
      /\ before' = before /\ undone' = undone
  BY DEF alertvars
<1>3. alert.state \in Shows
  BY DEF AlertInv, AlertTypes
<1>4. AlertTypes' /\ (BlinksCounted => BlinksCounted')
  BY <1>2 DEF AlertInv, AlertTypes, BlinksCounted
<1>5. Toggled(before.argument - alert.left) => Toggled(before.argument - alert.left)'
  BY <1>2 DEF Toggled
<1>6. (\A p \in PortB \ {Acc} : alert.read[p] = hw.pin[p].level)
      => \A p \in PortB \ {Acc} : alert'.read[p] = hw'.pin[p].level
  BY <1>2 DEF SamePort
<1> QED
  BY <1>1, <1>2, <1>3, <1>4, <1>5, <1>6 DEF AlertInv

LEMMA SameProgramInv ==
  ASSUME ProgramInv, Leaves, job' = job, served' = served
  PROVE  ProgramInv'
<1>1. Trusted' \subseteq Trusted /\ Trusted' \subseteq Enable
      /\ \A p \in Trusted' : hw'.pin[p] = hw.pin[p]
  BY DEF Leaves, Trusted
<1>2. \A p \in Trusted' : p \in SelectedIn(hw') <=> p \in SelectedIn(hw)
  BY <1>1 DEF SelectedIn, DrivesLow
<1>3. Program' = Program /\ Place' = Place
  BY DEF Program, Place
<1>4. SelectedIn(hw) \cap Trusted = {Needed(Program, Place)} \cap Trusted
  BY DEF ProgramInv
<1>5. SelectedIn(hw') \cap Trusted' = {Needed(Program', Place')} \cap Trusted'
  BY <1>1, <1>2, <1>3, <1>4
<1> QED
  BY <1>3, <1>5 DEF ProgramInv

LEMMA BootStep ==
  ASSUME BoardInv, Boot
  PROVE  BoardInv'
<1>1. /\ boot # <<>> /\ boot' = Tail(boot) /\ served' = served
      /\ UNCHANGED <<pulse, toggle, shown, before, undone>>
      /\ StartInv /\ boot = Rest(Startup, Stage) /\ Stage \in 1 .. 17
  BY DEF Boot, BoardInv
<1> DEFINE k == Stage  s == Startup
<1>2. s \in Seq(Starts) /\ Len(s) = 16
  BY StartupSteps
<1>e. Rest(s, 17) = <<>> /\ \A i \in 1 .. 17 : Rest(s, i) = <<>> => i = 17
  <2>1. /\ Rest(s, Len(s) + 1) = <<>>
        /\ \A i \in 1 .. Len(s) + 1 : Rest(s, i) = <<>> => i = Len(s) + 1
    BY <1>2, RestEnds
  <2>2. Len(s) + 1 = 17
    BY <1>2
  <2> QED
    BY <2>1, <2>2
<1>k. k \in 1 .. 17 /\ boot = Rest(s, k) /\ StartHw(hw, k)
  BY <1>1 DEF StartInv
<1> HIDE DEF k, s
<1>3. k \in 1 .. 16
  <2>1. Rest(s, 17) = <<>>
    BY <1>e
  <2> QED
    BY <1>1, <1>k, <2>1
<1>4. Head(boot) = s[k] /\ boot' = Rest(s, k + 1)
  BY <1>1, <1>2, <1>3, <1>k, RestSteps, ZenonT(40)
<1>5. Stage' = k + 1 /\ Stage' \in 1 .. 17
  <2>1. Len(Rest(s, k + 1)) = 16 - k
    BY <1>2, <1>3 DEF Rest
  <2>2. Stage' = 17 - (16 - k)
    BY <1>2, <1>4, <2>1 DEF Stage, s
  <2> QED
    BY <1>3, <2>2
<1>6. boot' = <<>> <=> k = 16
  <2>1. k + 1 \in 1 .. 17
    BY <1>3
  <2>2. Rest(s, k + 1) = <<>> => k + 1 = 17
    BY <1>e, <2>1
  <2>3. k = 16 => k + 1 = 17
    BY <1>3
  <2> QED
    BY <1>3, <1>4, <1>e, <2>2, <2>3
<1>7. boot' = Rest(Startup, Stage')
  BY <1>4, <1>5 DEF s
<1>8. hw' = Started(hw, s[k])
  BY <1>4 DEF Boot, Started
<1>9. CASE k # 16
  <2>1. StartHw(hw', k + 1)
    <3>1. k \in 1 .. 15
      BY <1>3, <1>9
    <3> QED
      BY <1>8, <1>k, <3>1, BootHw DEF s
  <2>2. boot' # <<>> /\ job' = job /\ alert' = alert
    BY <1>6, <1>9 DEF Boot
  <2>3. StartInv'
    BY <1>1, <1>5, <2>1, <2>2 DEF StartInv
  <2> QED
    BY <1>1, <1>5, <1>7, <2>2, <2>3 DEF BoardInv
<1>10. CASE k = 16
  <2>1. s[16] = "tasks" /\ "tasks" \notin Bus \cup Pin \cup {"clocks", "flash"}
    BY StartupSteps DEF s, Bus, Pin, Enable
  <2>2. hw' = task_alert_config(hw)
    BY <1>8, <1>10, <2>1 DEF Started
  <2>3. /\ boot' = <<>> /\ job' = config_sensor /\ alert' = [alert EXCEPT !.at = "wait"]
    BY <1>6, <1>10 DEF Boot
  <2>4. /\ hw \in HardwareType /\ hw.lost = {} /\ "GPIO" \in hw.clock
        /\ \A p \in Enable : Chip(hw, p)
    <3>1. \A p \in Enable : \E i \in 1 .. 15 : s[i] = p
      BY StartupSteps DEF s, Enable
    <3> QED
      BY <1>10, <1>k, <3>1 DEF StartHw, s
  <2> DEFINE f == arch_init_timer(hw)  g == enable_pulse(f)
  <2>5. /\ f \in HardwareType /\ f.pin = hw.pin /\ f.clock = hw.clock \cup {"TIM2"}
        /\ f.duty = 0 /\ f.lost = hw.lost
    BY <2>4, TimerInit
  <2>6. hw' = g
    BY <2>2 DEF task_alert_config
  <2> HIDE DEF f
  <2>7. Ready(f)
    BY <2>4, <2>5 DEF Ready, Chip
  <2>8. Ready(g) /\ SameChips(f, g) /\ g.duty = f.duty /\ LedIs(g, "pulse")
    BY <2>7, PulseOn
  <2> HIDE DEF g
  <2>9. SelectedIn(g) = {}
    <3>1. \A p \in Enable : g.pin[p].level = TRUE
      BY <2>4, <2>5, <2>8 DEF SameChips, Chip
    <3> QED
      BY <2>8, <3>1, SelectedLow
  <2>10. /\ alert' = [at |-> "wait", state |-> "pulse", left |-> 0, read |-> Unread]
         /\ before'.argument = 0
    BY <1>1, <2>3 DEF StartInv
  <2>11. AlertTypes'
    <3>1. [value |-> 0, direction |-> Step] \in [value : Ramp, direction : {-Step, Step}]
      BY RampSteps
    <3>2. Unread \in [PortB -> BOOLEAN]
      BY DEF Unread
    <3> QED
      BY <1>1, <2>10, <3>1, <3>2 DEF AlertTypes, StartInv, Shows
  <2>12. AlertInv'
    <3>1. hw'.duty = 0 /\ 0 <= Period
      BY <2>5, <2>6, <2>8, BoardAssumption
    <3>2. LedIs(hw', "pulse") /\ alert'.at = "wait" /\ alert'.state = "pulse"
      BY <2>6, <2>8, <2>10
    <3>3. BlinksCounted'
      BY <2>10 DEF BlinksCounted
    <3> QED
      BY <2>11, <3>1, <3>2, <3>3 DEF AlertInv
  <2>13. ProgramInv'
    <3>1. Program' = config_sensor
      BY <1>1 DEF Program, StartInv
    <3>2. Closed(config_sensor)
      BY ProgramsClosed
    <3>3. Place' = 1
      BY <2>3, <3>1, <3>2, ProgramStarts DEF Place
    <3>4. /\ Place' \in 1 .. Len(Program') + 1 /\ job' = Rest(Program', Place')
          /\ Needed(Program', Place') = "none"
      BY <2>3, <3>1, <3>2, <3>3, ProgramStarts
    <3>5. "none" \notin Trusted'
      BY DEF Trusted, Enable
    <3> QED
      BY <2>6, <2>9, <3>4, <3>5 DEF ProgramInv
  <2>14. Ready(hw')
    BY <2>6, <2>8
  <2>15. served' \in Nat
    BY <1>1 DEF StartInv
  <2> QED
    BY <1>5, <1>7, <2>3, <2>12, <2>13, <2>14, <2>15 DEF BoardInv
<1> QED
  BY <1>9, <1>10

LEMMA BoardStarts == Init => BoardInv
<1> SUFFICES ASSUME Init
             PROVE  BoardInv
  OBVIOUS
<1>1. Startup \in Seq(Starts) /\ Len(Startup) = 16 /\ boot = Startup
  BY StartupSteps DEF Init
<1>2. Stage = 1 /\ boot = Rest(Startup, Stage) /\ boot # <<>>
  <2>1. ASSUME NEW p \in Seq(Starts), Len(p) = 16
        PROVE  Len(p) + 1 - Len(p) = 1 /\ p # <<>> /\ p = Rest(p, 1)
    BY <2>1, RestEnds
  <2> QED
    BY <1>1, <2>1 DEF Stage
<1>3. StartHw(hw, Stage)
  <2>1. hw = PowerOn /\ PowerOn \in HardwareType /\ PowerOn.lost = {}
    BY DEF Init, PowerOn, HardwareType, Mode
  <2> QED
    BY <1>2, <2>1 DEF StartHw
<1>4. StartInv
  BY <1>3 DEF StartInv, Init, SensorInit
<1> QED
  BY <1>2, <1>4 DEF BoardInv, StartInv

LEMMA BoardSteps ==
  ASSUME BoardInv, [Next]_vars
  PROVE  BoardInv'
<1>1. CASE Boot
  BY <1>1, BootStep
<1>2. ASSUME boot = <<>>, SensorTask, UNCHANGED <<boot, alertvars>>
      PROVE  BoardInv'
  <2>1. Ready(hw) /\ AlertInv /\ ProgramInv /\ served \in Nat
    BY <1>2 DEF BoardInv
  <2>2. /\ Ready(hw') /\ ProgramInv' /\ SameLed(hw, hw') /\ SamePort(hw, hw')
        /\ served' \in Nat
    BY <1>2, <2>1, SensorStep DEF alertvars
  <2>3. AlertInv'
    BY <1>2, <2>1, <2>2, SameAlertInv
  <2>4. boot' = boot /\ Stage' = Stage
    BY <1>2 DEF Stage
  <2> QED
    BY <1>2, <2>2, <2>3, <2>4 DEF BoardInv
<1>3. ASSUME boot = <<>>, NewSample, UNCHANGED <<boot, alertvars>>
      PROVE  BoardInv'
  <2>1. Ready(hw) /\ AlertInv /\ ProgramInv /\ served \in Nat
    BY <1>3 DEF BoardInv
  <2>2. UNCHANGED <<hw, job, served>>
    BY <1>3 DEF NewSample, driver
  <2>3. SameLed(hw, hw') /\ SamePort(hw, hw') /\ Leaves /\ Ready(hw')
    BY <1>3, <2>1, <2>2, ChipsLeft DEF SameLed, SamePort, SameChips, alertvars
  <2>4. AlertInv' /\ ProgramInv'
    BY <1>3, <2>1, <2>2, <2>3, SameAlertInv, SameProgramInv
  <2>5. boot' = boot /\ Stage' = Stage
    BY <1>3 DEF Stage
  <2> QED
    BY <1>3, <2>1, <2>2, <2>3, <2>4, <2>5 DEF BoardInv
<1>4. CASE Alert
  <2>1. boot = <<>>
    <3>1. alert.at # "none"
      BY <1>4 DEF Alert, Tick, Ignore, BlinkReads, BlinkOn, BlinkOff, BlinkEnd, Show, Blink,
         AlertArrives
    <3> QED
      BY <3>1 DEF BoardInv, StartInv
  <2>2. Ready(hw) /\ AlertInv /\ ProgramInv /\ served \in Nat
    BY <2>1 DEF BoardInv
  <2>3. UNCHANGED <<boot, job, served>>
    BY <1>4 DEF Alert, Tick, Ignore, BlinkReads, BlinkOn, BlinkOff, BlinkEnd, Show, Blink,
       AlertArrives, driver, sensorvars
  <2>4. Ready(hw') /\ Leaves /\ AlertInv'
    BY <1>4, <2>2, AlertStep
  <2>5. ProgramInv'
    BY <2>2, <2>3, <2>4, SameProgramInv
  <2>6. Stage' = Stage
    BY <2>3 DEF Stage
  <2> QED
    BY <2>1, <2>2, <2>3, <2>4, <2>5, <2>6 DEF BoardInv
<1>5. CASE UNCHANGED vars
  <2>1. /\ UNCHANGED <<hw, job, served, boot, alert, pulse, toggle, shown, before, undone>>
        /\ UNCHANGED alertvars
    BY <1>5 DEF vars, sensorvars, driver, alertvars
  <2>2. Stage' = Stage /\ (StartInv => StartInv')
    BY <2>1 DEF Stage, StartInv, StartHw
  <2>3. SameLed(hw, hw') /\ SamePort(hw, hw') /\ Leaves /\ (Ready(hw) => Ready(hw'))
    BY <2>1, ChipsLeft DEF SameLed, SamePort, SameChips
  <2>4. AlertInv /\ ProgramInv => AlertInv' /\ ProgramInv'
    BY <2>1, <2>3, SameAlertInv, SameProgramInv
  <2> QED
    BY <2>1, <2>2, <2>3, <2>4 DEF BoardInv
<1> QED
  BY <1>1, <1>2, <1>3, <1>4, <1>5 DEF Next

LEMMA BoardKept == Spec => []BoardInv
<1>1. BoardInv /\ [Next]_vars => BoardInv'
  BY BoardSteps
<1> QED
  BY BoardStarts, <1>1, PTL DEF Spec

\* hal_stm32_stdperiphlib.c, ms5611.c, bmx055.c, periph.c: every byte goes to
\* the one chip its driver talks to, with no chip selected in between, and no
\* write to a peripheral is lost but that of timer_disable; for every
\* calibration, timing and run of alerts.  Once the toggle of a blink has put
\* back a level that was read before the sensor task wrote its own, this is
\* said of the barometer only: its pin is on another port.
THEOREM BoardWritesArrive == Spec => []WritesArrive
<1>1. ASSUME BoardInv
      PROVE  WritesArrive
  <2>1. CASE boot # <<>>
    <3>1. job = <<>> /\ served = 0 /\ hw.lost = {}
      BY <1>1, <2>1 DEF BoardInv, StartInv, StartHw
    <3> QED
      BY <3>1 DEF WritesArrive, BusDiscipline, Complete
  <2>2. CASE boot = <<>>
    <3>1. Ready(hw) /\ ProgramInv /\ served \in Nat
      BY <1>1, <2>2 DEF BoardInv
    <3>2. /\ Selected \cap Trusted = {Needed(Program, Place)} \cap Trusted
          /\ "none" \notin Trusted
      BY <3>1, TrustedChips DEF ProgramInv, Selected, SelectedIn
    <3>3. Program \in Seq(Operations) /\ Len(Program) \in Nat
          /\ Needed(Program, Len(Program) + 1) = "none"
      BY <3>1, ProgramFacts
    <3>4. ASSUME job = <<>>
          PROVE  Selected \cap Trusted = {}
      <4>1. Place = Len(Program) + 1
        BY <3>1, <3>3, <3>4, RestEnds, ZenonT(40) DEF ProgramInv
      <4> QED
        BY <3>2, <3>3, <4>1
    <3>5. ASSUME job # <<>>
          PROVE  Selected \cap Trusted = {Chosen(Op)} \cap Trusted
      <4>1. Place \in 1 .. Len(Program)
        <5>1. Place # Len(Program) + 1
          BY <3>1, <3>3, <3>5, RestEnds DEF ProgramInv
        <5> QED
          BY <3>1, <3>3, <5>1 DEF ProgramInv
      <4>2. Op = Program[Place]
        BY <3>1, <3>3, <4>1, RestSteps DEF ProgramInv, Op
      <4> QED
        BY <3>2, <4>1, <4>2 DEF Needed
    <3>6. job # <<>> /\ Op.op \in {"send", "octet"}
            => Selected \cap Trusted = {Op.chip} \cap Trusted
      BY <3>5 DEF Chosen
    <3>7. job # <<>> /\ Op.op \in {"select", "verify", "compute"}
            => Selected \cap Trusted = {}
      BY <3>2, <3>5 DEF Chosen
    <3>8. hw.lost \subseteq {"counter off"}
      BY <3>1 DEF Ready
    <3> QED
      BY <3>4, <3>6, <3>7, <3>8 DEF WritesArrive, BusDiscipline, Complete
  <2> QED
    BY <2>1, <2>2
<1> QED
  BY BoardKept, <1>1, PTL

\* task_alert.c: whenever the alert task waits, the status LED shows what its
\* state says, has blinked as it was told, and its pulse fits the period; for
\* every run of alerts and blinks, whatever the sensor task does meanwhile.
THEOREM BoardLedShowsAlert == Spec => []LedShowsAlert
<1>1. ASSUME BoardInv
      PROVE  LedShowsAlert
  <2>1. CASE boot # <<>>
    BY <1>1, <2>1 DEF BoardInv, StartInv, LedShowsAlert
  <2>2. CASE boot = <<>>
    <3>1. Ready(hw) /\ AlertInv /\ alert.state \in Shows
      BY <1>1, <2>2 DEF BoardInv, AlertInv, AlertTypes
    <3> QED
      BY <3>1, LedShows DEF AlertInv, LedShowsAlert
  <2> QED
    BY <2>1, <2>2
<1> QED
  BY BoardKept, <1>1, PTL

-----------------------------------------------------------------------------
(* What an operation does                                                  *)

LEMMA OperationFields ==
  /\ \A c : Select(c).op = "select" /\ Select(c).chip = c
  /\ \A c, b : Send(c, b).op = "send" /\ Send(c, b).chip = c /\ Send(c, b).byte = b
  /\ \A c, i : Octet(c, i).op = "octet" /\ Octet(c, i).chip = c /\ Octet(c, i).place = i
  /\ \A t : Wait(t).op = "wait" /\ Wait(t).ticks = t
  /\ \A c, n, i : /\ Deselect(c, n, i).op = "deselect" /\ Deselect(c, n, i).chip = c
                  /\ Deselect(c, n, i).name = n /\ Deselect(c, n, i).index = i
  /\ Compute.op = "compute" /\ Verify.op = "verify"
  BY DEF Select, Send, Octet, Wait, Deselect, Compute, Verify

LEMMA ActionOf ==
  ASSUME SensorTask, job # <<>>
  PROVE  /\ job' = Tail(job) /\ served' = served
         /\ Op.op = "select" => ChipSelect
         /\ Op.op = "deselect" => ChipDeselect
         /\ Op.op = "send" => Transfer
         /\ Op.op = "octet" => ReadOctet
         /\ Op.op = "wait" => Delay
         /\ Op.op = "verify" => VerifyProm
         /\ Op.op = "compute" => GetMbarc
<1>1. ~Serve
  BY DEF Serve
<1> QED
  BY <1>1 DEF SensorTask, ChipSelect, ChipDeselect, Transfer, ReadOctet, Delay, VerifyProm,
     GetMbarc, Doing

\* The chip that is selected when the next operation is made.
LEMMA SelectedNow ==
  ASSUME served \in Nat, ProgramInv, ~undone, job # <<>>
  PROVE  Selected = {Chosen(Op)} \ {"none"}
<1>1. Program \in Seq(Operations) /\ Len(Program) \in Nat
  BY ProgramFacts
<1>2. Place \in 1 .. Len(Program)
  <2>1. Place # Len(Program) + 1
    BY <1>1, RestEnds DEF ProgramInv
  <2> QED
    BY <1>1, <2>1 DEF ProgramInv
<1>3. Op = Program[Place]
  BY <1>1, <1>2, RestSteps DEF ProgramInv, Op
<1>4. Trusted = Enable /\ Selected \subseteq Enable /\ "none" \notin Enable
      /\ Chosen(Op) \in Enable \cup {"none"}
  <2>1. Op \in Operations
    BY <1>1, <1>2, <1>3
  <2>2. Chosen(Op) \in {Baro, Acc, "none"}
    BY <2>1, OperationChips DEF Chosen
  <2> QED
    BY <2>2, TrustedChips, PinKinds DEF Trusted, Selected
<1>5. Selected \cap Trusted = {Chosen(Op)} \cap Trusted
  BY <1>2, <1>3 DEF Needed, ProgramInv, Selected, SelectedIn
<1> QED
  BY <1>4, <1>5

LEMMA DoSelect ==
  ASSUME SensorTask, job # <<>>, NEW c, Op = Select(c)
  PROVE  UNCHANGED <<val, C, D, accel, baro, acc, measured, early, mbarc>>
  BY ActionOf, OperationFields DEF ChipSelect, chips

LEMMA DoDeselect ==
  ASSUME SensorTask, job # <<>>, NEW c, NEW n, NEW i, Op = Deselect(c, n, i)
  PROVE  /\ UNCHANGED <<val, acc, measured, early, mbarc>>
         /\ baro' = [baro EXCEPT !.out = <<>>]
         /\ C' = IF n = "C" THEN [C EXCEPT ![i] = val] ELSE C
         /\ D' = IF n \in Converter THEN [D EXCEPT ![n] = val] ELSE D
         /\ accel' = IF n \in {"low", "high"} THEN [accel EXCEPT ![i][n] = val] ELSE accel
  BY ActionOf, OperationFields DEF ChipDeselect

LEMMA DoWait ==
  ASSUME SensorTask, job # <<>>, NEW t, Op = Wait(t)
  PROVE  /\ UNCHANGED <<val, C, D, accel, acc, measured, mbarc>>
         /\ \E time \in {10 * (t - 1) + 1, 10 * t} :
              /\ baro' = [baro EXCEPT !.busy = IF @ > time THEN @ - time ELSE 0]
              /\ early' = (early \/ (baro.of = "none" /\ baro.busy > time))
<1>1. Delay /\ Op.ticks = t
  BY ActionOf, OperationFields
<1>2. UNCHANGED <<val, C, D, accel, acc, measured, mbarc>>
  BY <1>1 DEF Delay
<1>3. \E time \in {10 * (Op.ticks - 1) + 1, 10 * Op.ticks} :
        /\ baro' = [baro EXCEPT !.busy = IF @ > time THEN @ - time ELSE 0]
        /\ early' = (early \/ (baro.of = "none" /\ baro.busy > time))
  BY <1>1 DEF Delay
<1> QED
  BY <1>1, <1>2, <1>3

LEMMA DoCompute ==
  ASSUME SensorTask, job # <<>>, Op = Compute
  PROVE  /\ UNCHANGED <<val, C, D, accel, baro, acc, measured, early>>
         /\ mbarc' = Mbarc(C, D["D1"], D["D2"])
  BY ActionOf, OperationFields DEF GetMbarc, chips

LEMMA DoVerify ==
  ASSUME SensorTask, job # <<>>, Op = Verify
  PROVE  UNCHANGED <<val, C, D, accel, baro, acc, measured, early, mbarc>>
  BY ActionOf, OperationFields DEF VerifyProm, chips

LEMMA ChipsDiffer == Baro # Acc /\ Baro # "none" /\ Acc # "none"
  BY DEF Baro, Acc

LEMMA DoSend ==
  ASSUME served \in Nat, ~undone, ProgramInv, SensorTask, job # <<>>,
         NEW c \in {Baro, Acc, "none"}, NEW b, Op = Send(c, b)
  PROVE  /\ val' = 0 /\ UNCHANGED <<C, D, accel, early, mbarc>>
         /\ IF c = Baro THEN BaroTakes(b) ELSE UNCHANGED <<baro, measured>>
         /\ IF c = Acc THEN AccTakes(b) ELSE UNCHANGED acc
<1>1. Transfer /\ Op.byte = b
  BY ActionOf, OperationFields
<1>2. Selected = {c} \ {"none"}
  BY SelectedNow, ChosenOf
<1>3. (Baro \in Selected <=> c = Baro) /\ (Acc \in Selected <=> c = Acc)
  BY <1>2, ChipsDiffer
<1> QED
  BY <1>1, <1>3 DEF Transfer

LEMMA DoOctet ==
  ASSUME served \in Nat, ~undone, ProgramInv, SensorTask, job # <<>>,
         NEW c \in {Baro, Acc, "none"}, NEW i, Op = Octet(c, i)
  PROVE  /\ UNCHANGED <<C, D, accel, acc, measured, early, mbarc>>
         /\ c = Baro /\ baro.out # <<>> =>
              /\ val' = val + Head(baro.out) * Weight(i)
              /\ baro' = [baro EXCEPT !.out = Tail(@)]
         /\ c = Baro /\ baro.out = <<>> => val' = val + 0 * Weight(i) /\ baro' = baro
         /\ c = Acc => val' = val + acc.gives * Weight(i) /\ baro' = baro
         /\ c = "none" => val' = val + 0 * Weight(i) /\ baro' = baro
<1>1. ReadOctet /\ Op.place = i
  BY ActionOf, OperationFields
<1>2. Selected = {c} \ {"none"}
  BY SelectedNow, ChosenOf
<1>3. (Selected = {Baro} <=> c = Baro) /\ (Selected = {Acc} <=> c = Acc)
  BY <1>2, ChipsDiffer
<1>4. /\ UNCHANGED <<C, D, accel, acc, measured, early, mbarc>>
      /\ val' = val + Miso * Weight(i)
      /\ baro' = IF c = Baro /\ baro.out # <<>> THEN [baro EXCEPT !.out = Tail(@)] ELSE baro
  BY <1>1, <1>3 DEF ReadOctet
<1>5. /\ c = Baro /\ baro.out # <<>> => Miso = Head(baro.out)
      /\ c = Acc => Miso = acc.gives
      /\ ~(c = Baro /\ baro.out # <<>>) /\ c # Acc => Miso = 0
  BY <1>3, ChipsDiffer DEF Miso
<1> QED
  BY <1>4, <1>5, ChipsDiffer

LEMMA TakesReset ==
  ASSUME BaroTakes(<<"reset">>)
  PROVE  /\ baro' = [out |-> <<>>, of |-> "none", busy |-> Reload, error |-> baro.error]
         /\ measured' = measured
  BY DEF BaroTakes, Converter

LEMMA TakesProm ==
  ASSUME NEW w, BaroTakes(<<"prom", w>>)
  PROVE  /\ baro' = [baro EXCEPT !.out =
              MsbFirst(IF baro.busy > 0 THEN 0 ELSE Flipped(w, baro.error), 2)]
         /\ measured' = measured
  BY DEF BaroTakes, Converter

LEMMA TakesConverter ==
  ASSUME NEW c \in Converter, BaroTakes(<<c>>)
  PROVE  /\ baro' = [baro EXCEPT !.of = c, !.busy = Conversion]
         /\ measured' = measured
  BY DEF BaroTakes, Converter

LEMMA TakesAdc ==
  ASSUME BaroTakes(<<"adc">>)
  PROVE  IF baro.of = "none" \/ baro.busy > 0
         THEN baro' = [baro EXCEPT !.out = <<0, 0, 0>>] /\ measured' = measured
         ELSE \E reading \in Readings[baro.of] :
                /\ baro' = [baro EXCEPT !.out = MsbFirst(reading, 3), !.of = "none"]
                /\ measured' = [measured EXCEPT ![baro.of] = reading]
  BY DEF BaroTakes, Converter

LEMMA TakesAxis ==
  ASSUME NEW x
  PROVE  /\ AccTakes(<<"low", x>>) =>
              acc' = [acc EXCEPT !.gives = acc.sample, !.held[x] = acc.sample]
         /\ AccTakes(<<"high", x>>) =>
              acc' = [acc EXCEPT !.gives = IF acc.held[x] = -1 THEN acc.sample
                                           ELSE acc.held[x],
                                 !.held[x] = -1]
         /\ AccTakes(<<"id", 0>>) => acc' = acc
  BY DEF AccTakes

-----------------------------------------------------------------------------
(* The bytes of a value                                                    *)

ByteOf(m, j) == (m \div Weight(j)) % Byte

LEMMA DivRange ==
  ASSUME NEW x \in Int, NEW b \in Nat \ {0}
  PROVE  /\ x \div b \in Int /\ x % b \in 0 .. b - 1
         /\ x = b * (x \div b) + (x % b)
  OBVIOUS

LEMMA ProductBounds ==
  ASSUME NEW n \in Nat, NEW m \in Nat, NEW k \in Nat, m <= k
  PROVE  n * m \in Nat /\ n * m <= n * k /\ n * k \in Nat
  OBVIOUS

LEMMA Distributes ==
  ASSUME NEW a \in Int, NEW b \in Int, NEW c \in Int, NEW d \in Int
  PROVE  /\ a * (b * c + d) = b * (a * c) + a * d
         /\ b * c - b * d = b * (c - d)
         /\ a * b \in Int
  OBVIOUS

\* A multiple of b between -b and b.
LEMMA NoMultiple ==
  ASSUME NEW b \in Nat \ {0}, NEW d \in Int
  PROVE  /\ b * d > -b => d >= 0
         /\ b * d < b => d <= 0
<1>1. ASSUME d <= -1
      PROVE  b * d <= -b
  BY <1>1
<1>2. ASSUME d >= 1
      PROVE  b * d >= b
  BY <1>2
<1>3. b * d \in Int
  OBVIOUS
<1> QED
  BY <1>1, <1>2, <1>3

\* Quotient and remainder are the only ones.
LEMMA DivUnique ==
  ASSUME NEW b \in Nat \ {0}, NEW x \in Int, NEW q \in Int, NEW r \in 0 .. b - 1,
         x = b * q + r
  PROVE  x \div b = q /\ x % b = r
<1> DEFINE p == x \div b  n == x % b
<1>1. p \in Int /\ n \in 0 .. b - 1 /\ x = b * p + n
  BY DivRange
<1> HIDE DEF p, n
<1>2. b * p - b * q = b * (p - q) /\ b * p \in Int /\ b * q \in Int /\ b * (p - q) \in Int
  BY <1>1, Distributes
<1>3. b * (p - q) = r - n
  BY <1>1, <1>2
<1>4. b * (p - q) > -b /\ b * (p - q) < b
  BY <1>1, <1>3
<1>5. p - q \in Int /\ p - q >= 0 /\ p - q <= 0
  BY <1>1, <1>4, NoMultiple
<1>6. p = q
  BY <1>1, <1>5
<1> QED
  BY <1>1, <1>6 DEF p, n

LEMMA DivSmall ==
  ASSUME NEW b \in Nat \ {0}, NEW x \in Nat
  PROVE  /\ x \div b \in Nat
         /\ x < b => x % b = x /\ x \div b = 0
         /\ \A k \in Nat : x < b * k => x \div b < k
<1> DEFINE q == x \div b  m == x % b
<1>1. q \in Int /\ m \in 0 .. b - 1 /\ x = b * q + m /\ b * q \in Int
  <2>1. q \in Int /\ m \in 0 .. b - 1 /\ x = b * q + m
    BY DivRange
  <2> QED
    BY <2>1, Distributes
<1>2. x < b => x % b = x /\ x \div b = 0
  <2>1. ASSUME x < b
        PROVE  x \in 0 .. b - 1 /\ x = b * 0 + x
    BY <2>1
  <2> QED
    BY <2>1, DivUnique
<1> HIDE DEF q, m
<1>3. q >= 0
  <2>1. b * q > -b
    BY <1>1
  <2> QED
    BY <1>1, <2>1, NoMultiple
<1>4. ASSUME NEW k \in Nat, x < b * k
      PROVE  q < k
  <2> DEFINE d == (q - k) + 1
  <2>1. b * q - b * k = b * (q - k) /\ b * k \in Int /\ b * (q - k) \in Int
    BY <1>1, Distributes
  <2>2. b * (q - k) - b * (-1) = b * d /\ b * (-1) = -b
    <3>1. (q - k) - (-1) = d
      BY <1>1
    <3>2. b * (q - k) - b * (-1) = b * ((q - k) - (-1))
      BY <1>1, Distributes
    <3> QED
      BY <3>1, <3>2
  <2>3. b * q < b * k
    BY <1>1, <1>4, <2>1
  <2> HIDE DEF d
  <2>4. b * d < b
    BY <1>1, <2>1, <2>2, <2>3
  <2>5. d \in Int /\ d <= 0
    <3>1. d \in Int
      BY <1>1 DEF d
    <3> QED
      BY <2>4, <3>1, NoMultiple
  <2> QED
    BY <1>1, <2>5 DEF d
<1> QED
  BY <1>1, <1>2, <1>3, <1>4 DEF q

\* Dividing twice.
LEMMA DivTwice ==
  ASSUME NEW b \in Nat \ {0}, NEW x \in Nat
  PROVE  /\ x \div (b * b) = (x \div b) \div b
         /\ x = (((x \div b) \div b) * (b * b) + ((x \div b) % b) * b) + (x % b)
<1> DEFINE q == x \div b  m == x % b  r == q \div b  n == q % b  c == b * b
<1>1. q \in Nat /\ m \in 0 .. b - 1 /\ x = b * q + m
  <2>1. m \in 0 .. b - 1 /\ x = b * q + m
    BY DivRange
  <2>2. q \in Nat
    BY DivSmall
  <2> QED
    BY <2>1, <2>2
<1> HIDE DEF q, m
<1>2. r \in Nat /\ n \in 0 .. b - 1 /\ q = b * r + n
  BY <1>1, DivRange, DivSmall
<1> HIDE DEF r, n
<1>3. /\ b * (b * r + n) = b * (b * r) + b * n /\ b * (b * r) = r * c /\ b * n = n * b
      /\ b * (b * r) = c * r
  BY <1>2
<1>4. c \in Nat \ {0} /\ n * b \in Nat /\ r * c \in Nat /\ c * r \in Nat /\ b * n \in Nat
  BY <1>2
<1>5. b * n <= b * (b - 1) /\ b * (b - 1) = c - b
  BY <1>2, ProductBounds
<1> HIDE DEF c
<1>6. x = (c * r) + (b * n + m) /\ x = (r * c + n * b) + m
  BY <1>1, <1>2, <1>3, <1>4
<1>7. (b * n + m) \in 0 .. c - 1
  BY <1>1, <1>4, <1>5
<1>8. x \div c = r
  <2> DEFINE w == b * n + m
  <2>1. w \in 0 .. c - 1 /\ x = c * r + w
    BY <1>6, <1>7
  <2> HIDE DEF w
  <2> QED
    BY <1>2, <1>4, <2>1, DivUnique
<1> QED
  BY <1>6, <1>8 DEF q, m, r, n, c

LEMMA Weights ==
  Weight(0) = 1 /\ Weight(1) = Byte /\ Weight(2) = Byte * Byte /\ Byte \in Nat \ {0}
<1>1. Byte \in Nat \ {0}
  BY DEF Byte
<1> QED
  BY <1>1 DEF Weight

LEMMA ByteRange ==
  ASSUME NEW m \in Nat, NEW j \in 0 .. 2
  PROVE  ByteOf(m, j) \in 0 .. Byte - 1
<1>1. Weight(j) \in Nat \ {0}
  <2>1. Byte * Byte \in Nat \ {0}
    BY Weights
  <2>2. j = 0 \/ j = 1 \/ j = 2
    OBVIOUS
  <2> QED
    BY <2>1, <2>2, Weights
<1> DEFINE q == m \div Weight(j)
<1>2. q \in Int
  BY <1>1, DivRange
<1> HIDE DEF q
<1>3. q % Byte \in 0 .. Byte - 1
  BY <1>2, Weights, DivRange
<1> QED
  BY <1>3 DEF ByteOf, q

\* The bytes of a value, and the values of two and of three bytes.
LEMMA BytesOfValue ==
  ASSUME NEW m \in Nat
  PROVE  /\ ByteOf(m, 0) = m % Byte /\ ByteOf(m, 1) = (m \div Byte) % Byte
         /\ ByteOf(m, 2) = ((m \div Byte) \div Byte) % Byte
<1>1. m \div 1 = m
  OBVIOUS
<1>2. m \div (Byte * Byte) = (m \div Byte) \div Byte
  BY Weights, DivTwice
<1> QED
  BY <1>1, <1>2, Weights DEF ByteOf

LEMMA ThreeBytes ==
  ASSUME NEW m \in 0 .. Byte * Byte * Byte - 1
  PROVE  ((0 + ByteOf(m, 2) * Weight(2)) + ByteOf(m, 1) * Weight(1))
           + ByteOf(m, 0) * Weight(0) = m
<1> DEFINE b == Byte  q == m \div b  r == q \div b
<1>1. b \in Nat \ {0} /\ b * b \in Nat /\ b * b * b \in Nat
  <2>1. b \in Nat \ {0}
    BY Weights
  <2> HIDE DEF b
  <2> QED
    BY <2>1
<1>2. m \in Nat /\ m < b * (b * b)
  <2> HIDE DEF b
  <2>1. b * b * b = b * (b * b)
    BY <1>1
  <2>2. m \in 0 .. b * b * b - 1
    BY DEF b
  <2> QED
    BY <1>1, <2>1, <2>2
<1> HIDE DEF b
<1>3. q \in Nat /\ q < b * b
  BY <1>1, <1>2, DivSmall
<1> HIDE DEF q
<1>4. r \in Nat /\ r < b
  BY <1>1, <1>3, DivSmall
<1> HIDE DEF r
<1>5. r % b = r
  BY <1>1, <1>4, DivSmall
<1>6. m = (r * (b * b) + (q % b) * b) + (m % b)
  BY <1>1, <1>2, DivTwice DEF q, r
<1>7. ByteOf(m, 0) = m % b /\ ByteOf(m, 1) = q % b /\ ByteOf(m, 2) = r
  BY <1>2, <1>5, BytesOfValue DEF q, r, b
<1>8. Weight(0) = 1 /\ Weight(1) = b /\ Weight(2) = b * b
  BY Weights DEF b
<1>9. /\ (m % b) \in Int /\ (q % b) \in Int /\ (m % b) * 1 = m % b
      /\ r * (b * b) \in Int /\ 0 + r * (b * b) = r * (b * b)
  BY <1>1, <1>2, <1>3, <1>4
<1> QED
  BY <1>6, <1>7, <1>8, <1>9

LEMMA TwoBytes ==
  ASSUME NEW m \in Short
  PROVE  (0 + ByteOf(m, 1) * Weight(1)) + ByteOf(m, 0) * Weight(0) = m
<1> DEFINE b == Byte  q == m \div b
<1>1. b \in Nat \ {0}
  BY Weights
<1>2. m \in Nat /\ m < b * b
  <2>1. m \in 0 .. b * b - 1
    BY DEF Short
  <2> HIDE DEF b
  <2> QED
    BY <1>1, <2>1
<1> HIDE DEF b
<1>3. q \in Nat /\ q < b /\ m = b * q + (m % b) /\ (m % b) \in Int
  <2>1. q \in Nat /\ q < b
    BY <1>1, <1>2, DivSmall
  <2>2. m = b * q + (m % b) /\ (m % b) \in 0 .. b - 1
    BY <1>1, <1>2, DivRange
  <2> QED
    BY <2>1, <2>2
<1> HIDE DEF q
<1>4. q % b = q
  BY <1>1, <1>3, DivSmall
<1>5. ByteOf(m, 0) = m % b /\ ByteOf(m, 1) = q
  BY <1>2, <1>4, BytesOfValue DEF q, b
<1>6. Weight(0) = 1 /\ Weight(1) = b
  BY Weights DEF b
<1>7. 0 + q * b = b * q /\ (m % b) * 1 = m % b
  BY <1>1, <1>3
<1> QED
  BY <1>3, <1>5, <1>6, <1>7

\* A value m of n bytes on the wire.
Bytewise(p, m, n) ==
  /\ p \in Seq(0 .. Byte - 1) /\ Tail(p) \in Seq(0 .. Byte - 1)
  /\ p # <<>> /\ Head(p) = ByteOf(m, n - 1)
  /\ Tail(p) # <<>> /\ Head(Tail(p)) = ByteOf(m, n - 2)
  /\ n = 3 => /\ Tail(Tail(p)) # <<>> /\ Head(Tail(Tail(p))) = ByteOf(m, 0)
              /\ Tail(Tail(p)) \in Seq(0 .. Byte - 1)

LEMMA MsbBytes ==
  ASSUME NEW m \in Nat, NEW n \in 2 .. 3
  PROVE  Bytewise(MsbFirst(m, n), m, n)
<1> DEFINE p == MsbFirst(m, n)
<1>1. \A i \in 1 .. n : ByteOf(m, n - i) \in 0 .. Byte - 1
  <2>1. \A i \in 1 .. n : n - i \in 0 .. 2
    OBVIOUS
  <2> QED
    BY <2>1, ByteRange
<1>2. p = [i \in 1 .. n |-> ByteOf(m, n - i)]
  BY DEF MsbFirst, ByteOf
<1> HIDE DEF p
<1>3. p \in Seq(0 .. Byte - 1) /\ Len(p) = n
  BY <1>1, <1>2
<1>4. p # <<>> /\ Head(p) = ByteOf(m, n - 1)
  BY <1>2, <1>3
<1> DEFINE q == Tail(p)
<1>5. q \in Seq(0 .. Byte - 1) /\ Len(q) = n - 1 /\ q[1] = p[2] /\ (n = 3 => q[2] = p[3])
  BY <1>3
<1> HIDE DEF q
<1>6. q # <<>> /\ Head(q) = ByteOf(m, n - 2)
  BY <1>2, <1>5
<1>7. ASSUME n = 3
      PROVE  Tail(q) # <<>> /\ Head(Tail(q)) = ByteOf(m, 0) /\ Tail(q) \in Seq(0 .. Byte - 1)
  <2> DEFINE t == Tail(q)
  <2>1. t \in Seq(0 .. Byte - 1) /\ Len(t) = 1 /\ t[1] = q[2]
    <3>1. q \in Seq(0 .. Byte - 1) /\ Len(q) = 2
      BY <1>5, <1>7
    <3> QED
      BY <3>1
  <2> HIDE DEF t
  <2>2. p[3] = ByteOf(m, 0)
    BY <1>2, <1>7
  <2>3. q[2] = p[3]
    BY <1>5, <1>7
  <2>4. t # <<>> /\ Head(t) = t[1]
    BY <2>1
  <2> QED
    BY <2>1, <2>2, <2>3, <2>4 DEF t
<1> QED
  BY <1>3, <1>4, <1>5, <1>6, <1>7 DEF p, q, Bytewise

-----------------------------------------------------------------------------
(* The invariant of the readings                                           *)

Errors == Wrong \cup {<<-1, 0>>}

ReadTypes ==
  /\ val \in Nat /\ C \in [Word -> Nat] /\ D \in [Converter -> Nat]
  /\ accel \in [Axis -> [low : Nat, high : Nat]]
  /\ baro \in [out : Seq(0 .. Byte - 1), of : Converter \cup {"none"}, busy : Nat,
               error : Errors]
  /\ acc \in [sample : Nat, held : [Axis -> Nat \cup {-1}], gives : Nat]
  /\ measured \in [Converter -> Nat]
  /\ early \in BOOLEAN

LEMMA FlippedShort ==
  ASSUME NEW w \in Word, NEW error \in Errors
  PROVE  Flipped(w, error) \in Short
<1>1. CASE error \in Wrong
  BY <1>1, SensorAssumption DEF Flipped
<1>2. CASE error = <<-1, 0>>
  BY <1>2, SensorAssumption DEF Flipped, Word
<1> QED
  BY <1>1, <1>2 DEF Errors

LEMMA HeadTail ==
  ASSUME NEW S, NEW o \in Seq(S), o # <<>>
  PROVE  Head(o) \in S /\ Tail(o) \in Seq(S)
<1>1. Len(o) \in Nat /\ Len(o) >= 1 /\ o[1] \in S
  OBVIOUS
<1> QED
  BY <1>1

LEMMA ReadTypesStep ==
  ASSUME served \in Nat, ~undone, ProgramInv, ReadTypes, SensorTask
  PROVE  ReadTypes'
<1> USE DEF ReadTypes
<1>1. CASE job = <<>>
  <2>1. Serve
    BY <1>1 DEF SensorTask, ChipSelect, ChipDeselect, Transfer, ReadOctet, Delay, VerifyProm,
       GetMbarc, Doing
  <2> QED
    BY <2>1 DEF Serve, chips
<1>2. CASE job # <<>>
  <2>1. Op \in Operations
    BY <1>2, ActionOf, ProgramStep
  <2>2. ASSUME NEW c \in {Baro, Acc}, Op = Select(c)
        PROVE  ReadTypes'
    BY <1>2, <2>2, DoSelect
  <2>3. ASSUME NEW c \in {Baro, "none"}, NEW b \in BaroBytes, Op = Send(c, b)
        PROVE  ReadTypes'
    <3>1. /\ val' = 0 /\ UNCHANGED <<C, D, accel, early, acc>>
          /\ IF c = Baro THEN BaroTakes(b) ELSE UNCHANGED <<baro, measured>>
      BY <1>2, <2>3, DoSend, ChipsDiffer
    <3>2. CASE c # Baro
      BY <3>1, <3>2
    <3>3. CASE c = Baro
      <4>1. CASE b = <<"reset">>
        <5>1. /\ baro' = [out |-> <<>>, of |-> "none", busy |-> Reload, error |-> baro.error]
              /\ measured' = measured
          BY <3>1, <3>3, <4>1, TakesReset
        <5>2. Reload \in Nat
          BY SensorAssumption
        <5> QED
          BY <3>1, <5>1, <5>2
      <4>2. ASSUME NEW w \in Word, b = <<"prom", w>>
            PROVE  ReadTypes'
        <5> DEFINE m == IF baro.busy > 0 THEN 0 ELSE Flipped(w, baro.error)
        <5>1. baro' = [baro EXCEPT !.out = MsbFirst(m, 2)] /\ measured' = measured
          BY <3>1, <3>3, <4>2, TakesProm
        <5>2. m \in Nat
          BY FlippedShort DEF Short
        <5> HIDE DEF m
        <5>3. MsbFirst(m, 2) \in Seq(0 .. Byte - 1)
          <6>1. Bytewise(MsbFirst(m, 2), m, 2)
            BY <5>2, MsbBytes
          <6> QED
            BY <6>1 DEF Bytewise
        <5> QED
          BY <3>1, <5>1, <5>3
      <4>3. ASSUME NEW d \in Converter, b = <<d>>
            PROVE  ReadTypes'
        <5>1. baro' = [baro EXCEPT !.of = d, !.busy = Conversion] /\ measured' = measured
          BY <3>1, <3>3, <4>3, TakesConverter
        <5>2. Conversion \in Nat
          BY SensorAssumption
        <5> QED
          BY <3>1, <5>1, <5>2
      <4>4. CASE b = <<"adc">>
        <5>1. CASE baro.of = "none" \/ baro.busy > 0
          <6>1. baro' = [baro EXCEPT !.out = <<0, 0, 0>>] /\ measured' = measured
            BY <3>1, <3>3, <4>4, <5>1, TakesAdc
          <6>2. <<0, 0, 0>> \in Seq(0 .. Byte - 1)
            BY Weights
          <6> QED
            BY <3>1, <6>1, <6>2
        <5>2. CASE ~(baro.of = "none" \/ baro.busy > 0)
          <6>1. PICK reading \in Readings[baro.of] :
                  /\ baro' = [baro EXCEPT !.out = MsbFirst(reading, 3), !.of = "none"]
                  /\ measured' = [measured EXCEPT ![baro.of] = reading]
            BY <3>1, <3>3, <4>4, <5>2, TakesAdc
          <6>2. reading \in Nat
            BY <5>2, SensorAssumption
          <6>3. MsbFirst(reading, 3) \in Seq(0 .. Byte - 1)
            BY <6>2, MsbBytes DEF Bytewise
          <6> QED
            BY <3>1, <6>1, <6>2, <6>3
        <5> QED
          BY <5>1, <5>2
      <4> QED
        BY <4>1, <4>2, <4>3, <4>4 DEF BaroBytes, Converter
    <3> QED
      BY <3>2, <3>3
  <2>4. ASSUME NEW b \in AccBytes, Op = Send(Acc, b)
        PROVE  ReadTypes'
    <3>1. val' = 0 /\ UNCHANGED <<C, D, accel, early, baro, measured>> /\ AccTakes(b)
      BY <1>2, <2>4, DoSend, ChipsDiffer
    <3>2. CASE b = <<"id", 0>>
      BY <3>1, <3>2, TakesAxis
    <3>3. ASSUME NEW x \in Axis, b = <<"low", x>>
          PROVE  ReadTypes'
      <4>1. acc' = [acc EXCEPT !.gives = acc.sample, !.held[x] = acc.sample]
        BY <3>1, <3>3, TakesAxis
      <4> QED
        BY <3>1, <4>1
    <3>4. ASSUME NEW x \in Axis, b = <<"high", x>>
          PROVE  ReadTypes'
      <4>1. acc' = [acc EXCEPT !.gives = IF acc.held[x] = -1 THEN acc.sample ELSE acc.held[x],
                               !.held[x] = -1]
        BY <3>1, <3>4, TakesAxis
      <4>2. (IF acc.held[x] = -1 THEN acc.sample ELSE acc.held[x]) \in Nat
        OBVIOUS
      <4> QED
        BY <3>1, <4>1, <4>2
    <3>5. \/ b = <<"id", 0>>
          \/ \E x \in Axis : b = <<"low", x>> \/ b = <<"high", x>>
      BY <2>4 DEF AccBytes
    <3> HIDE DEF ReadTypes
    <3> QED
      BY <3>2, <3>3, <3>4, <3>5
  <2>5. ASSUME NEW c \in {Baro, Acc, "none"}, NEW i \in 0 .. 2, Op = Octet(c, i)
        PROVE  ReadTypes'
    <3>1. Weight(i) \in Nat
      BY Weights
    <3>2. UNCHANGED <<C, D, accel, acc, measured, early>>
      BY <1>2, <2>5, DoOctet
    <3>3. CASE c = Baro /\ baro.out # <<>>
      <4>1. /\ val' = val + Head(baro.out) * Weight(i)
            /\ baro' = [baro EXCEPT !.out = Tail(baro.out)]
        BY <1>2, <2>5, <3>3, DoOctet
      <4>2. baro.out \in Seq(0 .. Byte - 1)
        OBVIOUS
      <4>3. Head(baro.out) \in 0 .. Byte - 1 /\ Tail(baro.out) \in Seq(0 .. Byte - 1)
        <5> DEFINE o == baro.out
        <5>1. o \in Seq(0 .. Byte - 1) /\ o # <<>>
          BY <3>3, <4>2
        <5> HIDE DEF o
        <5>2. Head(o) \in 0 .. Byte - 1 /\ Tail(o) \in Seq(0 .. Byte - 1)
          BY <5>1, HeadTail
        <5> QED
          BY <5>2 DEF o
      <4>4. Head(baro.out) * Weight(i) \in Nat
        <5>1. Head(baro.out) \in Nat
          BY <4>3, Weights
        <5> QED
          BY <3>1, <5>1
      <4>5. val' \in Nat
        BY <4>1, <4>4
      <4> QED
        BY <3>2, <4>1, <4>3, <4>5
    <3>4. CASE ~(c = Baro /\ baro.out # <<>>)
      <4>1. baro' = baro /\ val' \in {val + 0 * Weight(i), val + acc.gives * Weight(i)}
        BY <1>2, <2>5, <3>4, DoOctet
      <4>2. 0 * Weight(i) \in Nat /\ acc.gives * Weight(i) \in Nat
        BY <3>1
      <4> QED
        BY <3>2, <4>1, <4>2, SMTT(30)
    <3> QED
      BY <3>3, <3>4
  <2>6. ASSUME NEW t \in Nat, Op = Wait(t)
        PROVE  ReadTypes'
    <3>1. UNCHANGED <<val, C, D, accel, acc, measured>>
      BY <1>2, <2>6, DoWait
    <3>2. PICK time \in {10 * (t - 1) + 1, 10 * t} :
            /\ baro' = [baro EXCEPT !.busy = IF baro.busy > time THEN baro.busy - time ELSE 0]
            /\ early' = (early \/ (baro.of = "none" /\ baro.busy > time))
      BY <1>2, <2>6, DoWait
    <3>3. baro.busy \in Nat /\ time \in Int
      OBVIOUS
    <3>4. time \in Int /\ (IF baro.busy > time THEN baro.busy - time ELSE 0) \in Nat
      <4> DEFINE b == baro.busy
      <4> HIDE DEF b
      <4>1. b \in Nat /\ time \in Int
        BY <3>3 DEF b
      <4>2. (IF b > time THEN b - time ELSE 0) \in Nat
        BY ONLY <4>1
      <4> QED
        BY <4>1, <4>2 DEF b
    <3>5. early' \in BOOLEAN
      BY <3>2
    <3> QED
      BY <3>1, <3>2, <3>4, <3>5
  <2>7. ASSUME NEW c \in {Baro, Acc}, NEW n \in Converter \cup {"none", "C", "low", "high"},
               NEW i \in Word, Op = Deselect(c, n, i)
        PROVE  ReadTypes'
    <3>1. /\ UNCHANGED <<val, acc, measured, early>>
          /\ baro' = [baro EXCEPT !.out = <<>>]
          /\ C' = IF n = "C" THEN [C EXCEPT ![i] = val] ELSE C
          /\ D' = IF n \in Converter THEN [D EXCEPT ![n] = val] ELSE D
          /\ accel' = IF n \in {"low", "high"} THEN [accel EXCEPT ![i][n] = val] ELSE accel
      BY <1>2, <2>7, DoDeselect
    <3>2. C' \in [Word -> Nat] /\ D' \in [Converter -> Nat]
      BY <3>1
    <3>3. accel' \in [Axis -> [low : Nat, high : Nat]]
      <4>1. CASE n = "low"
        BY <3>1, <4>1
      <4>2. CASE n = "high"
        BY <3>1, <4>2
      <4> QED
        BY <3>1, <4>1, <4>2
    <3>4. <<>> \in Seq(0 .. Byte - 1)
      OBVIOUS
    <3> QED
      BY <3>1, <3>2, <3>3, <3>4
  <2>8. CASE Op = Compute
    BY <1>2, <2>8, DoCompute
  <2>9. CASE Op = Verify
    BY <1>2, <2>9, DoVerify
  <2> HIDE DEF ReadTypes
  <2> QED
    BY <2>1, <2>2, <2>3, <2>4, <2>5, <2>6, <2>7, <2>8, <2>9, OperationKinds
<1> QED
  BY <1>1, <1>2

ThreeOctets == 0 .. Byte * Byte * Byte - 1

LEMMA OctetsRange ==
  ASSUME NEW m
  PROVE  /\ m \in ThreeOctets => m \in Nat
         /\ m \in 1 .. Byte * Byte * Byte - 1 => m \in ThreeOctets /\ m # 0
<1>1. ASSUME NEW b \in Int
      PROVE  (m \in 0 .. b => m \in Nat) /\ (m \in 1 .. b => m \in 0 .. b /\ m # 0)
  OBVIOUS
<1> DEFINE top == Byte * Byte * Byte - 1
<1>2. top \in Int
  BY Weights
<1> HIDE DEF top
<1>3. (m \in 0 .. top => m \in Nat) /\ (m \in 1 .. top => m \in 0 .. top /\ m # 0)
  BY <1>1, <1>2
<1> QED
  BY <1>3 DEF ThreeOctets, top

\* Where the reading of a converter is when operation r of its routine is
\* next: the conversion was started and is over before it is asked for, and
\* what is read so far and what is still to come make the reading.
ConverterAt(c, r) ==
  LET bytes == MsbFirst(measured[c], 3)
      first == ByteOf(measured[c], 2) * Weight(2)
      second == ByteOf(measured[c], 1) * Weight(1)
  IN
  /\ r = 3 => baro.of = c /\ baro.busy = Conversion
  /\ r \in 4 .. 6 => baro.of = c /\ baro.busy = 0
  /\ r \in 7 .. 10 => measured[c] # 0 /\ measured[c] \in ThreeOctets
  /\ r = 7 => val = 0 /\ baro.out = bytes
  /\ r = 8 => val = 0 + first /\ baro.out = Tail(bytes)
  /\ r = 9 => val = (0 + first) + second /\ baro.out = Tail(Tail(bytes))
  /\ r = 10 => val = measured[c]
  /\ r >= 11 => D[c] = measured[c] /\ D[c] # 0

\* The reading of an axis: the chip holds what the low byte was read from
\* until the high byte is.
AxisReads(x, r) ==
  /\ r = 3 => val = 0 /\ acc.gives = acc.held[x] /\ acc.held[x] # -1
  /\ r = 4 => val = acc.held[x] /\ acc.held[x] # -1
  /\ r \in 5 .. 6 => accel[x].low = acc.held[x] /\ acc.held[x] # -1
  /\ r = 7 => val = 0 /\ acc.gives = accel[x].low
  /\ r = 8 => val = accel[x].low
  /\ r >= 9 => accel[x].low = accel[x].high

\* The reading of a word of the calibration.
WordAt(w, r) ==
  LET word == Flipped(w, baro.error)  bytes == MsbFirst(word, 2) IN
  /\ r = 3 => val = 0 /\ baro.out = bytes
  /\ r = 4 => val = 0 + ByteOf(word, 1) * Weight(1) /\ baro.out = Tail(bytes)
  /\ r = 5 => val = word
  /\ r >= 6 => C[w] = word

\* The wait after the reset, at operation 7, is long enough unless `early`
\* says otherwise.
ResetAt(k) ==
  /\ k = 7 => baro.of = "none"
  /\ k >= 8 /\ early = FALSE => baro.busy = 0

\* The words of the calibration are what was on the wire.
Calibrated == early = FALSE => \A w \in Word : C[w] = Flipped(w, baro.error)

WordsAt(k) == early = FALSE => \A w \in Word : WordAt(w, k - (8 + 5 * w))

\* The first program and the others, at their k-th operation.
SetupAt(k) == ResetAt(k) /\ WordsAt(k)

SampleAt(k) ==
  /\ \A c \in Converter : ConverterAt(c, k - ReadsAt(c))
  /\ \A x \in Axis : AxisReads(x, k - AxisAt(x))
  /\ Calibrated

ReadInv ==
  /\ ReadTypes
  /\ boot = <<>> /\ served > 0 => \A k \in 1 .. 46 : Place = k => SampleAt(k)
  /\ boot = <<>> /\ served = 0 => \A k \in 1 .. 53 : Place = k => SetupAt(k)

\* Which operation of the task's program is the k-th.
LEMMA TaskAt ==
  ASSUME NEW k \in 1 .. 45
  PROVE  \/ \E c \in Converter, r \in 1 .. 10 :
              k = ReadsAt(c) + r /\ task_sensor[k] = ms5611_read_adc(c, Precision)[r]
         \/ k = 21 /\ task_sensor[k] = Compute
         \/ \E x \in Axis, r \in 1 .. 8 :
              k = AxisAt(x) + r /\ task_sensor[k] = bmx055_read(x)[r]
<1>1. ASSUME NEW c \in Converter, NEW r \in 1 .. 10
      PROVE  task_sensor[ReadsAt(c) + r] = ms5611_read_adc(c, Precision)[r]
  <2> DEFINE q == ms5611_read_adc(c, Precision)
  <2>1. Len(q) = 10
    BY ReadAdcOps
  <2>2. Part(task_sensor, ReadsAt(c), q)
    BY TaskOps
  <2> HIDE DEF q
  <2>3. task_sensor[ReadsAt(c) + r] = q[r]
    BY <2>1, <2>2 DEF Part
  <2> QED
    BY <2>3 DEF q
<1>2. ASSUME NEW x \in Axis, NEW r \in 1 .. 8
      PROVE  task_sensor[AxisAt(x) + r] = bmx055_read(x)[r]
  <2> DEFINE q == bmx055_read(x)
  <2>1. Len(q) = 8
    BY AxisOps
  <2>2. Part(task_sensor, AxisAt(x), q)
    BY TaskOps
  <2> HIDE DEF q
  <2>3. task_sensor[AxisAt(x) + r] = q[r]
    BY <2>1, <2>2 DEF Part
  <2> QED
    BY <2>3 DEF q
<1>3. CASE k \in 1 .. 20
  <2> DEFINE c == IF k <= 10 THEN "D1" ELSE "D2"  r == IF k <= 10 THEN k ELSE k - 10
  <2>1. c \in Converter /\ r \in 1 .. 10 /\ k = ReadsAt(c) + r
    BY <1>3 DEF Converter, ReadsAt
  <2> HIDE DEF c, r
  <2> QED
    BY <1>1, <2>1
<1>4. CASE k = 21
  <2> DEFINE s == <<Compute>>
  <2>1. Len(s) = 1 /\ s[1] = Compute
    OBVIOUS
  <2> HIDE DEF s
  <2>2. task_sensor[20 + 1] = s[1]
    BY <2>1, TaskOps DEF Part, s
  <2> QED
    BY <1>4, <2>1, <2>2
<1>5. CASE k \in 22 .. 45
  <2> DEFINE x == IF k <= 29 THEN 0 ELSE IF k <= 37 THEN 1 ELSE 2  r == k - AxisAt(x)
  <2>1. x \in Axis /\ r \in 1 .. 8 /\ k = AxisAt(x) + r
    BY <1>5 DEF Axis, AxisAt
  <2> HIDE DEF x, r
  <2> QED
    BY <1>2, <2>1
<1> QED
  BY <1>3, <1>4, <1>5

LEMMA ConfigAt ==
  ASSUME NEW k \in 1 .. 52
  PROVE  \/ k \in 1 .. 4 /\ config_sensor[k] = Identity[k]
         \/ \E r \in 1 .. 4 : k = 4 + r /\ config_sensor[k] = ms5611_reset[r]
         \/ \E w \in Word, r \in 1 .. 5 :
              k = (8 + 5 * w) + r /\ config_sensor[k] = ms5611_get16(w)[r]
         \/ \E r \in 1 .. 4 : k = 48 + r /\ config_sensor[k] = Check[r]
<1>1. CASE k \in 1 .. 4
  <2>1. config_sensor[0 + k] = Identity[k]
    BY <1>1, ConfigOps DEF Part
  <2> QED
    BY <1>1, <2>1
<1>2. CASE k \in 5 .. 8
  <2> DEFINE r == k - 4
  <2>1. r \in 1 .. 4 /\ k = 4 + r
    BY <1>2
  <2> HIDE DEF r
  <2>2. config_sensor[4 + r] = ms5611_reset[r]
    BY <2>1, ConfigOps, ResetOps DEF Part
  <2> QED
    BY <2>1, <2>2
<1>3. CASE k \in 9 .. 48
  <2> DEFINE w == (k - 9) \div 5  r == k - (8 + 5 * w)
  <2>1. w \in Word /\ r \in 1 .. 5 /\ k = (8 + 5 * w) + r
    BY <1>3 DEF Word
  <2> HIDE DEF w, r
  <2>2. Len(ms5611_get16(w)) = 5
    BY <2>1, Get16Ops
  <2> DEFINE q == ms5611_get16(w)  e == 8 + 5 * w
  <2>3. Part(config_sensor, e, q)
    BY <2>1, ConfigOps
  <2>4. Len(q) = 5 /\ r \in 1 .. 5
    BY <2>1, <2>2
  <2> HIDE DEF q, e
  <2>5. config_sensor[e + r] = q[r]
    BY <2>3, <2>4 DEF Part
  <2> QED
    BY <2>1, <2>5 DEF q, e
<1>4. CASE k \in 49 .. 52
  <2> DEFINE r == k - 48
  <2>1. r \in 1 .. 4 /\ k = 48 + r
    BY <1>4
  <2> HIDE DEF r
  <2>2. config_sensor[48 + r] = Check[r]
    BY <2>1, ConfigOps, CheckOps DEF Part
  <2> QED
    BY <2>1, <2>2
<1> QED
  BY <1>1, <1>2, <1>3, <1>4

-----------------------------------------------------------------------------
(* The programs, operation by operation                                    *)

\* vTaskDelay leaves a conversion of this precision the time it takes.
LongEnough == Conversion <= 10 * (Ticks(Precision) - 1) + 1

\* A delay of t milliseconds.
LEMMA WaitEnough ==
  ASSUME ReadTypes, SensorTask, job # <<>>, NEW t \in Nat, Op = Wait(t)
  PROVE  /\ baro'.of = baro.of /\ baro'.error = baro.error
         /\ baro.busy <= 10 * (t - 1) + 1 => baro'.busy = 0
         /\ baro.of # "none" => early' = early
         /\ baro.of = "none" /\ early' = FALSE => baro'.busy = 0
<1>1. PICK time \in {10 * (t - 1) + 1, 10 * t} :
        /\ baro' = [baro EXCEPT !.busy = IF baro.busy > time THEN baro.busy - time ELSE 0]
        /\ early' = (early \/ (baro.of = "none" /\ baro.busy > time))
  BY DoWait
<1> DEFINE b == IF baro.busy > time THEN baro.busy - time ELSE 0
<1>2. baro' = [baro EXCEPT !.busy = b]
  BY <1>1
<1>3. /\ baro.busy \in Nat /\ early \in BOOLEAN
      /\ DOMAIN baro = {"out", "of", "busy", "error"}
  BY DEF ReadTypes
<1>4. time >= 10 * (t - 1) + 1 /\ time \in Int
  BY <1>1
<1>5. /\ baro.busy <= 10 * (t - 1) + 1 => b = 0
      /\ ~(baro.busy > time) => b = 0
  BY <1>3, <1>4
<1> HIDE DEF b
<1>6. baro'.of = baro.of /\ baro'.error = baro.error /\ baro'.busy = b
  BY <1>2, <1>3
<1>7. /\ baro.of # "none" => early' = early
      /\ baro.of = "none" /\ early' = FALSE => ~(baro.busy > time)
  BY <1>1, <1>3
<1> QED
  BY <1>5, <1>6, <1>7

\* What the routine of a converter leaves alone.
ConverterFrame(c) ==
  /\ UNCHANGED <<C, accel, acc, early>> /\ baro'.error = baro.error
  /\ \A d \in Converter : d # c => D'[d] = D[d] /\ measured'[d] = measured[d]

LEMMA ConverterBlock ==
  ASSUME LongEnough, served \in Nat, ~undone, ProgramInv, ReadTypes, SensorTask, job # <<>>,
         NEW c \in Converter, NEW n \in 1 .. 10, Op = ms5611_read_adc(c, Precision)[n],
         ConverterAt(c, n)
  PROVE  ConverterFrame(c) /\ ConverterAt(c, n + 1)'
<1> DEFINE p == ms5611_read_adc(c, Precision)
<1>0. /\ p[1] = Select(Baro) /\ p[2] = Send(Baro, <<c>>) /\ p[3] = Wait(Ticks(Precision))
      /\ p[4] = Deselect(Baro, "none", 0) /\ p[5] = Select(Baro)
      /\ p[6] = Send(Baro, <<"adc">>) /\ p[7] = Octet(Baro, 2) /\ p[8] = Octet(Baro, 1)
      /\ p[9] = Octet(Baro, 0) /\ p[10] = Deselect(Baro, c, 0)
  BY ReadAdcOps
<1> HIDE DEF p
<1>t. /\ baro \in [out : Seq(0 .. Byte - 1), of : Converter \cup {"none"}, busy : Nat,
                   error : Errors]
      /\ c # "none" /\ c # "C" /\ c # "low" /\ c # "high" /\ "none" \notin Converter
      /\ D \in [Converter -> Nat] /\ measured \in [Converter -> Nat]
  BY DEF ReadTypes, Converter
<1>1. CASE n \in {1, 5}
  <2>1. UNCHANGED <<val, C, D, accel, baro, acc, measured, early, mbarc>>
    BY <1>0, <1>1, DoSelect DEF p
  <2> QED
    BY <1>1, <2>1 DEF ConverterFrame, ConverterAt
<1>2. CASE n = 2
  <2>1. /\ UNCHANGED <<C, D, accel, early, mbarc, acc>> /\ BaroTakes(<<c>>)
    BY <1>0, <1>2, DoSend, ChipsDiffer DEF p
  <2>2. baro' = [baro EXCEPT !.of = c, !.busy = Conversion] /\ measured' = measured
    BY <2>1, TakesConverter
  <2>3. baro'.of = c /\ baro'.busy = Conversion /\ baro'.error = baro.error
    BY <1>t, <2>2
  <2> QED
    BY <1>2, <2>1, <2>2, <2>3 DEF ConverterFrame, ConverterAt
<1>3. CASE n = 3
  <2>1. Ticks(Precision) \in Nat
    BY DEF Ticks, Precision
  <2>2. Op = Wait(Ticks(Precision))
    BY <1>0, <1>3 DEF p
  <2>3. UNCHANGED <<val, C, D, accel, acc, measured, mbarc>>
    BY <2>1, <2>2, DoWait
  <2>4. baro.of = c /\ baro.busy = Conversion
    BY <1>3 DEF ConverterAt
  <2>5. baro'.of = c /\ baro'.error = baro.error /\ baro'.busy = 0 /\ early' = early
    BY <1>t, <2>1, <2>2, <2>4, WaitEnough DEF LongEnough
  <2> QED
    BY <1>3, <2>3, <2>5 DEF ConverterFrame, ConverterAt
<1>4. CASE n = 4
  <2>1. /\ UNCHANGED <<val, acc, measured, early, mbarc, C, D, accel>>
        /\ baro' = [baro EXCEPT !.out = <<>>]
    <3>1. Op = Deselect(Baro, "none", 0)
      BY <1>0, <1>4 DEF p
    <3>2. "none" \notin Converter
      BY DEF Converter
    <3> QED
      BY <3>1, <3>2, DoDeselect
  <2>2. baro'.of = baro.of /\ baro'.busy = baro.busy /\ baro'.error = baro.error
    BY <1>t, <2>1
  <2> QED
    BY <1>4, <2>1, <2>2 DEF ConverterFrame, ConverterAt
<1>5. CASE n = 6
  <2>1. /\ val' = 0 /\ UNCHANGED <<C, D, accel, early, mbarc, acc>> /\ BaroTakes(<<"adc">>)
    BY <1>0, <1>5, DoSend, ChipsDiffer DEF p
  <2>2. baro.of = c /\ baro.busy = 0
    BY <1>5 DEF ConverterAt
  <2>3. PICK reading \in Readings[c] :
          /\ baro' = [baro EXCEPT !.out = MsbFirst(reading, 3), !.of = "none"]
          /\ measured' = [measured EXCEPT ![c] = reading]
    <3>1. ~(baro.of = "none" \/ baro.busy > 0)
      BY <1>t, <2>2
    <3>2. \E reading \in Readings[baro.of] :
            /\ baro' = [baro EXCEPT !.out = MsbFirst(reading, 3), !.of = "none"]
            /\ measured' = [measured EXCEPT ![baro.of] = reading]
      BY <2>1, <3>1, TakesAdc
    <3> QED
      BY <2>2, <3>2
  <2>4. reading \in 1 .. Byte * Byte * Byte - 1
    BY SensorAssumption
  <2>5. /\ measured'[c] = reading /\ reading # 0 /\ reading \in ThreeOctets
        /\ \A d \in Converter : d # c => measured'[d] = measured[d]
    <3>1. reading # 0 /\ reading \in ThreeOctets
      BY <2>4, OctetsRange
    <3> QED
      BY <1>t, <2>3, <3>1
  <2>6. baro'.out = MsbFirst(reading, 3) /\ baro'.error = baro.error
    BY <1>t, <2>3
  <2> QED
    BY <1>5, <2>1, <2>5, <2>6 DEF ConverterFrame, ConverterAt
<1>6. CASE n \in 7 .. 9
  <2> DEFINE m == measured[c]
  <2>1. m \in ThreeOctets /\ m \in Nat /\ m # 0
    <3>1. m # 0 /\ m \in ThreeOctets
      BY <1>6 DEF ConverterAt
    <3> QED
      BY <3>1, OctetsRange
  <2>2. /\ MsbFirst(m, 3) # <<>> /\ Head(MsbFirst(m, 3)) = ByteOf(m, 2)
        /\ Tail(MsbFirst(m, 3)) # <<>> /\ Head(Tail(MsbFirst(m, 3))) = ByteOf(m, 1)
        /\ Tail(Tail(MsbFirst(m, 3))) # <<>> /\ Head(Tail(Tail(MsbFirst(m, 3)))) = ByteOf(m, 0)
    <3> HIDE DEF m
    <3>1. Bytewise(MsbFirst(m, 3), m, 3)
      BY <2>1, MsbBytes
    <3>2. 3 - 1 = 2 /\ 3 - 2 = 1
      OBVIOUS
    <3> QED
      BY <3>1, <3>2 DEF Bytewise
  <2>3. ((0 + ByteOf(m, 2) * Weight(2)) + ByteOf(m, 1) * Weight(1))
           + ByteOf(m, 0) * Weight(0) = m
    <3> HIDE DEF m
    <3> QED
      BY <2>1, ThreeBytes DEF ThreeOctets
  <2>4. ASSUME NEW i, Op = Octet(Baro, i), baro.out # <<>>
        PROVE  /\ UNCHANGED <<C, D, accel, acc, measured, early, mbarc>>
               /\ val' = val + Head(baro.out) * Weight(i)
               /\ baro' = [baro EXCEPT !.out = Tail(@)]
               /\ baro'.out = Tail(baro.out) /\ baro'.error = baro.error
    <3>1. /\ UNCHANGED <<C, D, accel, acc, measured, early, mbarc>>
          /\ val' = val + Head(baro.out) * Weight(i)
          /\ baro' = [baro EXCEPT !.out = Tail(@)]
      BY <2>4, DoOctet
    <3> QED
      BY <1>t, <3>1
  <2>5. CASE n = 7
    <3>1. Op = Octet(Baro, 2) /\ val = 0 /\ baro.out = MsbFirst(m, 3)
      BY <1>0, <2>5 DEF p, ConverterAt
    <3>2. /\ UNCHANGED <<C, D, accel, acc, measured, early, mbarc>>
          /\ val' = 0 + ByteOf(m, 2) * Weight(2)
          /\ baro'.out = Tail(MsbFirst(m, 3)) /\ baro'.error = baro.error
      BY <2>2, <2>4, <3>1
    <3> QED
      BY <2>1, <2>5, <3>2 DEF ConverterFrame, ConverterAt
  <2>6. CASE n = 8
    <3>1. /\ Op = Octet(Baro, 1) /\ val = 0 + ByteOf(m, 2) * Weight(2)
          /\ baro.out = Tail(MsbFirst(m, 3))
      BY <1>0, <2>6 DEF p, ConverterAt
    <3>2. /\ UNCHANGED <<C, D, accel, acc, measured, early, mbarc>>
          /\ val' = (0 + ByteOf(m, 2) * Weight(2)) + ByteOf(m, 1) * Weight(1)
          /\ baro'.out = Tail(Tail(MsbFirst(m, 3))) /\ baro'.error = baro.error
      BY <2>2, <2>4, <3>1
    <3> QED
      BY <2>1, <2>6, <3>2 DEF ConverterFrame, ConverterAt
  <2>7. CASE n = 9
    <3>1. /\ Op = Octet(Baro, 0)
          /\ val = (0 + ByteOf(m, 2) * Weight(2)) + ByteOf(m, 1) * Weight(1)
          /\ baro.out = Tail(Tail(MsbFirst(m, 3)))
      BY <1>0, <2>7 DEF p, ConverterAt
    <3>2. /\ UNCHANGED <<C, D, accel, acc, measured, early, mbarc>>
          /\ val' = m /\ baro'.error = baro.error
      BY <2>2, <2>3, <2>4, <3>1
    <3> QED
      BY <2>1, <2>7, <3>2 DEF ConverterFrame, ConverterAt
  <2> QED
    BY <1>6, <2>5, <2>6, <2>7
<1>7. CASE n = 10
  <2>1. /\ UNCHANGED <<acc, measured, early, mbarc, C, accel>>
        /\ baro' = [baro EXCEPT !.out = <<>>]
        /\ D' = [D EXCEPT ![c] = val]
    BY <1>0, <1>7, <1>t, DoDeselect, SMTT(30) DEF p
  <2>2. val = measured[c] /\ measured[c] # 0
    BY <1>7 DEF ConverterAt
  <2>3. baro'.error = baro.error
    BY <1>t, <2>1
  <2>4. D'[c] = val /\ \A d \in Converter : d # c => D'[d] = D[d]
    BY <1>t, <2>1
  <2> QED
    BY <1>7, <2>1, <2>2, <2>3, <2>4 DEF ConverterFrame, ConverterAt
<1> QED
  BY <1>1, <1>2, <1>3, <1>4, <1>5, <1>6, <1>7

\* What the routine of an axis leaves alone.
AxisFrame(x) ==
  /\ UNCHANGED <<C, D, measured, early>> /\ baro'.error = baro.error
  /\ \A y \in Axis : y # x => accel'[y] = accel[y]

LEMMA AxisBlock ==
  ASSUME served \in Nat, ~undone, ProgramInv, ReadTypes, SensorTask, job # <<>>,
         NEW x \in Axis, NEW n \in 1 .. 8, Op = bmx055_read(x)[n], AxisReads(x, n)
  PROVE  AxisFrame(x) /\ AxisReads(x, n + 1)'
<1> DEFINE p == bmx055_read(x)
<1>0. /\ p[1] = Select(Acc) /\ p[2] = Send(Acc, <<"low", x>>) /\ p[3] = Octet(Acc, 0)
      /\ p[4] = Deselect(Acc, "low", x) /\ p[5] = Select(Acc)
      /\ p[6] = Send(Acc, <<"high", x>>) /\ p[7] = Octet(Acc, 0)
      /\ p[8] = Deselect(Acc, "high", x)
  BY AxisOps
<1> HIDE DEF p
<1>t. /\ baro \in [out : Seq(0 .. Byte - 1), of : Converter \cup {"none"}, busy : Nat,
                   error : Errors]
      /\ acc \in [sample : Nat, held : [Axis -> Nat \cup {-1}], gives : Nat]
      /\ accel \in [Axis -> [low : Nat, high : Nat]] /\ val \in Nat
      /\ "low" \notin Converter /\ "high" \notin Converter
  BY DEF ReadTypes, Converter
<1>1. CASE n \in {1, 5}
  <2>1. UNCHANGED <<val, C, D, accel, baro, acc, measured, early, mbarc>>
    BY <1>0, <1>1, DoSelect DEF p
  <2> QED
    BY <1>1, <2>1 DEF AxisFrame, AxisReads
<1>2. CASE n = 2
  <2>1. /\ val' = 0 /\ UNCHANGED <<C, D, accel, early, mbarc, baro, measured>>
        /\ AccTakes(<<"low", x>>)
    BY <1>0, <1>2, DoSend, ChipsDiffer DEF p
  <2>2. acc' = [acc EXCEPT !.gives = acc.sample, !.held[x] = acc.sample]
    BY <2>1, TakesAxis
  <2>3. acc'.gives = acc'.held[x] /\ acc'.held[x] # -1
    BY <1>t, <2>2
  <2> QED
    BY <1>2, <2>1, <2>3 DEF AxisFrame, AxisReads
<1>3. CASE n \in {3, 7}
  <2>1. Op = Octet(Acc, 0)
    BY <1>0, <1>3 DEF p
  <2>2. /\ UNCHANGED <<C, D, accel, acc, measured, early, mbarc, baro>>
        /\ val' = val + acc.gives * Weight(0)
    BY <2>1, DoOctet, ChipsDiffer
  <2>3. val = 0
    BY <1>3 DEF AxisReads
  <2>4. val' = acc.gives
    BY <1>t, <2>2, <2>3, Weights
  <2> QED
    BY <1>3, <2>2, <2>4 DEF AxisFrame, AxisReads
<1>4. ASSUME NEW h \in {"low", "high"}, Op = Deselect(Acc, h, x)
      PROVE  AxisFrame(x) /\ UNCHANGED acc /\ accel' = [accel EXCEPT ![x][h] = val]
  <2>1. /\ UNCHANGED <<val, acc, measured, early, mbarc, C, D>>
        /\ baro' = [baro EXCEPT !.out = <<>>]
        /\ accel' = [accel EXCEPT ![x][h] = val]
    BY <1>4, <1>t, DoDeselect
  <2>2. baro'.error = baro.error /\ \A y \in Axis : y # x => accel'[y] = accel[y]
    BY <1>t, <2>1
  <2> QED
    BY <2>1, <2>2 DEF AxisFrame
<1>5. CASE n = 4
  <2>1. Op = Deselect(Acc, "low", x) /\ val = acc.held[x] /\ acc.held[x] # -1
    BY <1>0, <1>5 DEF p, AxisReads
  <2>2. AxisFrame(x) /\ acc' = acc /\ accel' = [accel EXCEPT ![x]["low"] = val]
    BY <1>4, <2>1
  <2>3. accel'[x].low = val
    BY <1>t, <2>2
  <2> QED
    BY <1>5, <2>1, <2>2, <2>3 DEF AxisReads
<1>6. CASE n = 6
  <2>1. /\ val' = 0 /\ UNCHANGED <<C, D, accel, early, mbarc, baro, measured>>
        /\ AccTakes(<<"high", x>>)
    BY <1>0, <1>6, DoSend, ChipsDiffer DEF p
  <2>2. acc' = [acc EXCEPT !.gives = IF acc.held[x] = -1 THEN acc.sample ELSE acc.held[x],
                           !.held[x] = -1]
    BY <2>1, TakesAxis
  <2>3. accel[x].low = acc.held[x] /\ acc.held[x] # -1
    BY <1>6 DEF AxisReads
  <2>4. acc'.gives = acc.held[x]
    BY <1>t, <2>2, <2>3
  <2> QED
    BY <1>6, <2>1, <2>3, <2>4 DEF AxisFrame, AxisReads
<1>7. CASE n = 8
  <2>1. Op = Deselect(Acc, "high", x) /\ val = accel[x].low
    BY <1>0, <1>7 DEF p, AxisReads
  <2>2. AxisFrame(x) /\ accel' = [accel EXCEPT ![x]["high"] = val]
    BY <1>4, <2>1
  <2>3. accel'[x].high = val /\ accel'[x].low = accel[x].low
    BY <1>t, <2>2
  <2> QED
    BY <1>7, <2>1, <2>2, <2>3 DEF AxisReads
<1> QED
  BY <1>1, <1>2, <1>3, <1>5, <1>6, <1>7

\* What the routine of a word leaves alone.
WordFrame(w) ==
  /\ early' = early /\ baro'.error = baro.error /\ baro'.busy = baro.busy
  /\ \A v \in Word : v # w => C'[v] = C[v]

LEMMA WordBlock ==
  ASSUME served \in Nat, ~undone, ProgramInv, ReadTypes, SensorTask, job # <<>>,
         NEW w \in Word, NEW n \in 1 .. 5, Op = ms5611_get16(w)[n]
  PROVE  /\ WordFrame(w)
         /\ baro.busy = 0 /\ WordAt(w, n) => WordAt(w, n + 1)'
<1> DEFINE p == ms5611_get16(w)
<1>0. /\ p[1] = Select(Baro) /\ p[2] = Send(Baro, <<"prom", w>>) /\ p[3] = Octet(Baro, 1)
      /\ p[4] = Octet(Baro, 0) /\ p[5] = Deselect(Baro, "C", w)
  BY Get16Ops
<1> HIDE DEF p
<1>t. /\ baro \in [out : Seq(0 .. Byte - 1), of : Converter \cup {"none"}, busy : Nat,
                   error : Errors]
      /\ C \in [Word -> Nat] /\ "C" \notin Converter
  BY DEF ReadTypes, Converter
<1> DEFINE m == Flipped(w, baro.error)
<1>m. /\ m \in Short /\ m \in Nat
      /\ MsbFirst(m, 2) # <<>> /\ Head(MsbFirst(m, 2)) = ByteOf(m, 1)
      /\ Tail(MsbFirst(m, 2)) # <<>> /\ Head(Tail(MsbFirst(m, 2))) = ByteOf(m, 0)
      /\ (0 + ByteOf(m, 1) * Weight(1)) + ByteOf(m, 0) * Weight(0) = m
  <2>1. m \in Short
    BY <1>t, FlippedShort
  <2> HIDE DEF m
  <2>2. m \in Nat
    BY <2>1 DEF Short
  <2>3. Bytewise(MsbFirst(m, 2), m, 2)
    BY <2>2, MsbBytes
  <2>4. 2 - 1 = 1 /\ 2 - 2 = 0
    OBVIOUS
  <2> QED
    BY <2>1, <2>2, <2>3, <2>4, TwoBytes DEF Bytewise
<1>1. CASE n = 1
  <2>1. UNCHANGED <<val, C, D, accel, baro, acc, measured, early, mbarc>>
    BY <1>0, <1>1, DoSelect DEF p
  <2> QED
    BY <1>1, <2>1 DEF WordFrame, WordAt
<1>2. CASE n = 2
  <2>1. val' = 0 /\ UNCHANGED <<C, early>> /\ BaroTakes(<<"prom", w>>)
    BY <1>0, <1>2, DoSend, ChipsDiffer DEF p
  <2>2. baro' = [baro EXCEPT !.out =
              MsbFirst(IF baro.busy > 0 THEN 0 ELSE Flipped(w, baro.error), 2)]
    BY <2>1, TakesProm
  <2>3. baro'.error = baro.error /\ baro'.busy = baro.busy
    BY <1>t, <2>2
  <2>4. baro.busy = 0 => baro'.out = MsbFirst(m, 2)
    BY <1>t, <2>2
  <2> QED
    BY <1>2, <2>1, <2>3, <2>4 DEF WordFrame, WordAt
<1>3. ASSUME NEW i, Op = Octet(Baro, i)
      PROVE  /\ WordFrame(w) /\ C' = C
             /\ baro.out # <<>> => /\ val' = val + Head(baro.out) * Weight(i)
                                   /\ baro'.out = Tail(baro.out)
  <2>1. C' = C /\ early' = early
    BY <1>3, DoOctet
  <2>2. CASE baro.out # <<>>
    <3>1. val' = val + Head(baro.out) * Weight(i) /\ baro' = [baro EXCEPT !.out = Tail(@)]
      BY <1>3, <2>2, DoOctet
    <3>2. baro'.out = Tail(baro.out) /\ baro'.error = baro.error /\ baro'.busy = baro.busy
      BY <1>t, <3>1
    <3> QED
      BY <2>1, <3>1, <3>2 DEF WordFrame
  <2>3. CASE baro.out = <<>>
    <3>1. baro' = baro
      BY <1>3, <2>3, DoOctet
    <3> QED
      BY <2>1, <2>3, <3>1 DEF WordFrame
  <2> QED
    BY <2>2, <2>3
<1>4. CASE n = 3
  <2>1. Op = Octet(Baro, 1)
    BY <1>0, <1>4 DEF p
  <2>2. WordFrame(w)
    BY <1>3, <2>1
  <2>3. ASSUME WordAt(w, n)
        PROVE  WordAt(w, n + 1)'
    <3>1. val = 0 /\ baro.out = MsbFirst(m, 2)
      BY <1>4, <2>3 DEF WordAt
    <3>2. val' = 0 + ByteOf(m, 1) * Weight(1) /\ baro'.out = Tail(MsbFirst(m, 2))
      BY <1>3, <1>m, <2>1, <3>1
    <3> QED
      BY <1>4, <2>2, <3>2 DEF WordAt, WordFrame
  <2> QED
    BY <2>2, <2>3
<1>5. CASE n = 4
  <2>1. Op = Octet(Baro, 0)
    BY <1>0, <1>5 DEF p
  <2>2. WordFrame(w)
    BY <1>3, <2>1
  <2>3. ASSUME WordAt(w, n)
        PROVE  WordAt(w, n + 1)'
    <3>1. val = 0 + ByteOf(m, 1) * Weight(1) /\ baro.out = Tail(MsbFirst(m, 2))
      BY <1>5, <2>3 DEF WordAt
    <3>2. val' = m
      BY <1>3, <1>m, <2>1, <3>1
    <3> QED
      BY <1>5, <2>2, <3>2 DEF WordAt, WordFrame
  <2> QED
    BY <2>2, <2>3
<1>6. CASE n = 5
  <2>1. /\ early' = early /\ baro' = [baro EXCEPT !.out = <<>>] /\ C' = [C EXCEPT ![w] = val]
    BY <1>0, <1>6, DoDeselect DEF p
  <2>2. /\ baro'.error = baro.error /\ baro'.busy = baro.busy /\ C'[w] = val
        /\ \A v \in Word : v # w => C'[v] = C[v]
    BY <1>t, <2>1
  <2>3. WordAt(w, n) => val = m
    BY <1>6 DEF WordAt
  <2> QED
    BY <1>6, <2>1, <2>2, <2>3 DEF WordFrame, WordAt
<1> QED
  BY <1>1, <1>2, <1>4, <1>5, <1>6

\* One operation of the task's program, at its k-th.
LEMMA SampleStep ==
  ASSUME LongEnough, served \in Nat, served > 0, ~undone, ProgramInv, ReadTypes,
         SensorTask,
         job # <<>>, NEW k \in 1 .. 45, Op = task_sensor[k], SampleAt(k)
  PROVE  SampleAt(k + 1)'
<1>s. /\ \A c \in Converter : ConverterAt(c, k - ReadsAt(c))
      /\ \A x \in Axis : AxisReads(x, k - AxisAt(x))
      /\ Calibrated
  BY DEF SampleAt
<1>1. ASSUME NEW c \in Converter, NEW r \in 1 .. 10, k = ReadsAt(c) + r,
             Op = ms5611_read_adc(c, Precision)[r]
      PROVE  SampleAt(k + 1)'
  <2>1. ReadsAt(c) \in {0, 10} /\ k - ReadsAt(c) = r /\ (k + 1) - ReadsAt(c) = r + 1
    BY <1>1 DEF ReadsAt
  <2>2. ConverterAt(c, r)
    BY <1>s, <2>1
  <2>3. ConverterFrame(c) /\ ConverterAt(c, r + 1)'
    BY <1>1, <2>2, ConverterBlock
  <2>4. ASSUME NEW d \in Converter
        PROVE  ConverterAt(d, (k + 1) - ReadsAt(d))'
    <3>1. CASE d = c
      BY <2>1, <2>3, <3>1
    <3>2. CASE d # c /\ c = "D1"
      <4>1. (k + 1) - ReadsAt(d) <= 1 /\ (k + 1) - ReadsAt(d) \in Int
        BY <1>1, <3>2 DEF ReadsAt, Converter
      <4> QED
        BY <4>1 DEF ConverterAt
    <3>3. CASE d # c /\ c # "D1"
      <4>1. /\ k - ReadsAt(d) >= 11 /\ (k + 1) - ReadsAt(d) >= 11
            /\ k - ReadsAt(d) \in Int /\ (k + 1) - ReadsAt(d) \in Int
        BY <1>1, <3>3 DEF ReadsAt, Converter
      <4>2. D[d] = measured[d] /\ D[d] # 0
        BY <1>s, <4>1 DEF ConverterAt
      <4>3. D'[d] = measured'[d] /\ D'[d] # 0
        BY <2>3, <3>3, <4>2 DEF ConverterFrame
      <4> QED
        BY <4>1, <4>3 DEF ConverterAt
    <3> QED
      BY <3>1, <3>2, <3>3
  <2>5. ASSUME NEW x \in Axis
        PROVE  AxisReads(x, (k + 1) - AxisAt(x))'
    <3>1. (k + 1) - AxisAt(x) <= 1 /\ (k + 1) - AxisAt(x) \in Int
      BY <1>1, <2>1, SMTT(30) DEF AxisAt, Axis
    <3> QED
      BY <3>1 DEF AxisReads
  <2>6. Calibrated'
    BY <1>s, <2>3 DEF Calibrated, ConverterFrame
  <2> QED
    BY <2>4, <2>5, <2>6 DEF SampleAt
<1>2. ASSUME k = 21, Op = Compute
      PROVE  SampleAt(k + 1)'
  <2>1. UNCHANGED <<val, C, D, accel, baro, acc, measured, early>>
    BY <1>2, DoCompute
  <2>2. ASSUME NEW d \in Converter
        PROVE  ConverterAt(d, (k + 1) - ReadsAt(d))'
    <3>1. /\ k - ReadsAt(d) >= 11 /\ (k + 1) - ReadsAt(d) >= 11
          /\ k - ReadsAt(d) \in Int /\ (k + 1) - ReadsAt(d) \in Int
      BY <1>2 DEF ReadsAt, Converter
    <3>2. D[d] = measured[d] /\ D[d] # 0
      BY <1>s, <3>1 DEF ConverterAt
    <3> QED
      BY <2>1, <3>1, <3>2 DEF ConverterAt
  <2>3. ASSUME NEW x \in Axis
        PROVE  AxisReads(x, (k + 1) - AxisAt(x))'
    <3>1. (k + 1) - AxisAt(x) <= 1 /\ (k + 1) - AxisAt(x) \in Int
      BY <1>2 DEF AxisAt, Axis
    <3> QED
      BY <3>1 DEF AxisReads
  <2>4. Calibrated'
    BY <1>s, <2>1 DEF Calibrated
  <2> QED
    BY <2>2, <2>3, <2>4 DEF SampleAt
<1>3. ASSUME NEW x \in Axis, NEW r \in 1 .. 8, k = AxisAt(x) + r, Op = bmx055_read(x)[r]
      PROVE  SampleAt(k + 1)'
  <2>1. AxisAt(x) \in {21, 29, 37} /\ k - AxisAt(x) = r /\ (k + 1) - AxisAt(x) = r + 1
    BY <1>3 DEF AxisAt, Axis
  <2>2. AxisReads(x, r)
    BY <1>s, <2>1
  <2>3. AxisFrame(x) /\ AxisReads(x, r + 1)'
    BY <1>3, <2>2, AxisBlock
  <2>4. ASSUME NEW d \in Converter
        PROVE  ConverterAt(d, (k + 1) - ReadsAt(d))'
    <3>1. /\ k - ReadsAt(d) >= 11 /\ (k + 1) - ReadsAt(d) >= 11
          /\ k - ReadsAt(d) \in Int /\ (k + 1) - ReadsAt(d) \in Int
      <4>1. k >= 22
        BY <1>3, <2>1
      <4>2. ReadsAt(d) \in {0, 10}
        BY DEF ReadsAt
      <4> QED
        BY <4>1, <4>2
    <3>2. D[d] = measured[d] /\ D[d] # 0
      BY <1>s, <3>1 DEF ConverterAt
    <3>3. D'[d] = measured'[d] /\ D'[d] # 0
      BY <2>3, <3>2 DEF AxisFrame
    <3> QED
      BY <3>1, <3>3 DEF ConverterAt
  <2>5. ASSUME NEW y \in Axis
        PROVE  AxisReads(y, (k + 1) - AxisAt(y))'
    <3>1. CASE y = x
      BY <2>1, <2>3, <3>1
    <3>2. CASE y < x
      <4>1. /\ k - AxisAt(y) >= 9 /\ (k + 1) - AxisAt(y) >= 9
            /\ k - AxisAt(y) \in Int /\ (k + 1) - AxisAt(y) \in Int
        BY <1>3, <3>2 DEF AxisAt, Axis
      <4>2. accel[y].low = accel[y].high
        BY <1>s, <4>1 DEF AxisReads
      <4>3. accel'[y].low = accel'[y].high
        BY <2>3, <3>2, <4>2 DEF AxisFrame, Axis
      <4> QED
        BY <4>1, <4>3 DEF AxisReads
    <3>3. CASE y > x
      <4>1. (k + 1) - AxisAt(y) <= 1 /\ (k + 1) - AxisAt(y) \in Int
        BY <1>3, <3>3 DEF AxisAt, Axis
      <4> QED
        BY <4>1 DEF AxisReads
    <3> QED
      BY <3>1, <3>2, <3>3 DEF Axis
  <2>6. Calibrated'
    BY <1>s, <2>3 DEF Calibrated, AxisFrame
  <2> QED
    BY <2>4, <2>5, <2>6 DEF SampleAt
<1> QED
  BY <1>1, <1>2, <1>3, TaskAt

\* One operation of the first program, at its k-th.
LEMMA SetupStep ==
  ASSUME served \in Nat, ~undone, ProgramInv, ReadTypes, SensorTask,
         job # <<>>, NEW k \in 1 .. 52, Op = config_sensor[k], SetupAt(k)
  PROVE  SetupAt(k + 1)'
<1>s. /\ k = 7 => baro.of = "none"
      /\ k >= 8 /\ early = FALSE => baro.busy = 0
      /\ early = FALSE => \A w \in Word : WordAt(w, k - (8 + 5 * w))
  BY DEF SetupAt, ResetAt, WordsAt
<1>t. /\ baro \in [out : Seq(0 .. Byte - 1), of : Converter \cup {"none"}, busy : Nat,
                   error : Errors]
      /\ early \in BOOLEAN
  BY DEF ReadTypes
<1>w. \A w \in Word : k + 1 <= 9 =>
        (k + 1) - (8 + 5 * w) <= 1 /\ (k + 1) - (8 + 5 * w) \in Int
  BY DEF Word
<1>v. k + 1 <= 9 => WordsAt(k + 1)'
  <2>1. ASSUME NEW w \in Word, NEW j \in Int, j <= 1
        PROVE  WordAt(w, j)'
    BY <2>1 DEF WordAt
  <2> QED
    BY <1>w, <2>1 DEF WordsAt
<1>1. CASE k \in 1 .. 4
  <2>1. ResetAt(k + 1)'
    BY <1>1 DEF ResetAt
  <2> QED
    BY <1>1, <1>v, <2>1 DEF SetupAt
<1>2. ASSUME NEW r \in 1 .. 4, k = 4 + r, Op = ms5611_reset[r]
      PROVE  SetupAt(k + 1)'
  <2> DEFINE p == ms5611_reset
  <2>0. /\ p[1] = Select(Baro) /\ p[2] = Send(Baro, <<"reset">>) /\ p[3] = Wait(3)
        /\ p[4] = Deselect(Baro, "none", 0)
    BY ResetOps
  <2> HIDE DEF p
  <2>5. ResetAt(k + 1)'
    <3>1. CASE r = 1
      BY <1>2, <3>1 DEF ResetAt
    <3>2. CASE r = 2
      <4>1. BaroTakes(<<"reset">>)
        BY <1>2, <2>0, <3>2, DoSend, ChipsDiffer DEF p
      <4>2. baro'.of = "none"
        BY <4>1, TakesReset
      <4> QED
        BY <1>2, <3>2, <4>2 DEF ResetAt
    <3>3. CASE r = 3
      <4>1. Op = Wait(3) /\ baro.of = "none" /\ 3 \in Nat
        BY <1>2, <1>s, <2>0, <3>3 DEF p
      <4>2. early' = FALSE => baro'.busy = 0
        BY <4>1, WaitEnough
      <4> QED
        BY <1>2, <3>3, <4>2 DEF ResetAt
    <3>4. CASE r = 4
      <4>1. early' = early /\ baro' = [baro EXCEPT !.out = <<>>]
        BY <1>2, <2>0, <3>4, DoDeselect DEF p
      <4>2. baro'.busy = baro.busy
        BY <1>t, <4>1
      <4> QED
        BY <1>2, <1>s, <3>4, <4>1, <4>2 DEF ResetAt
    <3> QED
      BY <1>2, <3>1, <3>2, <3>3, <3>4
  <2> QED
    BY <1>2, <1>v, <2>5 DEF SetupAt
<1>3. ASSUME NEW w \in Word, NEW r \in 1 .. 5, k = (8 + 5 * w) + r, Op = ms5611_get16(w)[r]
      PROVE  SetupAt(k + 1)'
  <2>1. /\ k >= 9 /\ w \in Nat
        /\ k - (8 + 5 * w) = r /\ (k + 1) - (8 + 5 * w) = r + 1
    BY <1>3 DEF Word
  <2>2. WordFrame(w) /\ (baro.busy = 0 /\ WordAt(w, r) => WordAt(w, r + 1)')
    BY <1>3, WordBlock
  <2>3. ResetAt(k + 1)'
    BY <1>s, <2>1, <2>2 DEF ResetAt, WordFrame
  <2>4. ASSUME early' = FALSE, NEW v \in Word
        PROVE  WordAt(v, (k + 1) - (8 + 5 * v))'
    <3>1. early = FALSE /\ baro.busy = 0 /\ WordAt(v, k - (8 + 5 * v)) /\ WordAt(w, r)
      BY <1>s, <2>1, <2>2, <2>4 DEF WordFrame
    <3>2. CASE v = w
      BY <2>1, <2>2, <3>1, <3>2
    <3>3. CASE v < w
      <4>1. /\ k - (8 + 5 * v) >= 6 /\ (k + 1) - (8 + 5 * v) >= 6
            /\ k - (8 + 5 * v) \in Int /\ (k + 1) - (8 + 5 * v) \in Int
        BY <1>3, <3>3 DEF Word
      <4>2. C[v] = Flipped(v, baro.error)
        BY <3>1, <4>1 DEF WordAt
      <4>3. C'[v] = Flipped(v, baro'.error)
        BY <2>2, <3>3, <4>2 DEF WordFrame, Word
      <4> QED
        BY <4>1, <4>3 DEF WordAt
    <3>4. CASE v > w
      <4>1. (k + 1) - (8 + 5 * v) <= 1 /\ (k + 1) - (8 + 5 * v) \in Int
        BY <1>3, <3>4 DEF Word
      <4> QED
        BY <4>1 DEF WordAt
    <3> QED
      BY <3>2, <3>3, <3>4 DEF Word
  <2> QED
    BY <2>3, <2>4 DEF SetupAt, WordsAt
<1>4. ASSUME NEW r \in 1 .. 4, k = 48 + r, Op = Check[r]
      PROVE  SetupAt(k + 1)'
  <2>1. UNCHANGED <<C, early, baro>>
    <3>1. /\ Check[1] = Send("none", <<"prom", 7>>) /\ Check[2] = Octet("none", 1)
          /\ Check[3] = Octet("none", 0) /\ Check[4] = Verify
      BY CheckOps
    <3>2. CASE r = 1
      <4>1. Op = Send("none", <<"prom", 7>>)
        BY <1>4, <3>1, <3>2
      <4> QED
        BY <4>1, DoSend, ChipsDiffer
    <3>3. ASSUME NEW i, Op = Octet("none", i)
          PROVE  UNCHANGED <<C, early, baro>>
      BY <3>3, DoOctet
    <3>4. CASE r = 4
      <4>1. Op = Verify
        BY <1>4, <3>1, <3>4
      <4> QED
        BY <4>1, DoVerify
    <3>5. CASE r \in {2, 3}
      <4>1. Op = Octet("none", 1) \/ Op = Octet("none", 0)
        BY <1>4, <3>1, <3>5
      <4> QED
        BY <3>3, <4>1
    <3> QED
      BY <3>2, <3>4, <3>5
  <2>2. ResetAt(k + 1)'
    BY <1>4, <1>s, <2>1 DEF ResetAt
  <2>3. ASSUME early' = FALSE, NEW v \in Word
        PROVE  WordAt(v, (k + 1) - (8 + 5 * v))'
    <3>1. /\ k - (8 + 5 * v) >= 6 /\ (k + 1) - (8 + 5 * v) >= 6
          /\ k - (8 + 5 * v) \in Int /\ (k + 1) - (8 + 5 * v) \in Int
      BY <1>4 DEF Word
    <3>2. WordAt(v, k - (8 + 5 * v))
      BY <1>s, <2>1, <2>3
    <3>3. C[v] = Flipped(v, baro.error)
      BY <3>1, <3>2 DEF WordAt
    <3> QED
      BY <2>1, <3>1, <3>3 DEF WordAt
  <2> QED
    BY <2>2, <2>3 DEF SetupAt, WordsAt
<1> QED
  BY <1>1, <1>2, <1>3, <1>4, ConfigAt

LEMMA SampleStarts ==
  ASSUME Calibrated
  PROVE  SampleAt(1)
<1>1. /\ \A c \in Converter : 1 - ReadsAt(c) <= 1 /\ 1 - ReadsAt(c) \in Int
      /\ \A x \in Axis : 1 - AxisAt(x) <= 1 /\ 1 - AxisAt(x) \in Int
  BY DEF ReadsAt, AxisAt, Axis
<1>2. \A c \in Converter : ConverterAt(c, 1 - ReadsAt(c))
  BY <1>1 DEF ConverterAt
<1>3. \A x \in Axis : AxisReads(x, 1 - AxisAt(x))
  BY <1>1 DEF AxisReads
<1> QED
  BY <1>2, <1>3 DEF SampleAt

LEMMA SetupStarts == SetupAt(1)
<1>1. \A w \in Word : 1 - (8 + 5 * w) <= 1 /\ 1 - (8 + 5 * w) \in Int
  BY DEF Word
<1>2. \A w \in Word : WordAt(w, 1 - (8 + 5 * w))
  BY <1>1 DEF WordAt
<1> QED
  BY <1>2 DEF SetupAt, ResetAt, WordsAt

LEMMA SetupEnds ==
  ASSUME SetupAt(53)
  PROVE  Calibrated
<1>1. \A w \in Word : 53 - (8 + 5 * w) >= 6 /\ 53 - (8 + 5 * w) \in Int
  BY DEF Word
<1> QED
  BY <1>1 DEF SetupAt, WordsAt, WordAt, Calibrated

\* Both programs have an end.
LEMMA ProgramLength ==
  ASSUME served \in Nat
  PROVE  /\ served > 0 => Program = task_sensor /\ Len(Program) = 45
         /\ served = 0 => Program = config_sensor /\ Len(Program) = 52
  BY TaskOps, ConfigOps DEF Program

LEMMA ProgramEnds ==
  ASSUME served \in Nat, ProgramInv, job = <<>>
  PROVE  (served > 0 => Place = 46) /\ (served = 0 => Place = 53)
<1>1. Program \in Seq(Operations) /\ Len(Program) \in Nat
  BY ProgramFacts
<1>2. Place = Len(Program) + 1
  BY <1>1, RestEnds, ZenonT(40) DEF ProgramInv
<1>3. (served > 0 => Len(Program) = 45) /\ (served = 0 => Len(Program) = 52)
  BY ProgramLength
<1> DEFINE length == Len(Program)
<1>4. Place = length + 1 /\ (served > 0 => length = 45) /\ (served = 0 => length = 52)
  BY <1>2, <1>3
<1> HIDE DEF length
<1> QED
  BY <1>4

LEMMA ReadSensorStep ==
  ASSUME LongEnough, boot = <<>>, boot' = boot, served \in Nat, ~undone, ProgramInv, ProgramInv',
         ReadInv, SensorTask
  PROVE  ReadInv'
<1>t. ReadTypes /\ ReadTypes'
  BY ReadTypesStep DEF ReadInv
<1>1. CASE job # <<>>
  <2>1. job' = Tail(job) /\ served' = served
    BY <1>1, ActionOf
  <2>2. /\ Place \in 1 .. Len(Program) /\ Op = Program[Place] /\ Place' = Place + 1
    BY <1>1, <2>1, ProgramStep
  <2>3. PICK k \in 1 .. Len(Program) : k = Place
    BY <2>2
  <2>4. Op = Program[k] /\ Place' = k + 1
    BY <2>2, <2>3
  <2>5. CASE served > 0
    <3>1. Program = task_sensor /\ k \in 1 .. 45
      BY <2>3, <2>5, ProgramLength
    <3>2. SampleAt(k)
      BY <2>3, <2>5, <3>1 DEF ReadInv
    <3>3. Op = task_sensor[k]
      BY <2>4, <3>1
    <3>4. SampleAt(k + 1)'
      BY <1>1, <1>t, <2>5, <3>1, <3>2, <3>3, SampleStep
    <3>5. \A j \in 1 .. 46 : Place' = j => j = k + 1
      BY <2>4
    <3>6. \A j \in 1 .. 46 : Place' = j => SampleAt(j)'
      BY <3>4, <3>5
    <3> QED
      BY <1>t, <2>1, <2>5, <3>6 DEF ReadInv
  <2>6. CASE served = 0
    <3>1. Program = config_sensor /\ k \in 1 .. 52
      BY <2>3, <2>6, ProgramLength
    <3>2. SetupAt(k)
      BY <2>3, <2>6, <3>1 DEF ReadInv
    <3>3. Op = config_sensor[k]
      BY <2>4, <3>1
    <3>4. SetupAt(k + 1)'
      BY <1>1, <1>t, <3>1, <3>2, <3>3, SetupStep
    <3>5. \A j \in 1 .. 53 : Place' = j => j = k + 1
      BY <2>4
    <3>6. \A j \in 1 .. 53 : Place' = j => SetupAt(j)'
      BY <3>4, <3>5
    <3> QED
      BY <1>t, <2>1, <2>6, <3>6 DEF ReadInv
  <2> QED
    BY <2>5, <2>6
<1>2. CASE job = <<>>
  <2>1. Serve
    BY <1>2 DEF SensorTask, ChipSelect, ChipDeselect, Transfer, ReadOctet, Delay, VerifyProm,
       GetMbarc, Doing
  <2>2. /\ served' = served + 1 /\ job' = task_sensor
        /\ UNCHANGED <<C, baro, early>>
    BY <2>1 DEF Serve, chips
  <2>3. Calibrated
    <3>1. CASE served > 0
      <4>1. SampleAt(46)
        BY <1>2, <3>1, ProgramEnds DEF ReadInv
      <4> QED
        BY <4>1 DEF SampleAt
    <3>2. CASE served = 0
      <4>1. SetupAt(53)
        BY <1>2, <3>2, ProgramEnds DEF ReadInv
      <4> QED
        BY <4>1, SetupEnds
    <3> QED
      BY <3>1, <3>2
  <2>4. Calibrated'
    BY <2>2, <2>3 DEF Calibrated
  <2>5. SampleAt(1)'
    BY <2>4, SampleStarts, PTL
  <2>6. Place' = 1
    <3>1. Program' = task_sensor
      BY <2>2 DEF Program
    <3>2. Closed(task_sensor)
      BY ProgramsClosed
    <3> QED
      BY <2>2, <3>1, <3>2, ProgramStarts DEF Place
  <2>7. \A j \in 1 .. 46 : Place' = j => SampleAt(j)'
    BY <2>5, <2>6
  <2>8. served' > 0 /\ served' # 0
    BY <2>2
  <2> QED
    BY <1>t, <2>7, <2>8 DEF ReadInv
<1> QED
  BY <1>1, <1>2

\* What a toggle has undone stays undone.
LEMMA UndoneStays ==
  ASSUME undone, [Next]_vars
  PROVE  undone'
<1>1. CASE Boot \/ Alert
  BY <1>1 DEF Boot, Alert, Tick, Ignore, BlinkReads, BlinkOn, BlinkOff, BlinkEnd, Show, Blink,
     AlertArrives
<1>2. CASE UNCHANGED alertvars \/ UNCHANGED vars
  BY <1>2 DEF vars, alertvars
<1> QED
  BY <1>1, <1>2 DEF Next

LEMMA ReadTypesSteps ==
  ASSUME BoardInv, ~undone, ReadTypes, [Next]_vars
  PROVE  ReadTypes'
<1>1. ASSUME boot = <<>>, SensorTask
      PROVE  ReadTypes'
  <2>1. served \in Nat /\ ProgramInv
    BY <1>1 DEF BoardInv
  <2> QED
    BY <1>1, <2>1, ReadTypesStep
<1>2. ASSUME boot = <<>>, NewSample
      PROVE  ReadTypes'
  <2>1. /\ UNCHANGED <<val, C, D, accel, baro, measured, early>>
        /\ acc' = [acc EXCEPT !.sample = @ + 1]
    BY <1>2 DEF NewSample, driver
  <2>2. acc \in [sample : Nat, held : [Axis -> Nat \cup {-1}], gives : Nat]
    BY DEF ReadTypes
  <2>3. acc' \in [sample : Nat, held : [Axis -> Nat \cup {-1}], gives : Nat]
    BY <2>1, <2>2
  <2> QED
    BY <2>1, <2>3 DEF ReadTypes
<1>3. CASE Boot \/ Alert \/ UNCHANGED vars
  <2>1. UNCHANGED <<val, C, D, accel, baro, acc, measured, early>>
    BY <1>3 DEF Boot, Alert, Tick, Ignore, BlinkReads, BlinkOn, BlinkOff, BlinkEnd, Show,
       Blink, AlertArrives, vars, sensorvars, driver, chips
  <2> QED
    BY <2>1 DEF ReadTypes
<1> QED
  BY <1>1, <1>2, <1>3 DEF Next

\* A step that reads nothing; a new sample of the accelerometer is one.
LEMMA SameReadInv ==
  ASSUME ReadInv, UNCHANGED <<job, val, C, D, accel, baro, measured, early, served, boot>>,
         ReadTypes', acc'.held = acc.held, acc'.gives = acc.gives
  PROVE  ReadInv'
<1>1. Place' = Place
  BY DEF Place, Program
<1>2. ASSUME NEW c, NEW r, ConverterAt(c, r)
      PROVE  ConverterAt(c, r)'
  BY <1>2 DEF ConverterAt
<1>3. ASSUME NEW x, NEW r, AxisReads(x, r)
      PROVE  AxisReads(x, r)'
  BY <1>3 DEF AxisReads
<1>4. ASSUME NEW w, NEW r, WordAt(w, r)
      PROVE  WordAt(w, r)'
  BY <1>4 DEF WordAt
<1>5. ASSUME NEW k, SampleAt(k)
      PROVE  SampleAt(k)'
  <2>1. Calibrated'
    BY <1>5 DEF SampleAt, Calibrated
  <2> QED
    BY <1>2, <1>3, <1>5, <2>1 DEF SampleAt
<1>6. ASSUME NEW k, SetupAt(k)
      PROVE  SetupAt(k)'
  <2>1. ResetAt(k)'
    BY <1>6 DEF SetupAt, ResetAt
  <2> QED
    BY <1>4, <1>6, <2>1 DEF SetupAt, WordsAt
<1> QED
  BY <1>1, <1>5, <1>6 DEF ReadInv

LEMMA ReadSteps ==
  ASSUME LongEnough, BoardInv, BoardInv', ~undone, ReadInv, [Next]_vars
  PROVE  ReadInv'
<1>t. ReadTypes /\ ReadTypes'
  BY ReadTypesSteps DEF ReadInv
<1>1. CASE Boot
  <2>1. /\ boot # <<>> /\ UNCHANGED <<val, C, D, accel, baro, acc, measured, early, served>>
        /\ boot' = Tail(boot)
    BY <1>1 DEF Boot, chips
  <2>3. served = 0
    BY <2>1 DEF BoardInv, StartInv
  <2>4. CASE boot' # <<>>
    BY <1>t, <2>4 DEF ReadInv
  <2>5. CASE boot' = <<>>
    <3>1. job' = config_sensor
      BY <1>1, <2>5 DEF Boot
    <3>2. Program' = config_sensor
      BY <2>1, <2>3 DEF Program
    <3>3. Closed(config_sensor)
      BY ProgramsClosed
    <3>4. Place' = 1
      BY <3>1, <3>2, <3>3, ProgramStarts DEF Place
    <3>5. SetupAt(1)'
      BY SetupStarts, PTL
    <3>6. \A j \in 1 .. 53 : Place' = j => SetupAt(j)'
      BY <3>4, <3>5
    <3> QED
      BY <1>t, <2>1, <2>3, <3>6 DEF ReadInv
  <2> QED
    BY <2>4, <2>5
<1>2. ASSUME boot = <<>>, SensorTask, UNCHANGED <<boot, alertvars>>
      PROVE  ReadInv'
  <2>1. served \in Nat /\ ProgramInv /\ ProgramInv' /\ boot' = boot
    BY <1>2 DEF BoardInv
  <2> QED
    BY <1>2, <2>1, ReadSensorStep
<1>3. ASSUME boot = <<>>, NewSample, UNCHANGED <<boot, alertvars>>
      PROVE  ReadInv'
  <2>1. /\ UNCHANGED <<job, val, C, D, accel, baro, measured, early, served, boot>>
        /\ acc' = [acc EXCEPT !.sample = @ + 1]
    BY <1>3 DEF NewSample, driver
  <2>2. acc'.held = acc.held /\ acc'.gives = acc.gives
    BY <1>t, <2>1 DEF ReadTypes
  <2> QED
    BY <1>t, <2>1, <2>2, SameReadInv
<1>4. CASE Alert \/ UNCHANGED vars
  <2>1. UNCHANGED <<job, val, C, D, accel, baro, acc, measured, early, served, boot>>
    BY <1>4 DEF Alert, Tick, Ignore, BlinkReads, BlinkOn, BlinkOff, BlinkEnd, Show,
       Blink, AlertArrives, vars, sensorvars, driver, chips
  <2> QED
    BY <1>t, <2>1, SameReadInv
<1> QED
  BY <1>1, <1>2, <1>3, <1>4 DEF Next

LEMMA StartsUp == Init => boot # <<>>
<1> SUFFICES ASSUME Init
             PROVE  boot # <<>>
  OBVIOUS
<1>1. boot = Startup
  BY DEF Init
<1>2. Len(<<>>) = 0
  OBVIOUS
<1>3. Len(Startup) # 0
  BY StartupSteps
<1> QED
  BY <1>1, <1>2, <1>3, Zenon

LEMMA ReadStarts == Init => ReadInv
<1> SUFFICES ASSUME Init
             PROVE  ReadInv
  OBVIOUS
<1>1. boot # <<>>
  BY StartsUp
<1>2. PICK error \in Errors : baro = [out |-> <<>>, of |-> "none", busy |-> 0, error |-> error]
  BY DEF Init, SensorInit, Errors
<1>3. baro \in [out : Seq(0 .. Byte - 1), of : Converter \cup {"none"}, busy : Nat,
                error : Errors]
  BY <1>2
<1>4. ReadTypes
  BY <1>3 DEF ReadTypes, Init, SensorInit
<1> QED
  BY <1>1, <1>4 DEF ReadInv

LEMMA ReadKept ==
  ASSUME LongEnough
  PROVE  Spec => [](BoardInv /\ (undone \/ ReadInv))
<1>1. BoardInv /\ (undone \/ ReadInv) /\ [Next]_vars => (BoardInv /\ (undone \/ ReadInv))'
  BY BoardSteps, ReadSteps, UndoneStays
<1> QED
  BY BoardStarts, ReadStarts, <1>1, PTL DEF Spec

\* What the sample of a request is made of.
LEMMA SampleEnds ==
  ASSUME BoardInv, ReadInv, Complete
  PROVE  SampleAt(46)
<1>1. boot = <<>>
  BY DEF Complete, BoardInv, StartInv
<1>2. served \in Nat /\ ProgramInv
  BY <1>1 DEF BoardInv
<1> QED
  BY <1>1, <1>2, ProgramEnds DEF Complete, ReadInv

\* ms5611.c, bmx055.c: the two bytes of an acceleration are of one sample,
\* each converter was measured for this request and read when it was complete,
\* and unless the reset took longer than the driver waits the calibration is
\* what was on the wire; for every calibration and reading, and every time at
\* which the accelerometer takes a sample.  That the delay of a conversion is
\* long enough is the assumption, and all that is asked of its length.  The
\* promise ends when the toggle of a blink undoes what was written to its port.
THEOREM BoardReadingsTrue ==
  ASSUME LongEnough
  PROVE  Spec => []ReadingsTrue
<1>1. ASSUME BoardInv, ReadInv
      PROVE  ReadTrue
  <2>1. ASSUME Complete
        PROVE  /\ \A x \in Axis : accel[x].low = accel[x].high
               /\ \A c \in Converter : D[c] = measured[c] /\ D[c] # 0
    <3>1. SampleAt(46)
      BY <1>1, <2>1, SampleEnds
    <3>2. /\ \A c \in Converter : 46 - ReadsAt(c) >= 11 /\ 46 - ReadsAt(c) \in Int
          /\ \A x \in Axis : 46 - AxisAt(x) >= 9 /\ 46 - AxisAt(x) \in Int
      BY DEF ReadsAt, AxisAt, Axis
    <3>3. \A x \in Axis : AxisReads(x, 46 - AxisAt(x))
      BY <3>1 DEF SampleAt
    <3>4. \A c \in Converter : ConverterAt(c, 46 - ReadsAt(c))
      BY <3>1 DEF SampleAt
    <3>5. \A x \in Axis : accel[x].low = accel[x].high
      BY <3>2, <3>3 DEF AxisReads
    <3>6. \A c \in Converter : D[c] = measured[c] /\ D[c] # 0
      BY <3>2, <3>4 DEF ConverterAt
    <3> QED
      BY <3>5, <3>6
  <2>2. ASSUME served > 0, ~early
        PROVE  \A w \in Word : C[w] = Flipped(w, baro.error)
    <3>1. boot = <<>>
      BY <1>1, <2>2 DEF BoardInv, StartInv
    <3>2. served \in Nat /\ ProgramInv /\ Len(Program) = 45
      BY <1>1, <2>2, <3>1, ProgramLength DEF BoardInv
    <3>3. PICK k \in 1 .. 46 : Place = k
      BY <3>2 DEF ProgramInv
    <3>4. SampleAt(k)
      BY <1>1, <2>2, <3>1, <3>3 DEF ReadInv
    <3>5. early = FALSE
      BY <2>2
    <3> QED
      BY <3>4, <3>5 DEF SampleAt, Calibrated
  <2> QED
    BY <2>1, <2>2 DEF ReadTrue
<1>2. BoardInv /\ (undone \/ ReadInv) => ReadingsTrue
  BY <1>1 DEF ReadingsTrue
<1> QED
  BY ReadKept, <1>2, PTL

-----------------------------------------------------------------------------
(* The pressure                                                            *)

\* Dividing after something is added.
LEMMA DivGrows ==
  ASSUME NEW b \in Nat \ {0}, NEW a \in Int, NEW e \in Nat
  PROVE  ((a + e) \div b) - (a \div b) \in 0 .. (e \div b) + 1
<1> DEFINE p == (a + e) \div b  q == a \div b  r == e \div b
           mp == (a + e) % b  mq == a % b  mr == e % b
<1>1. /\ p \in Int /\ mp \in 0 .. b - 1 /\ a + e = b * p + mp
      /\ q \in Int /\ mq \in 0 .. b - 1 /\ a = b * q + mq
      /\ r \in Int /\ mr \in 0 .. b - 1 /\ e = b * r + mr
  <2> DEFINE x == a + e
  <2>1. x \in Int /\ e \in Int
    OBVIOUS
  <2> HIDE DEF x
  <2>2. x \div b \in Int /\ x % b \in 0 .. b - 1 /\ x = b * (x \div b) + (x % b)
    BY <2>1, DivRange
  <2>3. q \in Int /\ mq \in 0 .. b - 1 /\ a = b * q + mq
    BY DivRange
  <2>4. r \in Int /\ mr \in 0 .. b - 1 /\ e = b * r + mr
    BY <2>1, DivRange
  <2> QED
    BY <2>2, <2>3, <2>4 DEF x
<1> HIDE DEF p, q, r, mp, mq, mr
<1>2. /\ b * p - b * q = b * (p - q) /\ b * (p - q) - b * r = b * ((p - q) - r)
      /\ b * p \in Int /\ b * q \in Int /\ b * r \in Int
      /\ b * (p - q) \in Int /\ b * ((p - q) - r) \in Int
  BY <1>1, Distributes
<1>3. b * (p - q) = e + mq - mp /\ b * ((p - q) - r) = mr + mq - mp
  BY <1>1, <1>2
<1>4. b * (p - q) > -b
  BY <1>1, <1>3
<1>5. b * ((p - q) - r) < b + b
  BY <1>1, <1>3
<1>6. b * (((p - q) - r) - 1) < b
  <2>1. b * ((p - q) - r) - b * 1 = b * (((p - q) - r) - 1) /\ b * 1 = b
    BY <1>1, Distributes
  <2> QED
    BY <1>2, <1>5, <2>1
<1>7. p - q >= 0
  BY <1>1, <1>4, NoMultiple
<1>8. ((p - q) - r) - 1 <= 0
  BY <1>1, <1>6, NoMultiple
<1> QED
  BY <1>1, <1>7, <1>8 DEF p, q, r

\* The sensitivity is cut before the product, not after.
LEMMA CutEarly ==
  ASSUME NEW b \in Nat \ {0}, NEW n \in Nat, NEW s \in Int
  PROVE  ((n * s) \div b) - (n * (s \div b)) \in 0 .. n
<1> DEFINE q == s \div b  m == s % b  p == (n * s) \div b  mp == (n * s) % b
<1>1. q \in Int /\ m \in 0 .. b - 1 /\ s = b * q + m
  BY DivRange
<1>2. n * s \in Int
  BY Distributes
<1>3. p \in Int /\ mp \in 0 .. b - 1 /\ n * s = b * p + mp
  BY <1>2, DivRange
<1> HIDE DEF q, m, p, mp
<1>4. n * s = b * (n * q) + n * m
  BY <1>1, Distributes
<1>5. n * q \in Int /\ b * p - b * (n * q) = b * (p - n * q)
  BY <1>1, <1>3, Distributes
<1>6. n * m \in Nat /\ n * m <= n * b /\ n * b \in Nat
  BY <1>1, ProductBounds
<1> DEFINE d == p - n * q
<1>7. d \in Int /\ b * d = n * m - mp
  <2>1. b * p \in Int /\ b * (n * q) \in Int /\ b * (p - n * q) \in Int
    BY <1>3, <1>5
  <2> QED
    BY <1>3, <1>4, <1>5, <1>6, <2>1
<1> HIDE DEF d
<1>8. b * d > -b
  BY <1>1, <1>3, <1>6, <1>7
<1>9. d >= 0
  BY <1>7, <1>8, NoMultiple
<1>10. b * (d - n) <= 0
  <2>1. b * d - b * n = b * (d - n) /\ b * n = n * b
    BY <1>7, Distributes
  <2>2. b * d \in Int /\ b * d <= n * b
    BY <1>3, <1>6, <1>7
  <2> QED
    BY <1>6, <2>1, <2>2
<1>11. d - n <= 0
  BY <1>7, <1>10, NoMultiple
<1> QED
  BY <1>7, <1>9, <1>11 DEF d, p, q

LEMMA PressureBound ==
  ASSUME NEW n \in Nat, NEW sens \in Int, NEW off \in Int
  PROVE  Exact(n, sens, off) - Pressure(n, sens, off) \in 0 .. (n \div Out) + 1
<1>1. SensCut \in Nat \ {0} /\ Out \in Nat \ {0}
  BY BarometerAssumption DEF Positive
<1> DEFINE u == (n * sens) \div SensCut  v == n * (sens \div SensCut)  e == u - v  a == v - off
<1>2. e \in 0 .. n
  BY <1>1, CutEarly
<1>3. v \in Int /\ u \in Int
  BY <1>1, DivRange, Distributes
<1>4. /\ Exact(n, sens, off) = (u - off) \div Out
      /\ Pressure(n, sens, off) = a \div Out
  BY DEF Exact, Pressure
<1>5. u - off = a + e /\ a \in Int /\ e \in Nat
  BY <1>2, <1>3
<1> HIDE DEF u, v, e, a
<1>6. ((a + e) \div Out) - (a \div Out) \in 0 .. (e \div Out) + 1
  BY <1>1, <1>5, DivGrows
<1>7. e \div Out <= n \div Out /\ e \div Out \in Int /\ n \div Out \in Int
  <2>1. n - e \in Nat /\ n = e + (n - e)
    BY <1>2, <1>5
  <2>2. ((e + (n - e)) \div Out) - (e \div Out) \in 0 .. ((n - e) \div Out) + 1
    BY <1>1, <1>5, <2>1, DivGrows
  <2>3. e \div Out \in Int /\ n \div Out \in Int
    BY <1>1, <1>5, DivRange
  <2>4. (n \div Out) - (e \div Out) \in 0 .. ((n - e) \div Out) + 1
    BY <2>1, <2>2
  <2> QED
    BY <2>3, <2>4
<1>8. (a + e) \div Out \in Int /\ a \div Out \in Int
  BY <1>1, <1>5, DivRange
<1> QED
  BY <1>4, <1>5, <1>6, <1>7, <1>8

LEMMA PressureTypes ==
  ASSUME NEW c \in [Word -> Nat], NEW d \in Nat
  PROVE  Sensitivity(c, d) \in Int /\ Offset(c, d) \in Int
<1>1. /\ {TempUnit, OffUnit, OffSlope, SensUnit, SensSlope, TempSlope, Bend} \subseteq Nat \ {0}
      /\ VeryCold \in Nat
  BY BarometerAssumption DEF Positive
<1>2. /\ c[1] \in Nat /\ c[2] \in Nat /\ c[3] \in Nat
      /\ c[4] \in Nat /\ c[5] \in Nat /\ c[6] \in Nat
  BY DEF Word
<1>3. Distance(c, d) \in Int
  BY <1>1, <1>2, Distributes DEF Distance
<1>a. ASSUME NEW i \in Nat, NEW b \in Nat \ {0}
      PROVE  (Distance(c, d) * i) \div b \in Int
  <2> DEFINE x == Distance(c, d) * i
  <2>1. x \in Int
    BY <1>3, Distributes
  <2> HIDE DEF x
  <2>2. x \div b \in Int
    BY <2>1, DivRange
  <2> QED
    BY <2>2 DEF x
<1>4. Degrees(c, d) \in Int
  BY <1>1, <1>2, <1>a DEF Degrees
<1>5. ASSUME NEW h \in {2, 4}, NEW k \in {7, 11}, NEW l \in {1, 2}
      PROVE  Compensation(c, d, h, k, l) \in Int
  <2> DEFINE t == Degrees(c, d)
  <2>1. t \in Int
    BY <1>4
  <2> HIDE DEF t
  <2>2. 5 * ((t * t) \div h) \in Int
    BY <2>1, DivRange, Distributes
  <2>3. k * (((t + VeryCold) * (t + VeryCold)) \div l) \in Int
    BY <1>1, <2>1, DivRange, Distributes
  <2> QED
    BY <2>2, <2>3 DEF Compensation, t
<1>6. Compensation(c, d, 2, 7, 1) \in Int /\ Compensation(c, d, 4, 11, 2) \in Int
  BY <1>5
<1>7. /\ (Distance(c, d) * c[4]) \div OffSlope \in Int
      /\ (Distance(c, d) * c[3]) \div SensSlope \in Int
  BY <1>1, <1>2, <1>a
<1>8. c[2] * OffUnit \in Int /\ c[1] * SensUnit \in Int
  BY <1>1, <1>2, Distributes
<1> QED
  BY <1>6, <1>7, <1>8 DEF Sensitivity, Offset

\* The pressure is of the readings from where it is computed, at the 21st
\* operation: what follows reads the accelerometer.
MbarcAt(k) == k >= 22 => mbarc = Mbarc(C, D["D1"], D["D2"])

PressureInv ==
  /\ C \in [Word -> Nat] /\ D \in [Converter -> Nat] /\ val \in Nat
  /\ boot = <<>> /\ served > 0 => \A k \in 1 .. 46 : Place = k => MbarcAt(k)

LEMMA AxisQuiet ==
  ASSUME served \in Nat, ~undone, ProgramInv, SensorTask, job # <<>>,
         NEW x \in Axis, NEW n \in 1 .. 8, Op = bmx055_read(x)[n]
  PROVE  UNCHANGED <<C, D, mbarc>>
<1> DEFINE p == bmx055_read(x)
<1>0. /\ p[1] = Select(Acc) /\ p[2] = Send(Acc, <<"low", x>>) /\ p[3] = Octet(Acc, 0)
      /\ p[4] = Deselect(Acc, "low", x) /\ p[5] = Select(Acc)
      /\ p[6] = Send(Acc, <<"high", x>>) /\ p[7] = Octet(Acc, 0)
      /\ p[8] = Deselect(Acc, "high", x)
  BY AxisOps
<1>1. \/ Op = Select(Acc) \/ Op = Octet(Acc, 0)
      \/ Op = Send(Acc, <<"low", x>>) \/ Op = Send(Acc, <<"high", x>>)
      \/ Op = Deselect(Acc, "low", x) \/ Op = Deselect(Acc, "high", x)
  <2> HIDE DEF p
  <2> QED
    BY <1>0 DEF p
<1>2. "low" \notin Converter /\ "high" \notin Converter
  BY DEF Converter
<1>3. ASSUME NEW h \in {"low", "high"}, Op = Deselect(Acc, h, x)
      PROVE  UNCHANGED <<C, D, mbarc>>
  BY <1>2, <1>3, DoDeselect
<1>4. ASSUME NEW b, Op = Send(Acc, b)
      PROVE  UNCHANGED <<C, D, mbarc>>
  BY <1>4, DoSend
<1>5. CASE Op = Select(Acc)
  BY <1>5, DoSelect
<1>6. CASE Op = Octet(Acc, 0)
  BY <1>6, DoOctet
<1> QED
  BY <1>1, <1>3, <1>4, <1>5, <1>6

LEMMA PressureSensorStep ==
  ASSUME boot = <<>>, boot' = boot, served \in Nat, ~undone, ProgramInv, PressureInv, ReadTypes',
         SensorTask
  PROVE  PressureInv'
<1>t. C' \in [Word -> Nat] /\ D' \in [Converter -> Nat] /\ val' \in Nat
  BY DEF ReadTypes
<1>1. CASE job # <<>>
  <2>1. job' = Tail(job) /\ served' = served
    BY <1>1, ActionOf
  <2>2. /\ Place \in 1 .. Len(Program) /\ Op = Program[Place] /\ Place' = Place + 1
    BY <1>1, <2>1, ProgramStep
  <2>3. ASSUME served > 0, NEW j \in 1 .. 46, Place' = j
        PROVE  MbarcAt(j)'
    <3>1. PICK k \in 1 .. Len(Program) : k = Place
      BY <2>2
    <3>2. Program = task_sensor /\ k \in 1 .. 45
      BY <2>3, <3>1, ProgramLength
    <3>3. Op = task_sensor[k] /\ j = k + 1
      BY <2>2, <2>3, <3>1, <3>2
    <3>4. CASE k < 21
      BY <3>2, <3>3, <3>4 DEF MbarcAt
    <3>5. CASE k = 21
      <4>1. ~\E c \in Converter, r \in 1 .. 10 : k = ReadsAt(c) + r
        BY <3>5 DEF ReadsAt
      <4>2. ~\E x \in Axis, r \in 1 .. 8 : k = AxisAt(x) + r
        BY <3>5 DEF AxisAt, Axis
      <4>3. Op = Compute
        BY <3>2, <3>3, <4>1, <4>2, TaskAt
      <4>4. C' = C /\ D' = D /\ mbarc' = Mbarc(C, D["D1"], D["D2"])
        BY <1>1, <4>3, DoCompute
      <4> QED
        BY <4>4 DEF MbarcAt
    <3>6. CASE k > 21
      <4>1. ~\E c \in Converter, r \in 1 .. 10 : k = ReadsAt(c) + r
        BY <3>2, <3>6 DEF ReadsAt
      <4>2. PICK x \in Axis, r \in 1 .. 8 : k = AxisAt(x) + r /\ task_sensor[k] = bmx055_read(x)[r]
        <5>1. k \in 1 .. 45 /\ k # 21
          BY <3>2, <3>6
        <5> QED
          BY <4>1, <5>1, TaskAt
      <4>3. UNCHANGED <<C, D, mbarc>>
        BY <1>1, <3>3, <4>2, AxisQuiet
      <4>4. MbarcAt(k)
        <5>1. k \in 1 .. 46 /\ Place = k
          BY <3>1, <3>2
        <5> QED
          BY <2>3, <5>1 DEF PressureInv
      <4>5. mbarc = Mbarc(C, D["D1"], D["D2"])
        BY <3>2, <3>6, <4>4 DEF MbarcAt
      <4> QED
        BY <4>3, <4>5 DEF MbarcAt
    <3> QED
      BY <3>2, <3>4, <3>5, <3>6
  <2> QED
    BY <1>t, <2>1, <2>3 DEF PressureInv
<1>2. CASE job = <<>>
  <2>1. Serve
    BY <1>2 DEF SensorTask, ChipSelect, ChipDeselect, Transfer, ReadOctet, Delay, VerifyProm,
       GetMbarc, Doing
  <2>2. served' = served + 1 /\ job' = task_sensor
    BY <2>1 DEF Serve
  <2>3. Place' = 1
    <3>1. Program' = task_sensor
      BY <2>2 DEF Program
    <3>2. Closed(task_sensor)
      BY ProgramsClosed
    <3> QED
      BY <2>2, <3>1, <3>2, ProgramStarts DEF Place
  <2>4. \A j \in 1 .. 46 : Place' = j => MbarcAt(j)'
    BY <2>3 DEF MbarcAt
  <2> QED
    BY <1>t, <2>4 DEF PressureInv
<1> QED
  BY <1>1, <1>2

LEMMA PressureSteps ==
  ASSUME BoardInv, BoardInv', ~undone, ReadTypes, ReadTypes', PressureInv, [Next]_vars
  PROVE  PressureInv'
<1>1. ASSUME boot = <<>>, SensorTask, UNCHANGED <<boot, alertvars>>
      PROVE  PressureInv'
  <2>1. served \in Nat /\ ProgramInv /\ boot' = boot
    BY <1>1 DEF BoardInv
  <2> QED
    BY <1>1, <2>1, PressureSensorStep
<1>2. CASE Boot
  <2>1. UNCHANGED <<val, C, D, served>> /\ served = 0
    BY <1>2 DEF Boot, BoardInv, StartInv
  <2> QED
    BY <2>1 DEF PressureInv
<1>3. CASE (NewSample /\ UNCHANGED <<boot, alertvars>>) \/ Alert \/ UNCHANGED vars
  <2>1. UNCHANGED <<job, val, C, D, mbarc, served, boot>>
    BY <1>3 DEF NewSample, Alert, Tick, Ignore, BlinkReads, BlinkOn, BlinkOff, BlinkEnd, Show,
       Blink, AlertArrives, vars, sensorvars, driver
  <2>2. Place' = Place /\ \A k : MbarcAt(k)' <=> MbarcAt(k)
    BY <2>1 DEF Place, Program, MbarcAt
  <2> QED
    BY <2>1, <2>2 DEF PressureInv
<1> QED
  BY <1>1, <1>2, <1>3 DEF Next

LEMMA PressureKept == Spec => [](BoardInv /\ (undone \/ (ReadTypes /\ PressureInv)))
<1>1. Init => BoardInv /\ ReadTypes
  BY BoardStarts, ReadStarts DEF ReadInv
<1>2. Init => PressureInv
  <2> SUFFICES ASSUME Init
               PROVE  PressureInv
    OBVIOUS
  <2>1. served = 0
    BY DEF Init, SensorInit
  <2> QED
    BY <1>1, <2>1 DEF PressureInv, ReadTypes
<1>3. BoardInv /\ (undone \/ (ReadTypes /\ PressureInv)) /\ [Next]_vars
        => (BoardInv /\ (undone \/ (ReadTypes /\ PressureInv)))'
  BY BoardSteps, ReadTypesSteps, PressureSteps, UndoneStays
<1> QED
  BY <1>1, <1>2, <1>3, PTL DEF Spec

\* ms5611_get_mbarc: the pressure is never above the one without the early cut
\* of the sensitivity, and below it by no more than D1 / 2^15 + 1; for every
\* calibration, every reading and every width of the shifts, as long as no
\* toggle of a blink has undone what was written to its port.
THEOREM BoardPressureShort == Spec => []PressureShort
<1>1. ASSUME BoardInv, ReadTypes, PressureInv
      PROVE  ShortByCut
  <2> SUFFICES ASSUME Complete
               PROVE  LET exact == Exact(D["D1"], Sensitivity(C, D["D2"]), Offset(C, D["D2"])) IN
                      exact - mbarc \in 0 .. D["D1"] \div Out + 1
    BY DEF ShortByCut
  <2>1. mbarc = Mbarc(C, D["D1"], D["D2"])
    <3>1. boot = <<>>
      BY <1>1 DEF Complete, BoardInv, StartInv
    <3>2. served \in Nat /\ ProgramInv
      BY <1>1, <3>1 DEF BoardInv
    <3>3. Place = 46
      BY <3>2, ProgramEnds DEF Complete
    <3>4. MbarcAt(46)
      BY <1>1, <3>1, <3>3 DEF PressureInv, Complete
    <3> QED
      BY <3>4 DEF MbarcAt
  <2>2. C \in [Word -> Nat] /\ D["D1"] \in Nat /\ D["D2"] \in Nat
    BY <1>1 DEF ReadTypes, Converter
  <2>3. Sensitivity(C, D["D2"]) \in Int /\ Offset(C, D["D2"]) \in Int
    BY <2>2, PressureTypes
  <2> QED
    BY <2>1, <2>2, <2>3, PressureBound DEF Mbarc
<1>2. BoardInv /\ (undone \/ (ReadTypes /\ PressureInv)) => PressureShort
  BY <1>1 DEF PressureShort
<1> QED
  BY PressureKept, <1>2, PTL

-----------------------------------------------------------------------------
(* Induction, halves and quotients                                         *)

\* Induction over the naturals, for a set in place of a property: a least number
\* outside it would have a predecessor in it.
LEMMA SetInduction ==
  ASSUME NEW S, 0 \in S, \A n \in Nat : n \in S => n + 1 \in S
  PROVE  Nat \subseteq S
<1> SUFFICES ASSUME Nat \ S # {} PROVE FALSE
  OBVIOUS
<1>1. PICK m \in Nat \ S : \A k \in Nat \ S : <<k, m>> \notin OpToRel(<, Nat)
  BY WFMin, NatLessThanWellFounded, Zenon
<1>2. \A k \in Nat \ S : ~(k < m)
  BY <1>1 DEF OpToRel
<1>3. m # 0 /\ m - 1 \in Nat /\ m - 1 < m
  OBVIOUS
<1>4. m - 1 \in S
  BY <1>2, <1>3
<1> QED
  BY <1>3, <1>4

LEMMA ShortRange ==
  /\ \A x \in Short : x \in Nat /\ x < 65536
  /\ \A x \in Nat : x < 65536 => x \in Short
<1>0. Byte * Byte = 65536
  BY DEF Byte
<1>1. \A x \in Nat : x \in Short <=> x < 65536
  BY <1>0, SMTT(30) DEF Short
<1>2. \A x \in Short : x \in Nat
  BY <1>0, SMTT(30) DEF Short
<1> QED
  BY <1>1, <1>2

\* The lower bit of a number and the others.
LEMMA Halved ==
  /\ \A x \in Nat : x % 2 \in {0, 1} /\ x \div 2 \in Nat /\ x = 2 * (x \div 2) + (x % 2)
  /\ \A x \in Nat : x # 0 => x \div 2 < x
  /\ \A x, y \in Nat : x % 2 = y % 2 /\ x \div 2 = y \div 2 => x = y
  /\ \A x \in Nat, y \in {0, 1} : (y + 2 * x) % 2 = y /\ (y + 2 * x) \div 2 = x
  /\ \A x \in Short : x \div 2 \in Short
<1>1. \A x \in Nat : x % 2 \in {0, 1} /\ x \div 2 \in Nat /\ x = 2 * (x \div 2) + (x % 2)
  OBVIOUS
<1>2. \A x \in Nat : x # 0 => x \div 2 < x
  OBVIOUS
<1>3. \A x, y \in Nat : x % 2 = y % 2 /\ x \div 2 = y \div 2 => x = y
  OBVIOUS
<1>4. \A x \in Nat, y \in {0, 1} : (y + 2 * x) % 2 = y /\ (y + 2 * x) \div 2 = x
  OBVIOUS
<1>5. \A x \in Short : x \div 2 \in Short
  BY ShortRange
<1> QED
  BY <1>1, <1>2, <1>3, <1>4, <1>5

LEMMA DivMod ==
  /\ \A m \in Nat \ {0}, x \in Nat :
       x \div m \in Nat /\ x % m \in 0 .. m - 1 /\ x = m * (x \div m) + (x % m)
  /\ \A m \in Nat \ {0}, x, q \in Nat :
       \A r \in 0 .. m - 1 : x = m * q + r => x \div m = q /\ x % m = r
<1>1. ASSUME NEW m \in Nat \ {0}, NEW x \in Nat
      PROVE  x \div m \in Nat /\ x % m \in 0 .. m - 1 /\ x = m * (x \div m) + (x % m)
  <2>1. x \div m \in Nat
    BY DivSmall
  <2>2. x \in Int
    OBVIOUS
  <2>3. x % m \in 0 .. m - 1 /\ x = m * (x \div m) + (x % m)
    BY <2>2, DivRange
  <2> QED
    BY <2>1, <2>3
<1>2. ASSUME NEW m \in Nat \ {0}, NEW x \in Nat, NEW q \in Nat, NEW r \in 0 .. m - 1,
             x = m * q + r
      PROVE  x \div m = q /\ x % m = r
  <2>1. x \in Int /\ q \in Int
    OBVIOUS
  <2> QED
    BY <1>2, <2>1, DivUnique
<1> QED
  BY <1>1, <1>2

\* The quotient and the remainder by twice m.
LEMMA TwiceDivided ==
  ASSUME NEW m \in Nat \ {0}, NEW x \in Nat
  PROVE  /\ x \div (2 * m) = (x \div m) \div 2
         /\ (x % (2 * m)) \div 2 = (x \div 2) % m
         /\ (x % (2 * m)) % 2 = x % 2
         /\ x % (2 * m) \in Nat
<1> DEFINE q == x \div 2  r == x % 2  s == q \div m  t == q % m
           u == x \div m  v == x % m  p == u \div 2  o == u % 2
<1>1. q \in Nat /\ r \in 0 .. 1 /\ x = 2 * q + r
  OBVIOUS
<1> HIDE DEF q, r, s, t, u, v
<1>2. s \in Nat /\ t \in 0 .. m - 1 /\ q = m * s + t
  BY <1>1, DivMod, Zenon DEF s, t
<1>3. u \in Nat /\ v \in 0 .. m - 1 /\ x = m * u + v
  BY DivMod, Zenon DEF u, v
<1>4. p \in Nat /\ o \in 0 .. 1 /\ u = 2 * p + o
  BY <1>3
<1> HIDE DEF p, o
<1>5. x = (2 * m) * s + (2 * t + r)
  <2>1. 2 * (m * s + t) = (2 * m) * s + 2 * t /\ (2 * m) * s \in Int
    BY <1>2
  <2> QED
    BY <1>1, <1>2, <2>1
<1>6. x = (2 * m) * p + (m * o + v)
  <2>1. m * (2 * p + o) = (2 * m) * p + m * o /\ (2 * m) * p \in Int /\ m * o \in Int
    BY <1>4
  <2> QED
    BY <1>3, <1>4, <2>1
<1>7. 2 * t + r \in 0 .. 2 * m - 1 /\ 2 * m \in Nat \ {0}
  BY <1>1, <1>2
<1>8. m * o + v \in 0 .. 2 * m - 1
  <2>1. o = 0 \/ o = 1
    BY <1>4
  <2> QED
    BY <1>3, <2>1
<1> DEFINE d == 2 * m  e == 2 * t + r  g == m * o + v
<1>9. e \in 0 .. d - 1 /\ g \in 0 .. d - 1 /\ d \in Nat \ {0} /\ x = d * s + e /\ x = d * p + g
  BY <1>5, <1>6, <1>7, <1>8
<1> HIDE DEF d, e, g
<1>10. x % d = e /\ x \div d = p
  <2>1. ASSUME NEW n \in Nat \ {0}, NEW q1 \in Nat, NEW r1 \in 0 .. n - 1, x = n * q1 + r1
        PROVE  x \div n = q1 /\ x % n = r1
    BY <2>1, DivMod
  <2>2. x % d = e
    BY <1>2, <1>9, <2>1
  <2>3. x \div d = p
    BY <1>4, <1>9, <2>1
  <2> QED
    BY <2>2, <2>3
<1>11. x \div (2 * m) = p /\ x % (2 * m) = 2 * t + r
  BY <1>10 DEF d, e
<1>12. (2 * t + r) % 2 = r /\ (2 * t + r) \div 2 = t /\ 2 * t + r \in Nat
  BY <1>1, <1>2
<1> QED
  BY <1>11, <1>12 DEF p, u, r, t, q

-----------------------------------------------------------------------------
(* The exclusive or                                                        *)

\* The recursive function exists and is what its definition says.
LEMMA XorUnfolds ==
  \A a, b \in Short :
    Xor[a][b] = IF a = 0 THEN b ELSE ((a + b) % 2) + 2 * Xor[a \div 2][b \div 2]
<1> DEFINE Row(a, p) ==
             [b \in Short |-> IF a = 0 THEN b ELSE ((a + b) % 2) + 2 * p[b \div 2]]
           Def(f) == [a \in Short |-> Row(a, f[a \div 2])]
           Grows(f, n) == f = [a \in 0 .. n |-> Row(a, f[a \div 2])]
           S == {n \in Nat : \E f : Grows(f, n)}
<1>1. 0 \in S
  <2> DEFINE f == [a \in 0 .. 0 |-> [b \in Short |-> b]]
  <2>1. Grows(f, 0)
    <3>1. \A a \in 0 .. 0 : a = 0
      OBVIOUS
    <3>2. \A p : Row(0, p) = [b \in Short |-> b]
      OBVIOUS
    <3> QED
      BY <3>1, <3>2
  <2> QED
    BY <2>1
<1>2. ASSUME NEW n \in Nat, n \in S
      PROVE  n + 1 \in S
  <2>1. PICK f : Grows(f, n)
    BY <1>2
  <2> DEFINE g == [a \in 0 .. n + 1 |-> IF a = n + 1 THEN Row(n + 1, f[(n + 1) \div 2]) ELSE f[a]]
  <2>2. \A a \in 0 .. n : a \div 2 \in 0 .. n /\ a # n + 1 /\ a \in 0 .. n + 1
    OBVIOUS
  <2>3. (n + 1) \div 2 \in 0 .. n /\ n + 1 \in 0 .. n + 1
    OBVIOUS
  <2>4. \A a \in 0 .. n + 1 : a = n + 1 \/ a \in 0 .. n
    OBVIOUS
  <2> HIDE DEF Row
  <2>5. \A a \in 0 .. n : g[a] = f[a] /\ f[a] = Row(a, f[a \div 2])
    BY <2>1, <2>2
  <2>6. g[n + 1] = Row(n + 1, f[(n + 1) \div 2])
    BY <2>3
  <2>7. \A a \in 0 .. n : g[a \div 2] = f[a \div 2]
    BY <2>2, <2>5
  <2>8. g[(n + 1) \div 2] = f[(n + 1) \div 2]
    BY <2>3, <2>5
  <2>9. \A a \in 0 .. n + 1 : g[a] = Row(a, g[a \div 2])
    BY <2>4, <2>5, <2>6, <2>7, <2>8
  <2>10. g = [a \in 0 .. n + 1 |-> g[a]]
    OBVIOUS
  <2> HIDE DEF g
  <2>11. Grows(g, n + 1)
    BY <2>9, <2>10
  <2> QED
    BY <2>11
<1>3. \E f : f = Def(f)
  <2>1. Nat \subseteq S
    <3> HIDE DEF S
    <3> QED
      BY <1>1, <1>2, SetInduction
  <2> DEFINE top == Byte * Byte - 1
  <2>2. top \in Nat
    BY DEF Byte
  <2> HIDE DEF top
  <2>3. \E f : Grows(f, top)
    BY <2>1, <2>2
  <2> QED
    BY <2>3 DEF top, Short
<1>4. Xor = CHOOSE f : f = Def(f)
  BY DEF Xor
<1>5. Xor = Def(Xor)
  <2> HIDE DEF Def
  <2> QED
    BY <1>3, <1>4
<1>6. \A a \in Short : Xor[a] = Row(a, Xor[a \div 2])
  <2> HIDE DEF Row
  <2> QED
    BY <1>5
<1>7. \A a, b \in Short : Row(a, Xor[a \div 2])[b] =
        IF a = 0 THEN b ELSE ((a + b) % 2) + 2 * Xor[a \div 2][b \div 2]
  OBVIOUS
<1> QED
  BY <1>6, <1>7

LEMMA XorBits ==
  \A a, b \in Short :
    /\ Xor[a][b] \in Nat
    /\ Xor[a][b] % 2 = (a + b) % 2
    /\ Xor[a][b] \div 2 = Xor[a \div 2][b \div 2]
    /\ Xor[0][b] = b
<1> DEFINE S == {n \in Nat : \A a, b \in Short : a <= n => Xor[a][b] \in Nat}
<1>z. /\ 0 \in Short
      /\ \A b \in Short : b \in Nat /\ b \div 2 \in Short
      /\ \A b \in Short : Xor[0][b] = b
  <2>1. 0 \in Short /\ \A b \in Short : b \in Nat /\ b \div 2 \in Short
    BY ShortRange
  <2> QED
    BY <2>1, XorUnfolds
<1>1. 0 \in S
  <2>1. \A a \in Nat : a <= 0 => a = 0
    OBVIOUS
  <2> QED
    BY <2>1, <1>z
<1>2. ASSUME NEW n \in Nat, n \in S
      PROVE  n + 1 \in S
  <2>1. ASSUME NEW a \in Short, NEW b \in Short, a <= n + 1, a # 0
        PROVE  Xor[a][b] \in Nat
    <3>1. a \in Nat /\ b \in Nat /\ a \div 2 \in Short /\ b \div 2 \in Short
      BY <1>z
    <3>2. a \div 2 <= n
      BY <2>1, <3>1
    <3>3. Xor[a \div 2][b \div 2] \in Nat
      BY <1>2, <3>1, <3>2
    <3>4. (a + b) % 2 \in Nat
      BY <3>1
    <3>5. Xor[a][b] = ((a + b) % 2) + 2 * Xor[a \div 2][b \div 2]
      BY <2>1, XorUnfolds
    <3> QED
      BY <3>3, <3>4, <3>5
  <2>2. \A b \in Short : Xor[0][b] \in Nat
    BY <1>z
  <2>3. \A a, b \in Short : a <= n + 1 => Xor[a][b] \in Nat
    BY <2>1, <2>2
  <2> QED
    BY <2>3
<1>3. Nat \subseteq S
  <2> HIDE DEF S
  <2> QED
    BY <1>1, <1>2, SetInduction
<1>4. \A a, b \in Short : Xor[a][b] \in Nat
  <2>1. \A a \in Short : a \in S /\ a <= a
    BY <1>3, <1>z
  <2> QED
    BY <2>1
<1>5. ASSUME NEW a \in Short, NEW b \in Short
      PROVE  Xor[a][b] % 2 = (a + b) % 2 /\ Xor[a][b] \div 2 = Xor[a \div 2][b \div 2]
  <2>1. a \in Nat /\ b \in Nat /\ a \div 2 \in Short /\ b \div 2 \in Short
    BY <1>z
  <2>2. CASE a = 0
    <3>1. a \div 2 = 0 /\ (a + b) % 2 = b % 2
      BY <2>1, <2>2
    <3> QED
      BY <1>z, <2>1, <2>2, <3>1
  <2>3. CASE a # 0
    <3> DEFINE x == Xor[a \div 2][b \div 2]  y == (a + b) % 2
    <3>1. x \in Nat
      BY <1>4, <2>1
    <3>2. y \in {0, 1}
      BY <2>1
    <3>3. Xor[a][b] = y + 2 * x
      BY <2>3, XorUnfolds
    <3> HIDE DEF x, y
    <3>4. Xor[a][b] % 2 = y /\ Xor[a][b] \div 2 = x
      BY <3>1, <3>2, <3>3, Halved
    <3> QED
      BY <3>4 DEF x, y
  <2> QED
    BY <2>2, <2>3
<1> QED
  BY <1>z, <1>4, <1>5


\* Xor of the quotients and of the remainders by m, as of the numbers themselves.
Digitwise(m) ==
  \A a, b \in Short :
    /\ Xor[a][b] \div m = Xor[a \div m][b \div m]
    /\ Xor[a][b] % m = Xor[a % m][b % m]

LEMMA DigitwiseTwice ==
  ASSUME NEW m \in Nat \ {0}, Digitwise(m)
  PROVE  Digitwise(2 * m)
<1> SUFFICES ASSUME NEW a \in Short, NEW b \in Short
             PROVE  /\ Xor[a][b] \div (2 * m) = Xor[a \div (2 * m)][b \div (2 * m)]
                    /\ Xor[a][b] % (2 * m) = Xor[a % (2 * m)][b % (2 * m)]
  BY DEF Digitwise
<1> DEFINE x == Xor[a][b]
<1>1. /\ a \in Nat /\ b \in Nat /\ x \in Nat
      /\ a \div 2 \in Short /\ b \div 2 \in Short
      /\ x \div 2 = Xor[a \div 2][b \div 2] /\ x % 2 = (a + b) % 2
  BY XorBits, Halved, ShortRange
<1>0. ASSUME NEW c \in Short
      PROVE  /\ c \div m \in Short /\ c % (2 * m) \in Short
             /\ c \div (2 * m) = (c \div m) \div 2
             /\ (c % (2 * m)) \div 2 = (c \div 2) % m
             /\ (c % (2 * m)) % 2 = c % 2
  <2>1. c < 65536
    BY ShortRange
  <2>0. c \in Nat
    BY ShortRange
  <2>2. /\ c \div (2 * m) = (c \div m) \div 2 /\ (c % (2 * m)) \div 2 = (c \div 2) % m
        /\ (c % (2 * m)) % 2 = c % 2
    BY <2>0, TwiceDivided, Zenon
  <2> DEFINE n == 2 * m
  <2>3. n \in Nat \ {0}
    OBVIOUS
  <2> HIDE DEF n
  <2>4. ASSUME NEW k \in Nat \ {0}
        PROVE  c \div k \in Nat /\ c % k \in Nat /\ c \div k <= c /\ c % k <= c
    <3> DEFINE q == c \div k  r == c % k
    <3>1. q \in Nat /\ r \in 0 .. k - 1 /\ c = k * q + r
      BY <2>0, DivMod, Zenon DEF q, r
    <3> HIDE DEF q, r
    <3>2. q <= k * q /\ k * q \in Nat
      BY <3>1, ProductBounds
    <3> QED
      BY <2>0, <3>1, <3>2 DEF q, r
  <2>5. c \div m \in Nat /\ c \div m < 65536
    BY <2>0, <2>1, <2>4
  <2>6. c % n \in Nat /\ c % n < 65536
    BY <2>0, <2>1, <2>3, <2>4
  <2>7. c \div m \in Short /\ c % n \in Short
    BY <2>5, <2>6, ShortRange
  <2> QED
    BY <2>2, <2>7 DEF n
<1>2. x \div (2 * m) = Xor[a \div (2 * m)][b \div (2 * m)]
  <2>1. x \div (2 * m) = (x \div m) \div 2
    BY <1>1, TwiceDivided
  <2>2. x \div m = Xor[a \div m][b \div m]
    BY DEF Digitwise
  <2>3. Xor[a \div m][b \div m] \div 2 = Xor[(a \div m) \div 2][(b \div m) \div 2]
    BY <1>0, XorBits
  <2> HIDE DEF x
  <2> QED
    BY <1>0, <2>1, <2>2, <2>3
<1>3. x % (2 * m) = Xor[a % (2 * m)][b % (2 * m)]
  <2> DEFINE c == a % (2 * m)  d == b % (2 * m)  y == x % (2 * m)  z == Xor[c][d]
  <2>1. /\ y \div 2 = (x \div 2) % m /\ y % 2 = x % 2 /\ y \in Nat
    BY <1>1, TwiceDivided
  <2>2. /\ c \in Short /\ d \in Short /\ c % 2 = a % 2 /\ d % 2 = b % 2
        /\ c \div 2 = (a \div 2) % m /\ d \div 2 = (b \div 2) % m
        /\ c \in Nat /\ d \in Nat
    BY <1>0, ShortRange
  <2> HIDE DEF c, d, y
  <2>3. z \in Nat /\ z % 2 = (c + d) % 2 /\ z \div 2 = Xor[c \div 2][d \div 2]
    BY <2>2, XorBits
  <2>4. (x \div 2) % m = Xor[(a \div 2) % m][(b \div 2) % m]
    <3>1. Xor[a \div 2][b \div 2] % m = Xor[(a \div 2) % m][(b \div 2) % m]
      BY <1>1 DEF Digitwise
    <3> QED
      BY <1>1, <3>1
  <2>5. y \div 2 = z \div 2
    BY <2>1, <2>2, <2>3, <2>4
  <2>6. y % 2 = z % 2
    <3>1. ASSUME NEW i \in Nat, NEW j \in Nat, NEW k \in Nat, NEW l \in Nat,
                 i % 2 = k % 2, j % 2 = l % 2
          PROVE  (i + j) % 2 = (k + l) % 2
      BY <3>1
    <3>2. (c + d) % 2 = (a + b) % 2
      BY <1>1, <2>2, <3>1, SMTT(30)
    <3> QED
      BY <1>1, <2>1, <2>3, <3>2
  <2>7. y = z
    <3> HIDE DEF z
    <3> QED
      BY <2>1, <2>3, <2>5, <2>6, Halved
  <2> QED
    BY <2>7 DEF c, d, y
<1> QED
  BY <1>2, <1>3

LEMMA DigitwiseBits == Digitwise(16) /\ Digitwise(256) /\ Digitwise(4096) /\ Digitwise(32768)
<1>0. Digitwise(1)
  <2>1. \A a \in Nat : a \div 1 = a /\ a % 1 = 0
    OBVIOUS
  <2>2. Xor[0][0] = 0
    <3>1. 0 \in Short
      BY ShortRange
    <3> QED
      BY <3>1, XorBits
  <2>3. ASSUME NEW a \in Short, NEW b \in Short
        PROVE  Xor[a][b] \div 1 = Xor[a \div 1][b \div 1] /\ Xor[a][b] % 1 = Xor[a % 1][b % 1]
    <3>1. a \in Nat /\ b \in Nat /\ Xor[a][b] \in Nat
      BY XorBits, ShortRange
    <3> QED
      BY <2>1, <2>2, <3>1
  <2> QED
    BY <2>3 DEF Digitwise
<1>1. \A m \in Nat \ {0} : Digitwise(m) => Digitwise(2 * m)
  BY DigitwiseTwice
<1> HIDE DEF Digitwise
<1>2. Digitwise(2) /\ Digitwise(4) /\ Digitwise(8) /\ Digitwise(16)
  <2>1. 2 = 2 * 1 /\ 4 = 2 * 2 /\ 8 = 2 * 4 /\ 16 = 2 * 8
    OBVIOUS
  <2>2. Digitwise(2)
    BY <1>0, <1>1, <2>1
  <2>3. Digitwise(4)
    BY <1>1, <2>1, <2>2
  <2>4. Digitwise(8)
    BY <1>1, <2>1, <2>3
  <2> QED
    BY <1>1, <2>1, <2>2, <2>3, <2>4
<1>3. ASSUME NEW m \in Nat \ {0}, Digitwise(m)
      PROVE  Digitwise(16 * m)
  <2>1. Digitwise(2 * m)
    BY <1>1, <1>3
  <2>2. Digitwise(2 * (2 * m))
    BY <1>1, <2>1
  <2>3. Digitwise(2 * (2 * (2 * m)))
    BY <1>1, <2>2
  <2>4. Digitwise(2 * (2 * (2 * (2 * m))))
    BY <1>1, <2>3
  <2>5. 2 * (2 * (2 * (2 * m))) = 16 * m
    OBVIOUS
  <2> QED
    BY <2>4, <2>5
<1>4. 256 = 16 * 16 /\ 4096 = 16 * 256 /\ 128 = 16 * 8 /\ 2048 = 16 * 128 /\ 32768 = 16 * 2048
  OBVIOUS
<1>5. Digitwise(256)
  BY <1>2, <1>3, <1>4
<1>6. Digitwise(4096)
  BY <1>3, <1>4, <1>5
<1>7. Digitwise(128)
  BY <1>2, <1>3, <1>4
<1>8. Digitwise(2048)
  BY <1>3, <1>4, <1>7
<1>9. Digitwise(32768)
  BY <1>3, <1>4, <1>8
<1> QED
  BY <1>2, <1>5, <1>6, <1>9

\* Xor stays within 16 bits, and within n of the powers it is digitwise in.
LEMMA XorRange ==
  /\ \A a, b \in Short : Xor[a][b] \in Short
  /\ \A a, b \in 0 .. 15 : Xor[a][b] \in 0 .. 15
<1>1. ASSUME NEW m \in Nat \ {0}, Digitwise(m), NEW a \in Short, NEW b \in Short,
             a \div m = 0, b \div m = 0
      PROVE  Xor[a][b] < m
  <2> DEFINE x == Xor[a][b]
  <2>1. x \in Nat /\ x \div m = 0
    <3>1. Xor[0][0] = 0
      <4>1. 0 \in Short
        BY ShortRange
      <4> QED
        BY <4>1, XorBits
    <3> QED
      BY <1>1, <3>1, XorBits DEF Digitwise
  <2> HIDE DEF x
  <2>2. x % m \in 0 .. m - 1 /\ x = m * (x \div m) + (x % m)
    BY <2>1, DivMod, Zenon
  <2>3. x = m * 0 + (x % m)
    BY <2>1, <2>2, Zenon
  <2>4. x < m
    BY <2>2, <2>3
  <2> QED
    BY <2>4 DEF x
<1>2. ASSUME NEW a \in Short, NEW b \in Short
      PROVE  Xor[a][b] \in Short
  <2> DEFINE h == 32768  x == Xor[a][b]
  <2>1. a \in Nat /\ b \in Nat /\ x \in Nat /\ a < 65536 /\ b < 65536
    BY XorBits, ShortRange
  <2>2. x \div h = Xor[a \div h][b \div h]
    BY DigitwiseBits DEF Digitwise
  <2> HIDE DEF x
  <2>3. a \div h \in {0, 1} /\ b \div h \in {0, 1}
    BY <2>1
  <2>4. \A i, j \in {0, 1} : Xor[i][j] \in {0, 1}
    <3>1. 0 \in Short /\ 1 \in Short
      BY ShortRange
    <3>2. Xor[0][0] = 0 /\ Xor[0][1] = 1
      BY <3>1, XorBits
    <3>3. ASSUME NEW j \in {0, 1}
          PROVE  Xor[1][j] \in {0, 1}
      <4>1. Xor[1][j] = ((1 + j) % 2) + 2 * Xor[1 \div 2][j \div 2]
        BY <3>1, XorUnfolds
      <4>2. 1 \div 2 = 0 /\ j \div 2 = 0 /\ (1 + j) % 2 \in {0, 1}
        OBVIOUS
      <4> QED
        BY <3>2, <4>1, <4>2
    <3> QED
      BY <3>2, <3>3
  <2>5. x \div h \in {0, 1}
    BY <2>2, <2>3, <2>4
  <2>6. x < 65536
    BY <2>1, <2>5
  <2> QED
    BY <2>1, <2>6, ShortRange DEF x
<1>3. ASSUME NEW a \in 0 .. 15, NEW b \in 0 .. 15
      PROVE  Xor[a][b] \in 0 .. 15
  <2>1. a \in Short /\ b \in Short /\ a \div 16 = 0 /\ b \div 16 = 0
    BY ShortRange
  <2>2. Xor[a][b] < 16 /\ Xor[a][b] \in Nat
    BY <1>1, <2>1, DigitwiseBits, XorBits
  <2> QED
    BY <2>2
<1> QED
  BY <1>2, <1>3


LEMMA Parities ==
  \A p, q, i, j \in Nat : p % 2 = i % 2 /\ q % 2 = j % 2 => (p + q) % 2 = (i + j) % 2
<1>1. ASSUME NEW p \in Nat, NEW q \in Nat, NEW i \in Nat, NEW j \in Nat,
             p % 2 = i % 2, q % 2 = j % 2
      PROVE  (p + q) % 2 = (i + j) % 2
  BY <1>1
<1> QED
  BY <1>1

\* In a Xor of two Xors the inner two numbers may be swapped.
XorMedial(a, b, c, d) == Xor[Xor[a][b]][Xor[c][d]] = Xor[Xor[a][c]][Xor[b][d]]

LEMMA XorLaws ==
  \A a, b, c, d \in Short :
    /\ XorMedial(a, b, c, d)
    /\ Xor[a][a] = 0 /\ Xor[a][0] = a /\ Xor[0][a] = a
<1> DEFINE Laws(a, b, c, d) == XorMedial(a, b, c, d) /\ Xor[a][a] = 0 /\ Xor[a][0] = a
           S == {n \in Nat : \A a, b, c, d \in Short : ((a + b) + c) + d <= n => Laws(a, b, c, d)}
<1>z. /\ 0 \in Short /\ Xor[0][0] = 0
      /\ \A a \in Short : a \in Nat /\ a \div 2 \in Short /\ Xor[0][a] = a
  BY XorBits, Halved, ShortRange
<1>1. 0 \in S
  <2>1. ASSUME NEW a \in Nat, NEW b \in Nat, NEW c \in Nat, NEW d \in Nat,
               ((a + b) + c) + d <= 0
        PROVE  a = 0 /\ b = 0 /\ c = 0 /\ d = 0
    BY <2>1
  <2>2. Laws(0, 0, 0, 0)
    BY <1>z DEF XorMedial
  <2> HIDE DEF Laws
  <2>3. ASSUME NEW a \in Short, NEW b \in Short, NEW c \in Short, NEW d \in Short,
               ((a + b) + c) + d <= 0
        PROVE  Laws(a, b, c, d)
    <3>1. a = 0 /\ b = 0 /\ c = 0 /\ d = 0
      BY <1>z, <2>1, <2>3
    <3> QED
      BY <2>2, <3>1
  <2> QED
    BY <2>3
<1>2. ASSUME NEW n \in Nat, n \in S
      PROVE  n + 1 \in S
  <2>1. ASSUME NEW a \in Short, NEW b \in Short, NEW c \in Short, NEW d \in Short,
               ((a + b) + c) + d <= n + 1
        PROVE  Laws(a, b, c, d)
    <3> DEFINE e == a \div 2  f == b \div 2  g == c \div 2  h == d \div 2
    <3>1. /\ a \in Nat /\ b \in Nat /\ c \in Nat /\ d \in Nat
          /\ e \in Short /\ f \in Short /\ g \in Short /\ h \in Short
      BY <1>z
    <3>2. CASE ((a + b) + c) + d <= n
      <4> HIDE DEF Laws
      <4> QED
        BY <1>2, <3>2
    <3>3. CASE ((a + b) + c) + d = n + 1
      <4>1. ((e + f) + g) + h <= n
        BY <3>1, <3>3
      <4>2. Laws(e, f, g, h)
        <5> HIDE DEF Laws, e, f, g, h
        <5> QED
          BY <1>2, <3>1, <4>1
      <4> HIDE DEF e, f, g, h
      <4>3. ASSUME NEW x \in Short, NEW y \in Short
            PROVE  /\ Xor[x][y] \in Short /\ Xor[x][y] \in Nat
                   /\ Xor[x][y] % 2 = (x + y) % 2
                   /\ Xor[x][y] \div 2 = Xor[x \div 2][y \div 2]
        BY XorBits, XorRange
      <4>4. Xor[a][a] = 0
        <5>1. Xor[a][a] \div 2 = 0
          BY <4>2, <4>3 DEF e
        <5>2. Xor[a][a] \in Nat /\ Xor[a][a] % 2 = (a + a) % 2
          BY <4>3
        <5>3. (a + a) % 2 = 0
          BY <3>1
        <5>4. \A x \in Nat : x \div 2 = 0 /\ x % 2 = 0 => x = 0
          OBVIOUS
        <5> QED
          BY <5>1, <5>2, <5>3, <5>4
      <4>5. Xor[a][0] = a
        <5>1. Xor[a][0] \div 2 = a \div 2
          <6>1. 0 \div 2 = 0
            OBVIOUS
          <6>2. Xor[a][0] \div 2 = Xor[a \div 2][0 \div 2]
            BY <1>z, <4>3
          <6>3. Xor[e][0] = e
            BY <4>2
          <6> QED
            BY <6>1, <6>2, <6>3, Zenon DEF e
        <5>2. Xor[a][0] \in Nat /\ Xor[a][0] % 2 = (a + 0) % 2
          BY <1>z, <4>3
        <5>3. (a + 0) % 2 = a % 2
          BY <3>1
        <5> QED
          BY <3>1, <5>1, <5>2, <5>3, Halved
      <4>6. XorMedial(a, b, c, d)
        <5> DEFINE p == Xor[a][b]  q == Xor[c][d]  r == Xor[a][c]  s == Xor[b][d]
                   x == Xor[p][q]  y == Xor[r][s]
        <5>1. /\ p \in Short /\ p \in Nat /\ p % 2 = (a + b) % 2 /\ p \div 2 = Xor[e][f]
              /\ q \in Short /\ q \in Nat /\ q % 2 = (c + d) % 2 /\ q \div 2 = Xor[g][h]
              /\ r \in Short /\ r \in Nat /\ r % 2 = (a + c) % 2 /\ r \div 2 = Xor[e][g]
              /\ s \in Short /\ s \in Nat /\ s % 2 = (b + d) % 2 /\ s \div 2 = Xor[f][h]
          BY <4>3 DEF e, f, g, h
        <5> HIDE DEF p, q, r, s
        <5>2. /\ x \in Nat /\ x % 2 = (p + q) % 2 /\ x \div 2 = Xor[p \div 2][q \div 2]
              /\ y \in Nat /\ y % 2 = (r + s) % 2 /\ y \div 2 = Xor[r \div 2][s \div 2]
          BY <4>3, <5>1
        <5>3. (p + q) % 2 = (r + s) % 2
          <6> DEFINE i == a + b  j == c + d  k == a + c  l == b + d
          <6>1. i \in Nat /\ j \in Nat /\ k \in Nat /\ l \in Nat /\ i + j = k + l
            BY <3>1
          <6>2. p % 2 = i % 2 /\ q % 2 = j % 2 /\ r % 2 = k % 2 /\ s % 2 = l % 2
            BY <5>1
          <6> HIDE DEF i, j, k, l
          <6>3. (p + q) % 2 = (i + j) % 2
            BY <5>1, <6>1, <6>2, Parities
          <6>4. (r + s) % 2 = (k + l) % 2
            BY <5>1, <6>1, <6>2, Parities
          <6> QED
            BY <6>1, <6>3, <6>4
        <5>4. x \div 2 = y \div 2
          BY <4>2, <5>1, <5>2 DEF XorMedial
        <5> HIDE DEF x, y
        <5>5. x % 2 = y % 2
          BY <5>2, <5>3
        <5>6. x = y
          BY <5>2, <5>4, <5>5, Halved
        <5> QED
          BY <5>6 DEF XorMedial, x, y, p, q, r, s
      <4> QED
        BY <4>4, <4>5, <4>6
    <3>4. ((a + b) + c) + d <= n \/ ((a + b) + c) + d = n + 1
      BY <2>1, <3>1
    <3> QED
      BY <3>2, <3>3, <3>4
  <2> HIDE DEF Laws
  <2> QED
    BY <2>1
<1>3. Nat \subseteq S
  <2> HIDE DEF S
  <2> QED
    BY <1>1, <1>2, SetInduction
<1>4. ASSUME NEW a \in Short, NEW b \in Short, NEW c \in Short, NEW d \in Short
      PROVE  Laws(a, b, c, d)
  <2> HIDE DEF Laws
  <2> DEFINE n == ((a + b) + c) + d
  <2>0. \A i, j, k, l \in Nat : ((i + j) + k) + l \in Nat /\ ((i + j) + k) + l <= ((i + j) + k) + l
    OBVIOUS
  <2>1. n \in Nat /\ n <= n
    BY <1>z, <2>0, Zenon
  <2>2. n \in S
    BY <1>3, <2>1
  <2> QED
    BY <2>1, <2>2
<1> QED
  BY <1>z, <1>4

\* Xor with a undoes itself.
LEMMA XorGroup ==
  \A a, b, c \in Short :
    /\ Xor[a][Xor[a][b]] = b
    /\ Xor[a][b] = 0 => a = b
<1>1. 0 \in Short
  BY ShortRange
<1>2. ASSUME NEW a \in Short, NEW b \in Short
      PROVE  Xor[a][Xor[a][b]] = b
  <2>1. XorMedial(a, 0, a, b)
    BY <1>1, XorLaws
  <2> QED
    BY <1>1, <2>1, XorLaws DEF XorMedial
<1>3. ASSUME NEW a \in Short, NEW b \in Short, Xor[a][b] = 0
      PROVE  a = b
  <2>1. Xor[a][0] = b
    BY <1>2, <1>3
  <2> QED
    BY <2>1, XorLaws
<1> QED
  BY <1>2, <1>3


\* The two parts of a shift: what is doubled, and what is added for the bit
\* that falls out.
Doubled(x) == 2 * (x % 32768)
Folded(x) == IF x >= 32768 THEN 12288 ELSE 0

LEMMA ShiftParts ==
  \A x \in Short :
    /\ Doubled(x) \in Short /\ Folded(x) \in Short /\ OneShift(x) \in Short
    /\ OneShift(x) = Xor[Doubled(x)][Folded(x)]
    /\ Doubled(x) \div 2 = x % 32768 /\ Doubled(x) % 2 = 0
    /\ x < 32768 => OneShift(x) = 2 * x
<1> SUFFICES ASSUME NEW x \in Short
             PROVE  /\ Doubled(x) \in Short /\ Folded(x) \in Short /\ OneShift(x) \in Short
                    /\ OneShift(x) = Xor[Doubled(x)][Folded(x)]
                    /\ Doubled(x) \div 2 = x % 32768 /\ Doubled(x) % 2 = 0
                    /\ x < 32768 => OneShift(x) = 2 * x
  OBVIOUS
<1>1. x \in Nat /\ x < 65536
  BY ShortRange
<1>2. /\ Doubled(x) \in Nat /\ Doubled(x) < 65536
      /\ Doubled(x) \div 2 = x % 32768 /\ Doubled(x) % 2 = 0
      /\ x < 32768 => Doubled(x) = 2 * x
      /\ (2 * x) % 65536 = Doubled(x)
  BY <1>1 DEF Doubled
<1>3. Folded(x) \in Nat /\ Folded(x) < 65536
  BY DEF Folded
<1>4. Doubled(x) \in Short /\ Folded(x) \in Short
  BY <1>2, <1>3, ShortRange
<1>5. Byte * Byte = 65536
  BY DEF Byte
<1>6. CASE x >= 32768
  <2>1. OneShift(x) = Xor[(2 * x) % (Byte * Byte)][12288] /\ Folded(x) = 12288
    BY <1>6 DEF OneShift, Folded
  <2>2. OneShift(x) = Xor[Doubled(x)][Folded(x)]
    BY <1>2, <1>5, <2>1
  <2>3. OneShift(x) \in Short
    BY <1>4, <2>2, XorRange
  <2>4. ~(x < 32768)
    BY <1>1, <1>6
  <2> QED
    BY <1>2, <1>4, <2>2, <2>3, <2>4
<1>7. CASE x < 32768
  <2>0. ~(x >= 32768)
    BY <1>1, <1>7
  <2>1. OneShift(x) = 2 * x /\ Folded(x) = 0
    BY <2>0 DEF OneShift, Folded
  <2>2. OneShift(x) = Doubled(x)
    BY <1>2, <1>7, <2>1
  <2>3. Xor[Doubled(x)][0] = Doubled(x)
    BY <1>4, XorLaws
  <2> QED
    BY <1>2, <1>4, <2>1, <2>2, <2>3
<1> QED
  BY <1>1, <1>6, <1>7

\* A shift goes through a Xor.
LEMMA ShiftLinear ==
  \A x, y \in Short : Xor[OneShift(x)][OneShift(y)] = OneShift(Xor[x][y])
<1> SUFFICES ASSUME NEW x \in Short, NEW y \in Short
             PROVE  Xor[OneShift(x)][OneShift(y)] = OneShift(Xor[x][y])
  OBVIOUS
<1> DEFINE z == Xor[x][y]  h == 32768
<1>1. z \in Short /\ z \div h = Xor[x \div h][y \div h] /\ z % h = Xor[x % h][y % h]
  <2>1. z \in Short
    BY XorRange
  <2>2. Digitwise(h)
    BY DigitwiseBits
  <2> HIDE DEF h
  <2>3. z \div h = Xor[x \div h][y \div h] /\ z % h = Xor[x % h][y % h]
    BY <2>2, Zenon DEF Digitwise
  <2> QED
    BY <2>1, <2>3
<1>2. x \in Nat /\ y \in Nat /\ z \in Nat /\ x < 65536 /\ y < 65536 /\ z < 65536
  BY <1>1, ShortRange
<1> HIDE DEF z
<1>3. Xor[Doubled(x)][Doubled(y)] = Doubled(z)
  <2> DEFINE d == Doubled(x)  e == Doubled(y)  w == Xor[d][e]  v == Doubled(z)
  <2>1. /\ d \in Short /\ e \in Short /\ d \div 2 = x % h /\ e \div 2 = y % h
        /\ d % 2 = 0 /\ e % 2 = 0 /\ v \in Short /\ v \div 2 = z % h /\ v % 2 = 0
    BY <1>1, ShiftParts
  <2> HIDE DEF d, e, v
  <2>2. w \in Nat /\ w \div 2 = z % h /\ w % 2 = (d + e) % 2
    <3>1. w \in Nat /\ w \div 2 = Xor[d \div 2][e \div 2] /\ w % 2 = (d + e) % 2
      BY <2>1, XorBits
    <3> HIDE DEF h
    <3> QED
      BY <1>1, <2>1, <3>1
  <2>3. d \in Nat /\ e \in Nat /\ v \in Nat
    BY <2>1, ShortRange
  <2>4. (d + e) % 2 = 0
    BY <2>1, <2>3
  <2> HIDE DEF w, h
  <2>5. w \div 2 = v \div 2 /\ w % 2 = v % 2
    BY <2>1, <2>2, <2>4
  <2>6. w = v
    BY <2>2, <2>3, <2>5, Halved
  <2> QED
    BY <2>6 DEF w, v, d, e
<1>4. Xor[Folded(x)][Folded(y)] = Folded(z)
  <2>1. \A i \in Nat : i < 65536 =>
          /\ i >= h => i \div h = 1
          /\ ~(i >= h) => i \div h = 0
    OBVIOUS
  <2>2. Xor[0][0] = 0 /\ Xor[1][1] = 0 /\ Xor[0][1] = 1 /\ Xor[1][0] = 1
    <3>1. 0 \in Short /\ 1 \in Short
      BY ShortRange
    <3> QED
      BY <3>1, XorLaws
  <2>3. z >= h <=> ~(x >= h <=> y >= h)
    <3>1. CASE x >= h /\ y >= h
      <4>1. z \div h = 0
        <5>1. x \div h = 1 /\ y \div h = 1
          BY <1>2, <2>1, <3>1
        <5> HIDE DEF h
        <5> QED
          BY <1>1, <2>2, <5>1
      <4> QED
        BY <1>2, <2>1, <3>1, <4>1
    <3>2. CASE ~(x >= h) /\ ~(y >= h)
      <4>1. z \div h = 0
        <5>1. x \div h = 0 /\ y \div h = 0
          BY <1>2, <2>1, <3>2
        <5> HIDE DEF h
        <5> QED
          BY <1>1, <2>2, <5>1
      <4> QED
        BY <1>2, <2>1, <3>2, <4>1
    <3>3. CASE x >= h /\ ~(y >= h)
      <4>1. z \div h = 1
        <5>1. x \div h = 1 /\ y \div h = 0
          BY <1>2, <2>1, <3>3
        <5> HIDE DEF h
        <5> QED
          BY <1>1, <2>2, <5>1
      <4> QED
        BY <1>2, <2>1, <3>3, <4>1
    <3>4. CASE ~(x >= h) /\ y >= h
      <4>1. z \div h = 1
        <5>1. x \div h = 0 /\ y \div h = 1
          BY <1>2, <2>1, <3>4
        <5> HIDE DEF h
        <5> QED
          BY <1>1, <2>2, <5>1
      <4> QED
        BY <1>2, <2>1, <3>4, <4>1
    <3> QED
      BY <3>1, <3>2, <3>3, <3>4
  <2> DEFINE c == 12288
  <2>4. /\ Xor[0][0] = 0 /\ Xor[c][c] = 0 /\ Xor[0][c] = c /\ Xor[c][0] = c
    <3>1. 0 \in Short /\ c \in Short
      BY ShortRange
    <3> HIDE DEF c
    <3> QED
      BY <3>1, XorLaws
  <2>5. \A i \in {x, y, z} : Folded(i) = IF i >= h THEN c ELSE 0
    BY DEF Folded
  <2> HIDE DEF c, h
  <2> QED
    BY <2>3, <2>4, <2>5
<1>5. XorMedial(Doubled(x), Folded(x), Doubled(y), Folded(y))
  BY ShiftParts, XorLaws
<1>6. /\ OneShift(x) = Xor[Doubled(x)][Folded(x)] /\ OneShift(y) = Xor[Doubled(y)][Folded(y)]
      /\ OneShift(z) = Xor[Doubled(z)][Folded(z)]
  BY <1>1, ShiftParts
<1> QED
  BY <1>3, <1>4, <1>5, <1>6, Zenon DEF XorMedial, z

\* f is the recursive function over 0 .. k whose n-th step is G[n]; there is one.
Iterates(f, k, T, base, G) ==
  /\ f \in [0 .. k -> T]
  /\ f[0] = base /\ \A n \in 1 .. k : f[n] = G[n][f[n - 1]]

LEMMA Iterated ==
  ASSUME NEW k \in Nat, NEW T, NEW base \in T, NEW G \in [1 .. k -> [T -> T]]
  PROVE  \E f : Iterates(f, k, T, base, G)
<1> DEFINE Goes(f, j) == /\ f \in [0 .. j -> T]
                         /\ f[0] = base /\ \A n \in 1 .. j : f[n] = G[n][f[n - 1]]
           S == {j \in Nat : j <= k => \E f : Goes(f, j)}
<1>1. 0 \in S
  <2> DEFINE f == [n \in 0 .. 0 |-> base]
  <2>1. Goes(f, 0)
    OBVIOUS
  <2> QED
    BY <2>1
<1>2. ASSUME NEW j \in Nat, j \in S
      PROVE  j + 1 \in S
  <2> SUFFICES ASSUME j + 1 <= k
               PROVE  \E f : Goes(f, j + 1)
    OBVIOUS
  <2>1. PICK f : Goes(f, j)
    BY <1>2
  <2> DEFINE last == G[j + 1][f[j]]
             g == [n \in 0 .. j + 1 |-> IF n = j + 1 THEN last ELSE f[n]]
  <2>2. last \in T
    <3>1. f[j] \in T /\ j + 1 \in 1 .. k
      BY <2>1
    <3>2. G[j + 1] \in [T -> T]
      BY <3>1
    <3> QED
      BY <3>1, <3>2
  <2>3. \A n \in 0 .. j : n # j + 1 /\ n \in 0 .. j + 1 /\ f[n] \in T
    BY <2>1
  <2>4. \A n \in 1 .. j : n \in 0 .. j /\ n - 1 \in 0 .. j
    OBVIOUS
  <2>5. \A n \in 0 .. j + 1 : n = j + 1 \/ n \in 0 .. j
    OBVIOUS
  <2>6. \A n \in 1 .. j + 1 : n = j + 1 \/ n \in 1 .. j
    OBVIOUS
  <2>7. 0 \in 0 .. j /\ j \in 0 .. j /\ (j + 1) - 1 = j /\ j + 1 \in 0 .. j + 1
    OBVIOUS
  <2> HIDE DEF last
  <2>8. (\A n \in 0 .. j : g[n] = f[n]) /\ g[j + 1] = last
    BY <2>3, <2>7
  <2>9. g \in [0 .. j + 1 -> T]
    BY <2>2, <2>3, <2>5
  <2> HIDE DEF g
  <2>10. g[0] = base
    BY <2>1, <2>7, <2>8
  <2>11. \A n \in 1 .. j + 1 : g[n] = G[n][g[n - 1]]
    <3>1. g[j + 1] = G[j + 1][g[(j + 1) - 1]]
      BY <2>7, <2>8 DEF last
    <3>2. \A n \in 1 .. j : g[n] = G[n][g[n - 1]]
      BY <2>1, <2>4, <2>8
    <3> QED
      BY <2>6, <3>1, <3>2
  <2> QED
    BY <2>9, <2>10, <2>11
<1>3. Nat \subseteq S
  <2> HIDE DEF S
  <2> QED
    BY <1>1, <1>2, SetInduction
<1>4. PICK f : Goes(f, k)
  <2>1. k \in S /\ k <= k
    BY <1>3
  <2> QED
    BY <2>1
<1> QED
  BY <1>4 DEF Iterates

LEMMA ShiftedUnfolds ==
  \A x \in Short :
    /\ Shifted[0][x] = x
    /\ \A n \in 1 .. 8 : Shifted[n][x] = Shifted[n - 1][OneShift(x)]
<1> DEFINE T == [Short -> Short]
           base == [x \in Short |-> x]
           G == [n \in 1 .. 8 |-> [p \in T |-> [x \in Short |-> p[OneShift(x)]]]]
           Def(f) == [n \in 0 .. 8 |->
                        [x \in Short |-> IF n = 0 THEN x ELSE f[n - 1][OneShift(x)]]]
<1>0. \A x \in Short : OneShift(x) \in Short
  BY ShiftParts
<1>1. base \in T
  OBVIOUS
<1>2. \A p \in T : [x \in Short |-> p[OneShift(x)]] \in T
  BY <1>0
<1>3. G \in [1 .. 8 -> [T -> T]]
  BY <1>2
<1>4. PICK f : Iterates(f, 8, T, base, G)
  <2> HIDE DEF T, base, G
  <2>1. 8 \in Nat
    OBVIOUS
  <2> QED
    BY <1>1, <1>3, <2>1, Iterated, Zenon
<1>a. f \in [0 .. 8 -> T] /\ f[0] = base /\ \A n \in 1 .. 8 : f[n] = G[n][f[n - 1]]
  <2> HIDE DEF T, base, G
  <2> QED
    BY <1>4 DEF Iterates
<1>5. f = Def(f)
  <2> DEFINE row(n) == [x \in Short |-> IF n = 0 THEN x ELSE f[n - 1][OneShift(x)]]
  <2>1. \A n \in 0 .. 8 : n # 0 => n - 1 \in 0 .. 8 /\ n \in 1 .. 8
    OBVIOUS
  <2>2. \A n \in 0 .. 8 : n # 0 => f[n - 1] \in T
    <3> HIDE DEF T
    <3> QED
      BY <1>a, <2>1
  <2>3. \A n \in 0 .. 8 : n # 0 => G[n][f[n - 1]] = [x \in Short |-> f[n - 1][OneShift(x)]]
    <3> HIDE DEF T
    <3> QED
      BY <2>1, <2>2
  <2>4. \A n \in 0 .. 8 : n # 0 => row(n) = [x \in Short |-> f[n - 1][OneShift(x)]]
    OBVIOUS
  <2>5. row(0) = base
    OBVIOUS
  <2>6. f = [n \in 0 .. 8 |-> f[n]]
    <3> HIDE DEF T
    <3> QED
      BY <1>a
  <2> HIDE DEF row, base, G, T
  <2>7. \A n \in 0 .. 8 : f[n] = row(n)
    BY <1>a, <2>1, <2>3, <2>4, <2>5
  <2>8. f = [n \in 0 .. 8 |-> row(n)]
    BY <2>6, <2>7
  <2> QED
    BY <2>8 DEF row
<1>6. Shifted = Def(Shifted)
  <2> HIDE DEF Def
  <2>1. Shifted = CHOOSE g : g = Def(g)
    BY DEF Shifted, Def
  <2> QED
    BY <1>5, <2>1
<1>7. \A n \in 0 .. 8, x \in Short :
        Shifted[n][x] = IF n = 0 THEN x ELSE Shifted[n - 1][OneShift(x)]
  <2> DEFINE Row(n) == [x \in Short |-> IF n = 0 THEN x ELSE Shifted[n - 1][OneShift(x)]]
  <2>1. Shifted = [n \in 0 .. 8 |-> Row(n)]
    BY <1>6
  <2>2. \A n \in 0 .. 8 : Shifted[n] = Row(n)
    <3> HIDE DEF Row
    <3> QED
      BY <2>1
  <2>3. \A n \in 0 .. 8, x \in Short :
          Row(n)[x] = IF n = 0 THEN x ELSE Shifted[n - 1][OneShift(x)]
    OBVIOUS
  <2> HIDE DEF Row
  <2> QED
    BY <2>2, <2>3
<1>8. \A n \in 1 .. 8 : n \in 0 .. 8 /\ n # 0
  OBVIOUS
<1>9. 0 \in 0 .. 8
  OBVIOUS
<1> QED
  BY <1>7, <1>8, <1>9

\* Shifting all the bits of a byte goes through a Xor too.
LEMMA ShiftedLinear ==
  \A n \in 0 .. 8, x, y \in Short :
    /\ Shifted[n][x] \in Short
    /\ Xor[Shifted[n][x]][Shifted[n][y]] = Shifted[n][Xor[x][y]]
<1> DEFINE Good(n) == \A x, y \in Short :
                        /\ Shifted[n][x] \in Short
                        /\ Xor[Shifted[n][x]][Shifted[n][y]] = Shifted[n][Xor[x][y]]
           S == {n \in Nat : n <= 8 => Good(n)}
<1>1. 0 \in S
  BY ShiftedUnfolds, XorRange
<1>2. ASSUME NEW n \in Nat, n \in S
      PROVE  n + 1 \in S
  <2>1. ASSUME n + 1 <= 8, NEW x \in Short, NEW y \in Short
        PROVE  /\ Shifted[n + 1][x] \in Short
               /\ Xor[Shifted[n + 1][x]][Shifted[n + 1][y]] = Shifted[n + 1][Xor[x][y]]
    <3>1. n + 1 \in 1 .. 8 /\ (n + 1) - 1 = n /\ n <= 8
      BY <2>1
    <3>2. \A z \in Short : Shifted[n + 1][z] = Shifted[n][OneShift(z)]
      BY <3>1, ShiftedUnfolds
    <3>3. /\ Xor[x][y] \in Short /\ OneShift(x) \in Short /\ OneShift(y) \in Short
          /\ Xor[OneShift(x)][OneShift(y)] = OneShift(Xor[x][y])
      <4>1. Xor[x][y] \in Short
        BY XorRange
      <4>2. OneShift(x) \in Short /\ OneShift(y) \in Short
        BY ShiftParts
      <4> QED
        BY <4>1, <4>2, ShiftLinear
    <3>4. Good(n)
      BY <1>2, <3>1
    <3>5. /\ Shifted[n][OneShift(x)] \in Short
          /\ Xor[Shifted[n][OneShift(x)]][Shifted[n][OneShift(y)]]
               = Shifted[n][Xor[OneShift(x)][OneShift(y)]]
      BY <3>3, <3>4
    <3> QED
      BY <3>2, <3>3, <3>5
  <2> QED
    BY <2>1
<1>3. Nat \subseteq S
  <2> HIDE DEF S
  <2> QED
    BY <1>1, <1>2, SetInduction
<1>4. \A n \in 0 .. 8 : Good(n)
  <2> HIDE DEF Good
  <2>1. \A n \in 0 .. 8 : n \in Nat /\ n <= 8
    OBVIOUS
  <2> QED
    BY <1>3, <2>1
<1> QED
  BY <1>4


\* The remainders in which only the four bits of the CRC differ, and those in
\* which one of the low eight does.
Top == {z \in Short : z # 0 /\ z % 4096 = 0}
LowBits == {1, 2, 4, 8, 16, 32, 64, 128}

\* What differs at the top still does after any number of shifts.
LEMMA TopShifted ==
  \A n \in 0 .. 8, z \in Top : Shifted[n][z] \in Top
<1>1. ASSUME NEW z \in Top
      PROVE  OneShift(z) \in Top
  <2>1. z \in Short /\ z \in Nat /\ z # 0 /\ z % 4096 = 0 /\ z < 65536
    BY ShortRange DEF Top
  <2>2. /\ OneShift(z) \in Short /\ Doubled(z) \in Short /\ Folded(z) \in Short
        /\ OneShift(z) = Xor[Doubled(z)][Folded(z)]
        /\ z < 32768 => OneShift(z) = 2 * z
    BY <2>1, ShiftParts
  <2>3. CASE z < 32768
    <3>1. 2 * z # 0 /\ (2 * z) % 4096 = 0
      BY <2>1
    <3> QED
      BY <2>2, <2>3, <3>1 DEF Top
  <2>4. CASE z >= 32768
    <3> DEFINE c == 12288  d == Doubled(z)  m == 4096
    <3>1. Folded(z) = c
      BY <2>4 DEF Folded
    <3>2. d % m = 0 /\ d # c /\ c % m = 0
      BY <2>1 DEF Doubled
    <3>3. d \in Short /\ c \in Short /\ OneShift(z) = Xor[d][c] /\ OneShift(z) \in Short
      BY <2>2, <3>1
    <3>4. Digitwise(m)
      BY DigitwiseBits
    <3>5. 0 \in Short
      BY ShortRange
    <3> HIDE DEF c, d, m
    <3>6. OneShift(z) % m = 0
      BY <3>2, <3>3, <3>4, <3>5, XorBits DEF Digitwise
    <3>7. OneShift(z) # 0
      BY <3>2, <3>3, XorGroup
    <3> QED
      BY <3>3, <3>6, <3>7 DEF Top, m
  <2> QED
    BY <2>1, <2>3, <2>4
<1> DEFINE Stays(n) == \A z \in Top : Shifted[n][z] \in Top
           S == {n \in Nat : n <= 8 => Stays(n)}
<1>2. 0 \in S
  BY ShiftedUnfolds DEF Top
<1>3. ASSUME NEW n \in Nat, n \in S
      PROVE  n + 1 \in S
  <2>1. ASSUME n + 1 <= 8, NEW z \in Top
        PROVE  Shifted[n + 1][z] \in Top
    <3>1. n + 1 \in 1 .. 8 /\ (n + 1) - 1 = n /\ n <= 8 /\ z \in Short
      BY <2>1 DEF Top
    <3>2. Shifted[n + 1][z] = Shifted[n][OneShift(z)]
      BY <3>1, ShiftedUnfolds
    <3>3. Stays(n)
      BY <1>3, <3>1
    <3> QED
      BY <1>1, <3>2, <3>3
  <2> QED
    BY <2>1
<1>4. Nat \subseteq S
  <2> HIDE DEF S
  <2> QED
    BY <1>2, <1>3, SetInduction
<1>5. \A n \in 0 .. 8 : n \in Nat /\ n <= 8
  OBVIOUS
<1>6. \A n \in 0 .. 8 : Stays(n)
  <2> HIDE DEF Stays
  <2> QED
    BY <1>4, <1>5
<1> QED
  BY <1>6

\* A byte is shifted to the left, a bit of it on to where the CRC is.
LEMMA ByteShifted ==
  /\ \A d \in 0 .. 255 : Shifted[8][d] = 256 * d
  /\ \A d \in LowBits : 256 * d \in Short /\ Shifted[8][256 * d] \in Top
<1>1. ASSUME NEW n \in 1 .. 8, NEW x \in Nat, x < 32768
      PROVE  Shifted[n][x] = Shifted[n - 1][2 * x]
  <2>1. x \in Short
    BY <1>1, ShortRange
  <2>2. OneShift(x) = 2 * x
    BY <1>1, <2>1, ShiftParts
  <2> QED
    BY <2>1, <2>2, ShiftedUnfolds
<1>2. /\ 8 - 1 = 7 /\ 7 - 1 = 6 /\ 6 - 1 = 5 /\ 5 - 1 = 4 /\ 4 - 1 = 3 /\ 3 - 1 = 2 /\ 2 - 1 = 1
      /\ 1 - 1 = 0
      /\ {1, 2, 3, 4, 5, 6, 7, 8} \subseteq 1 .. 8
  OBVIOUS
<1>3. ASSUME NEW x \in Nat, 8 * x < 32768
      PROVE  /\ Shifted[8][x] = Shifted[4][16 * x]
             /\ Shifted[4][x] = Shifted[0][16 * x]
  <2>1. /\ x < 32768 /\ 2 * x < 32768 /\ 4 * x < 32768 /\ 8 * x < 32768
        /\ 2 * x \in Nat /\ 4 * x \in Nat /\ 8 * x \in Nat
        /\ 2 * (2 * x) = 4 * x /\ 2 * (4 * x) = 8 * x /\ 2 * (8 * x) = 16 * x
    BY <1>3
  <2>2. /\ Shifted[8][x] = Shifted[7][2 * x] /\ Shifted[7][2 * x] = Shifted[6][2 * (2 * x)]
        /\ Shifted[6][4 * x] = Shifted[5][2 * (4 * x)]
        /\ Shifted[5][8 * x] = Shifted[4][2 * (8 * x)]
    BY <1>1, <1>2, <2>1
  <2>3. /\ Shifted[4][x] = Shifted[3][2 * x] /\ Shifted[3][2 * x] = Shifted[2][2 * (2 * x)]
        /\ Shifted[2][4 * x] = Shifted[1][2 * (4 * x)]
        /\ Shifted[1][8 * x] = Shifted[0][2 * (8 * x)]
    BY <1>1, <1>2, <2>1
  <2> QED
    BY <2>1, <2>2, <2>3
<1>4. ASSUME NEW d \in 0 .. 255
      PROVE  Shifted[8][d] = 256 * d
  <2>1. /\ d \in Nat /\ 16 * d \in Nat /\ 8 * d < 32768 /\ 8 * (16 * d) < 32768
        /\ 16 * (16 * d) = 256 * d /\ 256 * d \in Nat /\ 256 * d < 65536
    OBVIOUS
  <2>2. Shifted[8][d] = Shifted[4][16 * d] /\ Shifted[4][16 * d] = Shifted[0][16 * (16 * d)]
    BY <1>3, <2>1
  <2>3. 256 * d \in Short
    BY <2>1, ShortRange
  <2> QED
    BY <2>1, <2>2, <2>3, ShiftedUnfolds
<1>5. ASSUME NEW d \in LowBits
      PROVE  256 * d \in Short /\ Shifted[8][256 * d] \in Top
  <2> DEFINE e == 256 * d
  <2>1. e \in Nat /\ e < 65536 /\ e # 0
    BY DEF LowBits
  <2>2. e \in Short
    BY <2>1, ShortRange
  <2>3. CASE d \in {16, 32, 64, 128}
    <3>1. e % 4096 = 0
      BY <2>3
    <3>2. e \in Top
      BY <2>1, <2>2, <3>1 DEF Top
    <3> QED
      BY <2>2, <3>2, TopShifted
  <2>4. CASE d \in {1, 2, 4, 8}
    <3>1. 8 * e < 32768
      BY <2>4
    <3>2. Shifted[8][e] = Shifted[4][16 * e]
      BY <1>3, <2>1, <3>1
    <3>3. 16 * e \in Nat /\ 16 * e < 65536 /\ 16 * e # 0 /\ (16 * e) % 4096 = 0
      BY <2>4
    <3>4. 16 * e \in Top
      BY <3>3, ShortRange DEF Top
    <3>5. 4 \in 0 .. 8
      OBVIOUS
    <3> QED
      BY <2>2, <3>2, <3>4, <3>5, TopShifted
  <2> QED
    BY <2>3, <2>4 DEF LowBits
<1> QED
  BY <1>4, <1>5

-----------------------------------------------------------------------------
(* The remainder                                                           *)

\* The remainders after each byte.
Runs(A, words) ==
  /\ A \in [0 .. 16 -> Short] /\ A[0] = 0
  /\ \A n \in 1 .. 16 : A[n] = Shifted[8][Xor[A[n - 1]][BytesOf(words)[n - 1]]]

LEMMA BytesShort ==
  ASSUME NEW words \in [Word -> Short]
  PROVE  /\ BytesOf(words) \in [0 .. 15 -> Short]
         /\ BytesOf(words)[15] = 0
         /\ \A w \in Word : BytesOf(words)[2 * w] = words[w] \div 256
         /\ \A w \in 0 .. 6 : BytesOf(words)[2 * w + 1] = words[w] % 256
<1>1. \A x \in Short : x \div 256 \in Short /\ x % 256 \in Short
  <2>1. ASSUME NEW x \in Nat, x < 65536
        PROVE  x \div 256 \in Nat /\ x \div 256 < 65536 /\ x % 256 \in Nat /\ x % 256 < 65536
    BY <2>1
  <2>2. ASSUME NEW x \in Short
        PROVE  x \div 256 \in Short /\ x % 256 \in Short
    <3>1. x \in Nat /\ x < 65536
      BY ShortRange
    <3>2. x \div 256 \in Nat /\ x \div 256 < 65536 /\ x % 256 \in Nat /\ x % 256 < 65536
      BY <2>1, <3>1
    <3> QED
      BY <3>2, ShortRange
  <2> QED
    BY <2>2
<1>2. \A i \in 0 .. 15 : i \div 2 \in Word
  BY DEF Word
<1>3. 0 \in Short
  BY ShortRange
<1>4. Byte = 256
  BY DEF Byte
<1>5. \A i \in 0 .. 15 :
        BytesOf(words)[i] = IF i = 15 THEN 0
                            ELSE IF i % 2 = 1 THEN words[i \div 2] % 256
                            ELSE words[i \div 2] \div 256
  BY <1>4 DEF BytesOf
<1>6. BytesOf(words) \in [0 .. 15 -> Short]
  <2>1. \A i \in 0 .. 15 : words[i \div 2] \in Short
    BY <1>2
  <2>2. \A i \in 0 .. 15 : BytesOf(words)[i] \in Short
    BY <1>1, <1>3, <1>5, <2>1
  <2>3. BytesOf(words) = [i \in 0 .. 15 |-> BytesOf(words)[i]]
    BY DEF BytesOf
  <2> QED
    BY <2>2, <2>3
<1>7. /\ \A w \in Word : /\ 2 * w \in 0 .. 15 /\ 2 * w # 15 /\ (2 * w) % 2 # 1
                         /\ (2 * w) \div 2 = w
      /\ \A w \in 0 .. 6 : /\ 2 * w + 1 \in 0 .. 15 /\ 2 * w + 1 # 15 /\ (2 * w + 1) % 2 = 1
                           /\ (2 * w + 1) \div 2 = w
      /\ 15 \in 0 .. 15
  BY DEF Word
<1> HIDE DEF BytesOf
<1> QED
  BY <1>5, <1>6, <1>7

LEMMA RemainderRuns ==
  ASSUME NEW words \in [Word -> Short]
  PROVE  \E A : Runs(A, words) /\ Remainder(words) = A[16]
<1> DEFINE B == BytesOf(words)
           G == [n \in 1 .. 16 |-> [r \in Short |-> Shifted[8][Xor[r][B[n - 1]]]]]
           Def(f) == [n \in 0 .. 16 |-> IF n = 0 THEN 0 ELSE Shifted[8][Xor[f[n - 1]][B[n - 1]]]]
<1>1. B \in [0 .. 15 -> Short]
  BY BytesShort
<1> HIDE DEF B
<1>2. \A n \in 1 .. 16, r \in Short : B[n - 1] \in Short /\ Shifted[8][Xor[r][B[n - 1]]] \in Short
  <2>1. \A n \in 1 .. 16 : n - 1 \in 0 .. 15
    OBVIOUS
  <2>2. \A n \in 1 .. 16 : B[n - 1] \in Short
    BY <1>1, <2>1
  <2>3. 8 \in 0 .. 8
    OBVIOUS
  <2> QED
    BY <2>2, <2>3, XorRange, ShiftedLinear
<1>3. G \in [1 .. 16 -> [Short -> Short]]
  BY <1>2
<1>4. PICK f : Iterates(f, 16, Short, 0, G)
  <2> HIDE DEF G
  <2>1. 16 \in Nat
    OBVIOUS
  <2>2. 0 \in Short
    BY ShortRange
  <2> QED
    BY <1>3, <2>1, <2>2, Iterated, Zenon
<1>5. f \in [0 .. 16 -> Short] /\ f[0] = 0 /\ \A n \in 1 .. 16 : f[n] = G[n][f[n - 1]]
  <2> HIDE DEF G
  <2> QED
    BY <1>4 DEF Iterates
<1>6. f = Def(f)
  <2>1. \A n \in 0 .. 16 : n # 0 => n - 1 \in 0 .. 16 /\ n \in 1 .. 16
    OBVIOUS
  <2>2. \A n \in 0 .. 16 : n # 0 => f[n] = Shifted[8][Xor[f[n - 1]][B[n - 1]]]
    BY <1>5, <2>1
  <2> QED
    BY <1>5, <2>2
<1>7. \E A : A = Def(A) /\ Remainder(words) = A[16]
  <2> DEFINE A == CHOOSE g : g = Def(g)
  <2>1. Remainder(words) = A[16]
    BY DEF Remainder, B
  <2>2. A = Def(A)
    <3> HIDE DEF Def
    <3> QED
      BY <1>6
  <2> HIDE DEF A
  <2> QED
    BY <2>1, <2>2
<1>8. PICK A : A = Def(A) /\ Remainder(words) = A[16]
  BY <1>7
<1>9. A[0] = 0 /\ \A n \in 1 .. 16 : A[n] = Shifted[8][Xor[A[n - 1]][B[n - 1]]]
  <2>1. \A n \in 1 .. 16 : n \in 0 .. 16 /\ n # 0
    OBVIOUS
  <2>2. 0 \in 0 .. 16
    OBVIOUS
  <2> QED
    BY <1>8, <2>1, <2>2
<1>10. A \in [0 .. 16 -> Short]
  <2> DEFINE S == {n \in Nat : n <= 16 => A[n] \in Short}
  <2>1. 0 \in S
    BY <1>9, ShortRange
  <2>2. ASSUME NEW n \in Nat, n \in S
        PROVE  n + 1 \in S
    <3>1. ASSUME n + 1 <= 16
          PROVE  A[n + 1] \in Short
      <4>1. n + 1 \in 1 .. 16 /\ (n + 1) - 1 = n /\ n <= 16
        BY <3>1
      <4>2. A[n] \in Short
        BY <2>2, <4>1
      <4>3. B[n] \in Short /\ Shifted[8][Xor[A[n]][B[n]]] \in Short
        BY <1>2, <4>1, <4>2
      <4> QED
        BY <1>9, <4>1, <4>3
    <3> QED
      BY <3>1
  <2>3. Nat \subseteq S
    <3> HIDE DEF S
    <3> QED
      BY <2>1, <2>2, SetInduction
  <2>4. \A n \in 0 .. 16 : n \in Nat /\ n <= 16
    OBVIOUS
  <2>5. \A n \in 0 .. 16 : A[n] \in Short
    BY <2>3, <2>4
  <2>6. A = [n \in 0 .. 16 |-> A[n]]
    BY <1>8
  <2> QED
    BY <2>5, <2>6
<1> QED
  BY <1>8, <1>9, <1>10 DEF Runs, B


\* How the remainders of two messages differ.
Apart(A, B, n) == Xor[A[n]][B[n]]

ApartBy(A, B, V, W, n) ==
  /\ Apart(A, B, n - 1) \in Short /\ Apart(A, B, n) \in Short
  /\ Apart(A, B, n) =
       Shifted[8][Xor[Apart(A, B, n - 1)][Xor[BytesOf(V)[n - 1]][BytesOf(W)[n - 1]]]]

\* That difference is shifted with the difference of the bytes, and nothing else.
LEMMA ApartNext ==
  ASSUME NEW V \in [Word -> Short], NEW W \in [Word -> Short],
         NEW A, NEW B, Runs(A, V), Runs(B, W), NEW n \in 1 .. 16
  PROVE  ApartBy(A, B, V, W, n)
<1> DEFINE v == BytesOf(V)[n - 1]  w == BytesOf(W)[n - 1]  a == A[n - 1]  b == B[n - 1]
<1>1. v \in Short /\ w \in Short
  <2>1. n - 1 \in 0 .. 15
    OBVIOUS
  <2> QED
    BY <2>1, BytesShort
<1>2. a \in Short /\ b \in Short /\ A[n] \in Short /\ B[n] \in Short
  <2>1. n - 1 \in 0 .. 16 /\ n \in 0 .. 16
    OBVIOUS
  <2> QED
    BY <2>1 DEF Runs
<1>3. A[n] = Shifted[8][Xor[a][v]] /\ B[n] = Shifted[8][Xor[b][w]]
  BY DEF Runs
<1> HIDE DEF v, w, a, b
<1>4. Xor[a][v] \in Short /\ Xor[b][w] \in Short /\ Xor[a][b] \in Short
  BY <1>1, <1>2, XorRange
<1>5. Xor[A[n]][B[n]] = Shifted[8][Xor[Xor[a][v]][Xor[b][w]]]
  <2> DEFINE p == Xor[a][v]  q == Xor[b][w]
  <2>1. \A x, y \in Short : Xor[Shifted[8][x]][Shifted[8][y]] = Shifted[8][Xor[x][y]]
    <3>1. 8 \in 0 .. 8
      OBVIOUS
    <3> QED
      BY <3>1, ShiftedLinear
  <2>2. p \in Short /\ q \in Short /\ A[n] = Shifted[8][p] /\ B[n] = Shifted[8][q]
    BY <1>3, <1>4
  <2> HIDE DEF p, q
  <2>3. Xor[A[n]][B[n]] = Shifted[8][Xor[p][q]]
    BY <2>1, <2>2
  <2> QED
    BY <2>3 DEF p, q
<1>6. Xor[Xor[a][v]][Xor[b][w]] = Xor[Xor[a][b]][Xor[v][w]]
  BY <1>1, <1>2, XorLaws DEF XorMedial
<1>7. Xor[A[n]][B[n]] \in Short
  BY <1>2, XorRange
<1> QED
  BY <1>4, <1>5, <1>6, <1>7 DEF ApartBy, Apart, a, b, v, w

\* Messages that differ in one bit of one byte have different CRCs.
LEMMA BitNoticed ==
  ASSUME NEW V \in [Word -> Short], NEW W \in [Word -> Short],
         NEW i \in 0 .. 14, NEW d \in LowBits,
         \A j \in 0 .. 15 : Xor[BytesOf(V)[j]][BytesOf(W)[j]] = IF j = i THEN d ELSE 0
  PROVE  ms5611_verify_prom(V) # ms5611_verify_prom(W)
<1>1. PICK A : Runs(A, V) /\ Remainder(V) = A[16]
  BY RemainderRuns
<1>2. PICK B : Runs(B, W) /\ Remainder(W) = B[16]
  BY RemainderRuns
<1> DEFINE apart(n) == Apart(A, B, n)
<1>3. ASSUME NEW n \in 1 .. 16
      PROVE  /\ apart(n - 1) \in Short /\ apart(n) \in Short
             /\ apart(n) = Shifted[8][Xor[apart(n - 1)][IF n - 1 = i THEN d ELSE 0]]
  <2>1. n - 1 \in 0 .. 15
    OBVIOUS
  <2>2. Xor[BytesOf(V)[n - 1]][BytesOf(W)[n - 1]] = IF n - 1 = i THEN d ELSE 0
    BY <2>1
  <2>0. Runs(A, V) /\ Runs(B, W)
    BY <1>1, <1>2
  <2>3. /\ apart(n - 1) \in Short /\ apart(n) \in Short
        /\ apart(n) = Shifted[8][Xor[apart(n - 1)][Xor[BytesOf(V)[n - 1]][BytesOf(W)[n - 1]]]]
    <3>1. ApartBy(A, B, V, W, n)
      BY <2>0, ApartNext
    <3> QED
      BY <3>1, Zenon DEF ApartBy
  <2> QED
    BY <2>2, <2>3, Zenon
<1>4. 0 \in Short /\ Xor[0][0] = 0 /\ Shifted[8][0] = 0
  <2>1. 0 \in Short
    BY ShortRange
  <2>2. Shifted[8][0] = 256 * 0
    <3>1. \A z \in 0 .. 255 : Shifted[8][z] = 256 * z
      BY ByteShifted, SMTT(30)
    <3> HIDE DEF Shifted
    <3> QED
      BY <3>1, SMTT(30)
  <2> QED
    BY <2>1, <2>2, XorBits
<1>5. apart(0) = 0
  BY <1>1, <1>2, <1>4 DEF Runs, Apart
<1> HIDE DEF apart
<1>6. apart(i) = 0
  <2> DEFINE S == {n \in Nat : n <= i => apart(n) = 0}
  <2>1. 0 \in S
    BY <1>5
  <2>2. ASSUME NEW n \in Nat, n \in S
        PROVE  n + 1 \in S
    <3>1. ASSUME n + 1 <= i
          PROVE  apart(n + 1) = 0
      <4>1. n + 1 \in 1 .. 16 /\ (n + 1) - 1 = n /\ n <= i /\ n # i
        BY <3>1
      <4>2. apart(n) = 0
        BY <2>2, <4>1
      <4>3. apart(n + 1) = Shifted[8][Xor[apart(n)][0]]
        BY <1>3, <4>1
      <4> QED
        BY <1>4, <4>2, <4>3
    <3> QED
      BY <3>1
  <2>3. Nat \subseteq S
    <3> HIDE DEF S
    <3> QED
      BY <2>1, <2>2, SetInduction
  <2>4. i \in S /\ i <= i
    BY <2>3
  <2> QED
    BY <2>4
<1>7. d \in 0 .. 255 /\ d \in Short
  <2>1. d \in Nat /\ d < 256
    BY DEF LowBits
  <2>2. d \in Nat /\ d < 65536
    BY <2>1
  <2> QED
    BY <2>1, <2>2, ShortRange
<1>8. apart(i + 1) = 256 * d
  <2>1. i + 1 \in 1 .. 16 /\ (i + 1) - 1 = i
    OBVIOUS
  <2>2. apart(i + 1) = Shifted[8][Xor[0][d]]
    BY <1>3, <1>6, <2>1
  <2>3. Xor[0][d] = d
    BY <1>7, XorLaws
  <2> QED
    BY <1>7, <2>2, <2>3, ByteShifted
<1>9. apart(i + 2) \in Top
  <2>1. i + 2 \in 1 .. 16 /\ (i + 2) - 1 = i + 1 /\ i + 1 # i
    OBVIOUS
  <2>2. apart(i + 2) = Shifted[8][Xor[256 * d][0]]
    <3> DEFINE n == i + 2
    <3>1. n \in 1 .. 16 /\ n - 1 = i + 1 /\ n - 1 # i
      BY <2>1
    <3> HIDE DEF n, apart
    <3>2. apart(n) = Shifted[8][Xor[apart(n - 1)][0]]
      BY <1>3, <3>1, Zenon
    <3>3. apart(n) = Shifted[8][Xor[256 * d][0]]
      BY <1>8, <3>1, <3>2, Zenon
    <3> QED
      BY <3>3, Zenon DEF n
  <2>3. 256 * d \in Short /\ Shifted[8][256 * d] \in Top
    BY ByteShifted
  <2>4. Xor[256 * d][0] = 256 * d
    BY <2>3, XorLaws
  <2> QED
    BY <2>2, <2>3, <2>4
<1>10. apart(16) \in Top
  <2> DEFINE S == {n \in Nat : n + (i + 2) <= 16 => apart(n + (i + 2)) \in Top}
  <2>1. 0 \in S
    <3>1. 0 + (i + 2) = i + 2
      OBVIOUS
    <3> QED
      BY <1>9, <3>1
  <2>2. ASSUME NEW n \in Nat, n \in S
        PROVE  n + 1 \in S
    <3>1. ASSUME (n + 1) + (i + 2) <= 16
          PROVE  apart((n + 1) + (i + 2)) \in Top
      <4> DEFINE m == (n + 1) + (i + 2)
      <4>1. /\ m \in 1 .. 16 /\ m - 1 = n + (i + 2) /\ n + (i + 2) <= 16 /\ m - 1 # i
        BY <3>1
      <4>2. apart(m - 1) \in Top
        BY <2>2, <4>1
      <4> HIDE DEF m
      <4>3. apart(m) = Shifted[8][Xor[apart(m - 1)][0]] /\ apart(m - 1) \in Short
        BY <1>3, <4>1
      <4>4. Xor[apart(m - 1)][0] = apart(m - 1)
        BY <4>3, XorLaws
      <4>5. 8 \in 0 .. 8
        OBVIOUS
      <4> QED
        BY <4>2, <4>3, <4>4, <4>5, TopShifted DEF m
    <3> QED
      BY <3>1
  <2>3. Nat \subseteq S
    <3> HIDE DEF S
    <3> QED
      BY <2>1, <2>2, SetInduction
  <2> DEFINE k == 14 - i
  <2>4. k \in Nat /\ k + (i + 2) = 16
    OBVIOUS
  <2>5. k \in S
    BY <2>3, <2>4
  <2> QED
    BY <2>4, <2>5
<1>11. SUFFICES ASSUME A[16] \div 4096 = B[16] \div 4096
                PROVE  FALSE
  BY <1>1, <1>2 DEF ms5611_verify_prom
<1> DEFINE m == 4096  x == apart(16)
<1>12. x \in Short /\ x \in Nat /\ x # 0 /\ x % m = 0
  BY <1>10, ShortRange DEF Top
<1>13. A[16] \in Short /\ B[16] \in Short /\ A[16] \div m \in Short
  <2>1. 16 \in 0 .. 16
    OBVIOUS
  <2>2. A[16] \in Short /\ B[16] \in Short
    BY <1>1, <1>2, <2>1 DEF Runs
  <2>3. A[16] \in Nat /\ A[16] < 65536
    BY <2>2, ShortRange
  <2>4. A[16] \div m \in Nat /\ A[16] \div m < 65536
    BY <2>3
  <2> QED
    BY <2>2, <2>4, ShortRange
<1>14. x = Xor[A[16]][B[16]]
  BY DEF apart, Apart
<1>15. x \div m = Xor[A[16] \div m][B[16] \div m]
  <2>1. Digitwise(m)
    BY DigitwiseBits
  <2> HIDE DEF m, x
  <2>2. Xor[A[16]][B[16]] \div m = Xor[A[16] \div m][B[16] \div m]
    BY <1>13, <2>1, Zenon DEF Digitwise
  <2> QED
    BY <1>14, <2>2, Zenon
<1>16. x \div m = 0
  BY <1>11, <1>13, <1>15, XorLaws
<1> HIDE DEF x
<1> QED
  BY <1>12, <1>16

\* What a flipped bit of a word does to its two bytes.
FlipsInto(x, bit, y) ==
  /\ y \in Short /\ y # x
  /\ Xor[x \div 256][y \div 256] = bit \div 256
  /\ Xor[x % 256][y % 256] = bit % 256
  /\ Xor[x % 16][y % 16] = bit % 16
  /\ Xor[x \div 256][y \div 256] = 0 => x \div 256 = y \div 256
  /\ Xor[x % 16][y % 16] = 0 => x % 16 = y % 16

LEMMA FlippedBytes ==
  ASSUME NEW x \in Short, NEW bit \in Bits
  PROVE  FlipsInto(x, bit, Xor[x][bit])
<1> DEFINE y == Xor[x][bit]
<1>1. bit \in Short /\ bit # 0 /\ bit \in Nat
  BY ShortRange DEF Bits
<1>2. y \in Short /\ Xor[x][y] = bit
  BY <1>1, XorRange, XorGroup
<1>3. y # x
  <2>1. Xor[x][x] = 0
    BY XorLaws
  <2> QED
    BY <1>1, <1>2, <2>1
<1> HIDE DEF y
<1>4. /\ Xor[x \div 256][y \div 256] = bit \div 256 /\ Xor[x % 256][y % 256] = bit % 256
      /\ Xor[x % 16][y % 16] = bit % 16
  BY <1>2, DigitwiseBits DEF Digitwise
<1>5. ASSUME NEW z \in Short
      PROVE  z \div 256 \in Short /\ z % 16 \in Short
  <2>1. z \in Nat /\ z < 65536
    BY ShortRange
  <2>2. z \div 256 \in Nat /\ z \div 256 < 65536 /\ z % 16 \in Nat /\ z % 16 < 65536
    BY <2>1
  <2> QED
    BY <2>2, ShortRange
<1>6. /\ Xor[x \div 256][y \div 256] = 0 => x \div 256 = y \div 256
      /\ Xor[x % 16][y % 16] = 0 => x % 16 = y % 16
  BY <1>2, <1>5, XorGroup
<1>7. FlipsInto(x, bit, y)
  BY <1>2, <1>3, <1>4, <1>6 DEF FlipsInto
<1> QED
  BY <1>7 DEF y

LEMMA BitParts ==
  ASSUME NEW bit \in Bits
  PROVE  /\ \/ bit \div 256 \in LowBits /\ bit % 256 = 0 /\ bit % 16 = 0
            \/ bit \div 256 = 0 /\ bit % 256 \in LowBits
<1>1. CASE bit \in {1, 2, 4, 8, 16, 32, 64, 128}
  BY <1>1 DEF LowBits
<1>2. CASE bit \in {256, 512, 1024, 2048, 4096, 8192, 16384, 32768}
  BY <1>2 DEF LowBits
<1> QED
  BY <1>1, <1>2 DEF Bits

\* Two messages of the same bytes.
LEMMA SameRemainder ==
  ASSUME NEW V \in [Word -> Short], NEW W \in [Word -> Short],
         \A j \in 0 .. 15 : BytesOf(V)[j] = BytesOf(W)[j]
  PROVE  ms5611_verify_prom(V) = ms5611_verify_prom(W)
<1>1. PICK A : Runs(A, V) /\ Remainder(V) = A[16]
  BY RemainderRuns
<1>2. PICK B : Runs(B, W) /\ Remainder(W) = B[16]
  BY RemainderRuns
<1> DEFINE S == {n \in Nat : n <= 16 => A[n] = B[n]}
<1>3. 0 \in S
  BY <1>1, <1>2 DEF Runs
<1>4. ASSUME NEW n \in Nat, n \in S
      PROVE  n + 1 \in S
  <2>1. ASSUME n + 1 <= 16
        PROVE  A[n + 1] = B[n + 1]
    <3>1. n + 1 \in 1 .. 16 /\ (n + 1) - 1 = n /\ n <= 16 /\ n \in 0 .. 15
      BY <2>1
    <3>2. A[n] = B[n]
      BY <1>4, <3>1
    <3>3. BytesOf(V)[n] = BytesOf(W)[n]
      BY <3>1
    <3>4. A[n + 1] = Shifted[8][Xor[A[n]][BytesOf(V)[n]]]
      BY <1>1, <3>1 DEF Runs
    <3>5. B[n + 1] = Shifted[8][Xor[B[n]][BytesOf(W)[n]]]
      BY <1>2, <3>1 DEF Runs
    <3> QED
      BY <3>2, <3>3, <3>4, <3>5, Zenon
  <2> QED
    BY <2>1
<1>5. Nat \subseteq S
  <2> HIDE DEF S
  <2> QED
    BY <1>3, <1>4, SetInduction
<1>6. A[16] = B[16]
  <2>1. 16 \in S /\ 16 <= 16
    BY <1>5
  <2> QED
    BY <2>1
<1> QED
  BY <1>1, <1>2, <1>6 DEF ms5611_verify_prom

\* The calibration with a wrong bit.
Spoilt(V, w, bit) ==
  /\ V \in [Word -> Short] /\ w \in Word /\ bit \in Bits
  /\ V[w] = Xor[Prom[w]][bit]
  /\ \A u \in Word : u # w => V[u] = Prom[u]

\* Its bytes: those of another word are right.
LEMMA SpoiltBytes ==
  ASSUME NEW V, NEW w, NEW bit, Spoilt(V, w, bit)
  PROVE  \A j \in 0 .. 15 :
           Xor[BytesOf(Prom)[j]][BytesOf(V)[j]] =
             IF j = 2 * w THEN bit \div 256
             ELSE IF j = 2 * w + 1 /\ w # 7 THEN bit % 256 ELSE 0
<1>1. /\ V \in [Word -> Short] /\ Prom \in [Word -> Short] /\ w \in Word /\ bit \in Bits
      /\ V[w] = Xor[Prom[w]][bit] /\ Prom[w] \in Short
      /\ \A u \in Word : u # w => V[u] = Prom[u]
  BY SensorAssumption DEF Spoilt
<1>2. /\ \A u \in Word : /\ BytesOf(Prom)[2 * u] = Prom[u] \div 256
                         /\ BytesOf(V)[2 * u] = V[u] \div 256
      /\ \A u \in 0 .. 6 : /\ BytesOf(Prom)[2 * u + 1] = Prom[u] % 256
                           /\ BytesOf(V)[2 * u + 1] = V[u] % 256
      /\ BytesOf(Prom)[15] = 0 /\ BytesOf(V)[15] = 0
  BY <1>1, BytesShort
<1>3. \A j \in 0 .. 15 : BytesOf(Prom)[j] \in Short
  BY <1>1, BytesShort
<1>4. \A x \in Short : Xor[x][x] = 0
  BY XorLaws
<1>5. /\ Xor[Prom[w] \div 256][V[w] \div 256] = bit \div 256
      /\ Xor[Prom[w] % 256][V[w] % 256] = bit % 256
  <2>1. FlipsInto(Prom[w], bit, Xor[Prom[w]][bit])
    BY <1>1, FlippedBytes
  <2> QED
    BY <1>1, <2>1, ZenonT(40) DEF FlipsInto
<1>6. ASSUME NEW u \in Word
      PROVE  /\ 2 * u \in 0 .. 15 /\ (2 * u = 2 * w <=> u = w) /\ 2 * u # 2 * w + 1
             /\ u # 7 => 2 * u + 1 \in 0 .. 15
             /\ (2 * u + 1 = 2 * w + 1 <=> u = w) /\ 2 * u + 1 # 2 * w
             /\ u # 7 => u \in 0 .. 6
  BY <1>1 DEF Word
<1>7. ASSUME NEW j \in 0 .. 15
      PROVE  (\E u \in Word : j = 2 * u) \/ (\E u \in 0 .. 6 : j = 2 * u + 1) \/ j = 15
  <2> DEFINE u == j \div 2
  <2>1. u \in Word /\ (j = 2 * u \/ j = 2 * u + 1) /\ (u # 7 => u \in 0 .. 6)
        /\ (u = 7 /\ j = 2 * u + 1 => j = 15)
    BY DEF Word
  <2> HIDE DEF u
  <2> QED
    BY <2>1
<1>8. \A u \in 0 .. 6 : u \in Word /\ u # 7
  BY DEF Word
<1>9. ASSUME NEW j \in 0 .. 15
      PROVE  Xor[BytesOf(Prom)[j]][BytesOf(V)[j]] =
               IF j = 2 * w THEN bit \div 256
               ELSE IF j = 2 * w + 1 /\ w # 7 THEN bit % 256 ELSE 0
  <2>1. ASSUME NEW u \in Word, j = 2 * u
        PROVE  Xor[BytesOf(Prom)[j]][BytesOf(V)[j]] =
                 IF j = 2 * w THEN bit \div 256
                 ELSE IF j = 2 * w + 1 /\ w # 7 THEN bit % 256 ELSE 0
    <3>1. CASE u = w
      BY <1>2, <1>5, <2>1, <3>1, ZenonT(40)
    <3>2. CASE u # w
      <4>1. j # 2 * w /\ j # 2 * w + 1
        BY <1>6, <2>1, <3>2
      <4>2. BytesOf(V)[j] = BytesOf(Prom)[j]
        <5>1. V[u] = Prom[u]
          BY <1>1, <3>2
        <5>2. BytesOf(V)[2 * u] = V[u] \div 256 /\ BytesOf(Prom)[2 * u] = Prom[u] \div 256
          BY <1>2
        <5> QED
          BY <2>1, <5>1, <5>2, Zenon
      <4> QED
        BY <1>3, <1>4, <4>1, <4>2, Zenon
    <3> QED
      BY <3>1, <3>2
  <2>2. ASSUME NEW u \in 0 .. 6, j = 2 * u + 1
        PROVE  Xor[BytesOf(Prom)[j]][BytesOf(V)[j]] =
                 IF j = 2 * w THEN bit \div 256
                 ELSE IF j = 2 * w + 1 /\ w # 7 THEN bit % 256 ELSE 0
    <3>0. u \in Word /\ u # 7
      BY <1>8
    <3>1. CASE u = w
      <4>1. j # 2 * w /\ w # 7 /\ j = 2 * w + 1
        BY <1>6, <2>2, <3>0, <3>1
      <4>2. Xor[BytesOf(Prom)[j]][BytesOf(V)[j]] = bit % 256
        BY <1>2, <1>5, <2>2, <3>1, ZenonT(40)
      <4> QED
        BY <4>1, <4>2, Zenon
    <3>2. CASE u # w
      <4>1. j # 2 * w /\ j # 2 * w + 1
        BY <1>6, <2>2, <3>0, <3>2
      <4>2. BytesOf(V)[j] = BytesOf(Prom)[j]
        <5>1. V[u] = Prom[u]
          BY <1>1, <3>0, <3>2
        <5>2. /\ BytesOf(V)[2 * u + 1] = V[u] % 256
              /\ BytesOf(Prom)[2 * u + 1] = Prom[u] % 256
          BY <1>2
        <5> QED
          BY <2>2, <5>1, <5>2, Zenon
      <4> QED
        BY <1>3, <1>4, <4>1, <4>2, Zenon
    <3> QED
      BY <3>1, <3>2
  <2>3. CASE j = 15
    <3>1. j # 2 * w /\ (j = 2 * w + 1 => w = 7)
      BY <1>1, <2>3 DEF Word
    <3>2. Xor[BytesOf(Prom)[j]][BytesOf(V)[j]] = 0
      BY <1>2, <1>3, <1>4, <2>3
    <3> QED
      BY <3>1, <3>2, Zenon
  <2> QED
    BY <1>7, <2>1, <2>2, <2>3
<1> QED
  BY <1>9

\* ErrorNoticed of the words V.
Told(V) ==
  (ms5611_verify_prom(V) = V[7] % 16) <=> Protected(V) = Protected(Prom)

LEMMA SpoiltTold ==
  ASSUME NEW V, NEW w, NEW bit, Spoilt(V, w, bit)
  PROVE  Told(V)
<1> DEFINE x == Prom[w]  y == V[w]
<1>1. /\ V \in [Word -> Short] /\ Prom \in [Word -> Short] /\ w \in Word /\ bit \in Bits
      /\ y = Xor[x][bit] /\ x \in Short /\ y \in Short
      /\ \A u \in Word : u # w => V[u] = Prom[u]
  BY SensorAssumption DEF Spoilt
<1>2. /\ y # x
      /\ Xor[x \div 256][y \div 256] = bit \div 256
      /\ Xor[x % 256][y % 256] = bit % 256
      /\ Xor[x % 16][y % 16] = bit % 16
      /\ Xor[x \div 256][y \div 256] = 0 => x \div 256 = y \div 256
      /\ Xor[x % 16][y % 16] = 0 => x % 16 = y % 16
  <2>1. FlipsInto(x, bit, y)
    BY <1>1, FlippedBytes
  <2> HIDE DEF x, y
  <2> QED
    BY <2>1 DEF FlipsInto
<1>3. ms5611_verify_prom(Prom) = Prom[7] % 16
  BY PromAssumption
<1>4. Byte = 256 /\ 7 \in Word
  BY DEF Byte, Word
<1>5. /\ Protected(V)[7] = <<V[7] \div 256, V[7] % 16>>
      /\ Protected(Prom)[7] = <<Prom[7] \div 256, Prom[7] % 16>>
      /\ \A u \in Word : u # 7 => Protected(V)[u] = V[u] /\ Protected(Prom)[u] = Prom[u]
  BY <1>1, <1>4 DEF Protected
<1>6. \A u \in Word : u # w => V[u] % 16 = Prom[u] % 16
  BY <1>1
<1> HIDE DEF x, y
<1>7. /\ 0 \notin LowBits
      /\ \/ bit \div 256 \in LowBits /\ bit % 256 = 0 /\ bit % 16 = 0
         \/ bit \div 256 = 0 /\ bit % 256 \in LowBits
  <2>1. 0 \notin LowBits
    BY DEF LowBits
  <2> QED
    BY <1>1, <2>1, BitParts
<1>8. CASE bit \div 256 \in LowBits /\ bit % 256 = 0 /\ bit % 16 = 0
  <2>1. 2 * w \in 0 .. 14
    BY <1>1 DEF Word
  <2>2. \A j \in 0 .. 15 : Xor[BytesOf(Prom)[j]][BytesOf(V)[j]] =
                             IF j = 2 * w THEN bit \div 256 ELSE 0
    BY <1>8, SpoiltBytes
  <2>3. ms5611_verify_prom(Prom) # ms5611_verify_prom(V)
    BY <1>1, <1>8, <2>1, <2>2, BitNoticed, ZenonT(40)
  <2>4. V[7] % 16 = Prom[7] % 16
    <3>1. CASE w = 7
      BY <1>2, <1>8, <3>1 DEF x, y
    <3> QED
      BY <1>4, <1>6, <3>1
  <2>5. ms5611_verify_prom(V) # V[7] % 16
    BY <1>3, <2>3, <2>4
  <2>6. Protected(V) # Protected(Prom)
    <3>1. CASE w = 7
      <4>1. x \in Nat
        BY <1>1, ShortRange
      <4>2. x \div 256 # y \div 256
        <5>1. x \div 256 \in Short
          <6>1. x \div 256 \in Nat /\ x \div 256 < 65536
            <7>1. x \in Nat /\ x < 65536
              BY <1>1, ShortRange
            <7> QED
              BY <7>1
          <6> QED
            BY <6>1, ShortRange
        <5>2. Xor[x \div 256][x \div 256] = 0
          BY <5>1, XorLaws
        <5> QED
          BY <1>2, <1>7, <1>8, <5>2
      <4>3. Protected(V)[7] # Protected(Prom)[7]
        BY <1>5, <3>1, <4>2 DEF x, y
      <4> QED
        BY <4>3
    <3>2. CASE w # 7
      <4>1. Protected(V)[w] = y /\ Protected(Prom)[w] = x
        BY <1>1, <1>5, <3>2 DEF x, y
      <4> QED
        BY <1>2, <4>1
    <3> QED
      BY <3>1, <3>2
  <2> QED
    BY <2>5, <2>6 DEF Told
<1>9. CASE bit \div 256 = 0 /\ bit % 256 \in LowBits /\ w # 7
  <2>1. 2 * w + 1 \in 0 .. 14 /\ 2 * w # 2 * w + 1
    BY <1>1, <1>9 DEF Word
  <2>2. \A j \in 0 .. 15 : Xor[BytesOf(Prom)[j]][BytesOf(V)[j]] =
                             IF j = 2 * w + 1 THEN bit % 256 ELSE 0
    BY <1>9, <2>1, SpoiltBytes
  <2>3. ms5611_verify_prom(Prom) # ms5611_verify_prom(V)
    BY <1>1, <1>9, <2>1, <2>2, BitNoticed, ZenonT(40)
  <2>4. V[7] % 16 = Prom[7] % 16
    BY <1>4, <1>6, <1>9
  <2>5. ms5611_verify_prom(V) # V[7] % 16
    BY <1>3, <2>3, <2>4
  <2>6. Protected(V)[w] = y /\ Protected(Prom)[w] = x
    BY <1>1, <1>5, <1>9 DEF x, y
  <2>7. Protected(V) # Protected(Prom)
    BY <1>2, <2>6
  <2> QED
    BY <2>5, <2>7 DEF Told
<1>10. CASE bit \div 256 = 0 /\ w = 7
  <2>1. \A j \in 0 .. 15 : Xor[BytesOf(Prom)[j]][BytesOf(V)[j]] = 0
    BY <1>10, SpoiltBytes
  <2>2. \A j \in 0 .. 15 : BytesOf(Prom)[j] \in Short /\ BytesOf(V)[j] \in Short
    BY <1>1, BytesShort
  <2>3. \A j \in 0 .. 15 : BytesOf(Prom)[j] = BytesOf(V)[j]
    BY <2>1, <2>2, XorGroup
  <2>4. ms5611_verify_prom(Prom) = ms5611_verify_prom(V)
    BY <1>1, <2>3, SameRemainder
  <2>5. ms5611_verify_prom(V) = V[7] % 16 <=> V[7] % 16 = Prom[7] % 16
    BY <1>3, <2>4
  <2>6. V[7] \div 256 = Prom[7] \div 256
    BY <1>2, <1>10 DEF x, y
  <2>7. V[7] % 16 = Prom[7] % 16 => Protected(V) = Protected(Prom)
    <3>1. ASSUME V[7] % 16 = Prom[7] % 16
          PROVE  Protected(V) = Protected(Prom)
      <4>1. \A u \in Word : Protected(V)[u] = Protected(Prom)[u]
        BY <1>1, <1>5, <1>10, <2>6, <3>1
      <4>2. /\ Protected(V) = [u \in Word |-> Protected(V)[u]]
            /\ Protected(Prom) = [u \in Word |-> Protected(Prom)[u]]
        BY <1>1 DEF Protected
      <4> QED
        BY <4>1, <4>2
    <3> QED
      BY <3>1
  <2>8. Protected(V) = Protected(Prom) => V[7] % 16 = Prom[7] % 16
    <3>1. ASSUME Protected(V) = Protected(Prom)
          PROVE  V[7] % 16 = Prom[7] % 16
      <4>1. <<V[7] \div 256, V[7] % 16>> = <<Prom[7] \div 256, Prom[7] % 16>>
        BY <1>5, <3>1
      <4> QED
        BY <4>1
    <3> QED
      BY <3>1
  <2> QED
    BY <2>5, <2>7, <2>8 DEF Told
<1> QED
  BY <1>7, <1>8, <1>9, <1>10

\* What the check makes of the words that come in, whatever the error.
LEMMA ErrorTold ==
  ASSUME NEW error \in Errors, NEW V \in [Word -> Short],
         \A u \in Word : V[u] = Flipped(u, error)
  PROVE  Told(V)
<1>1. CASE error \in Wrong
  <2>1. PICK w \in Word, word \in Short : error = <<w, word>>
    BY <1>1, SensorAssumption
  <2>2. PICK bit \in Bits : error[2] = Xor[Prom[error[1]]][bit]
    BY <1>1, PromAssumption
  <2>3. word = Xor[Prom[w]][bit]
    BY <2>1, <2>2
  <2>4. \A u \in Word : V[u] = IF u = w THEN word ELSE Prom[u]
    BY <2>1 DEF Flipped
  <2>5. Spoilt(V, w, bit)
    BY <2>3, <2>4 DEF Spoilt
  <2> QED
    BY <2>5, SpoiltTold
<1>2. CASE error = <<-1, 0>>
  <2>1. \A u \in Word : u # -1
    BY DEF Word
  <2>2. \A u \in Word : V[u] = Prom[u]
    BY <1>2, <2>1 DEF Flipped
  <2>3. Prom \in [Word -> Short]
    BY SensorAssumption
  <2>4. V = Prom
    BY <2>2, <2>3
  <2> QED
    BY <2>4, PromAssumption DEF Told
<1> QED
  BY <1>1, <1>2 DEF Errors

-----------------------------------------------------------------------------
(* The check of the calibration                                            *)

\* Once the check is made its outcome stays that of the calibration.
Compared == verified = (ms5611_verify_prom(C) = C[7] % 16)

VerifyInv == boot = <<>> /\ (served > 0 \/ Place = 53) => Compared

LEMMA TaskKeepsWords ==
  ASSUME LongEnough, served \in Nat, ~undone, ProgramInv, ReadTypes, SensorTask, job # <<>>,
         NEW k \in 1 .. 45, Op = task_sensor[k], SampleAt(k)
  PROVE  C' = C
<1>s. \A c \in Converter : ConverterAt(c, k - ReadsAt(c))
  BY DEF SampleAt
<1>1. ASSUME NEW c \in Converter, NEW r \in 1 .. 10, k = ReadsAt(c) + r,
             Op = ms5611_read_adc(c, Precision)[r]
      PROVE  C' = C
  <2>1. k - ReadsAt(c) = r
    BY <1>1 DEF ReadsAt
  <2>2. ConverterAt(c, r)
    BY <1>s, <2>1
  <2>3. ConverterFrame(c)
    BY <1>1, <2>2, ConverterBlock
  <2> QED
    BY <2>3 DEF ConverterFrame
<1>2. ASSUME NEW a \in Axis, NEW r \in 1 .. 8, Op = bmx055_read(a)[r]
      PROVE  C' = C
  BY <1>2, AxisQuiet
<1>3. ASSUME Op = Compute
      PROVE  C' = C
  BY <1>3, DoCompute
<1> QED
  BY <1>1, <1>2, <1>3, TaskAt

LEMMA VerifySensorStep ==
  ASSUME LongEnough, boot = <<>>, boot' = boot, served \in Nat, ~undone, ProgramInv, ReadInv,
         VerifyInv, SensorTask
  PROVE  VerifyInv'
<1>1. CASE job # <<>>
  <2>1. job' = Tail(job) /\ served' = served
    BY <1>1, ActionOf
  <2>2. /\ Place \in 1 .. Len(Program) /\ Op = Program[Place] /\ Place' = Place + 1
    BY <1>1, <2>1, ProgramStep
  <2>3. PICK k \in 1 .. Len(Program) : k = Place
    BY <2>2
  <2>4. Op = Program[k] /\ Place' = k + 1
    BY <2>2, <2>3
  <2>5. CASE Op.op = "verify"
    <3>1. VerifyProm
      BY <1>1, <2>5, ActionOf
    <3>2. C' = C /\ verified' = (ms5611_verify_prom(C) = C[7] % 16)
      BY <3>1 DEF VerifyProm
    <3>3. Compared'
      BY <3>2 DEF Compared
    <3> QED
      BY <3>3 DEF VerifyInv
  <2>6. CASE Op.op # "verify" /\ served > 0
    <3>1. Program = task_sensor /\ k \in 1 .. 45
      BY <2>3, <2>6, ProgramLength
    <3>2. SampleAt(k) /\ ReadTypes
      <4>1. k \in 1 .. 46
        BY <3>1
      <4> QED
        BY <2>3, <2>6, <4>1 DEF ReadInv
    <3>3. Op = task_sensor[k]
      BY <2>4, <3>1
    <3>4. C' = C
      BY <1>1, <3>1, <3>2, <3>3, TaskKeepsWords
    <3>5. verified' = verified
      BY <1>1, <2>6 DEF SensorTask, ChipSelect, ChipDeselect, Transfer, ReadOctet, Delay,
         VerifyProm, GetMbarc, Serve, Doing
    <3>6. Compared
      BY <2>6 DEF VerifyInv
    <3> QED
      BY <3>4, <3>5, <3>6 DEF VerifyInv, Compared
  <2>7. CASE Op.op # "verify" /\ served = 0
    <3>1. Program = config_sensor /\ k \in 1 .. 52
      BY <2>3, <2>7, ProgramLength
    <3>2. k # 52
      <4>1. ASSUME k = 52
            PROVE  Op.op = "verify"
        <5>1. Op = config_sensor[48 + 4]
          BY <2>4, <3>1, <4>1
        <5>2. config_sensor[48 + 4] = Check[4]
          BY ConfigOps, CheckOps DEF Part
        <5> QED
          BY <5>1, <5>2, CheckOps, OperationFields
      <4> QED
        BY <2>7, <4>1
    <3>3. Place' # 53 /\ ~(served' > 0)
      BY <2>1, <2>4, <2>7, <3>1, <3>2
    <3> QED
      BY <3>3 DEF VerifyInv
  <2> QED
    BY <2>5, <2>6, <2>7
<1>2. CASE job = <<>>
  <2>1. Serve
    BY <1>2 DEF SensorTask, ChipSelect, ChipDeselect, Transfer, ReadOctet, Delay, VerifyProm,
       GetMbarc, Doing
  <2>2. UNCHANGED <<C, verified>>
    BY <2>1 DEF Serve
  <2>3. served > 0 \/ Place = 53
    BY <1>2, ProgramEnds
  <2>4. Compared
    BY <2>3 DEF VerifyInv
  <2> QED
    BY <2>2, <2>4 DEF VerifyInv, Compared
<1> QED
  BY <1>1, <1>2

LEMMA VerifySteps ==
  ASSUME LongEnough, BoardInv, BoardInv', ~undone, ReadInv, VerifyInv, [Next]_vars
  PROVE  VerifyInv'
<1>1. ASSUME boot = <<>>, SensorTask, UNCHANGED <<boot, alertvars>>
      PROVE  VerifyInv'
  <2>1. served \in Nat /\ ProgramInv /\ boot' = boot
    BY <1>1 DEF BoardInv
  <2> QED
    BY <1>1, <2>1, VerifySensorStep
<1>2. CASE Boot
  <2>1. /\ boot # <<>> /\ UNCHANGED <<C, verified, served>> /\ boot' = Tail(boot)
    BY <1>2 DEF Boot
  <2>2. served = 0
    BY <2>1 DEF BoardInv, StartInv
  <2>3. boot' = <<>> => Place' = 1
    <3>1. ASSUME boot' = <<>>
          PROVE  Place' = 1
      <4>1. job' = config_sensor
        BY <1>2, <3>1 DEF Boot
      <4>2. Program' = config_sensor
        BY <2>1, <2>2 DEF Program
      <4>3. Closed(config_sensor)
        BY ProgramsClosed
      <4> QED
        BY <4>1, <4>2, <4>3, ProgramStarts DEF Place
    <3> QED
      BY <3>1
  <2> QED
    BY <2>1, <2>2, <2>3 DEF VerifyInv
<1>3. CASE (NewSample /\ UNCHANGED <<boot, alertvars>>) \/ Alert \/ UNCHANGED vars
  <2>1. UNCHANGED <<job, C, verified, served, boot>>
    BY <1>3 DEF NewSample, Alert, Tick, Ignore, BlinkReads, BlinkOn, BlinkOff, BlinkEnd, Show,
       Blink, AlertArrives, vars, sensorvars, driver
  <2>2. Place' = Place /\ (Compared' <=> Compared)
    BY <2>1 DEF Place, Program, Compared
  <2> QED
    BY <2>1, <2>2 DEF VerifyInv
<1> QED
  BY <1>1, <1>2, <1>3 DEF Next

LEMMA VerifyKept ==
  ASSUME LongEnough
  PROVE  Spec => [](BoardInv /\ (undone \/ (ReadInv /\ VerifyInv)))
<1>1. Init => VerifyInv
  BY StartsUp DEF VerifyInv
<1>2. BoardInv /\ (undone \/ (ReadInv /\ VerifyInv)) /\ [Next]_vars
        => (BoardInv /\ (undone \/ (ReadInv /\ VerifyInv)))'
  BY BoardSteps, ReadSteps, VerifySteps, UndoneStays
<1> QED
  BY BoardStarts, ReadStarts, <1>1, <1>2, PTL DEF Spec

\* ms5611_verify_prom: one wrong bit of the calibration, in any word and at any
\* place the CRC covers, is noticed, and a calibration received right, or wrong
\* in a bit that it leaves out, is accepted; for every calibration whose CRC is
\* right, as long as no toggle of a blink has undone what was written to its
\* port.
THEOREM BoardCorruptionNoticed ==
  ASSUME LongEnough
  PROVE  Spec => []CorruptionNoticed
<1>1. ASSUME BoardInv, ReadInv, VerifyInv
      PROVE  ErrorNoticed
  <2> SUFFICES ASSUME served > 0, ~early
               PROVE  verified <=> Protected(C) = Protected(Prom)
    BY DEF ErrorNoticed
  <2>1. boot = <<>>
    BY <1>1 DEF BoardInv, StartInv
  <2>2. served \in Nat /\ ProgramInv /\ Len(Program) = 45
    BY <1>1, <2>1, ProgramLength DEF BoardInv
  <2>3. PICK k \in 1 .. 46 : Place = k
    BY <2>2 DEF ProgramInv
  <2>4. SampleAt(k) /\ ReadTypes
    BY <1>1, <2>1, <2>3 DEF ReadInv
  <2>5. \A u \in Word : C[u] = Flipped(u, baro.error)
    <3>1. early = FALSE
      OBVIOUS
    <3> QED
      BY <2>4, <3>1 DEF SampleAt, Calibrated
  <2>6. baro.error \in Errors /\ C \in [Word -> Nat]
    BY <2>4 DEF ReadTypes
  <2>7. C \in [Word -> Short]
    <3>1. \A u \in Word : C[u] \in Short
      BY <2>5, <2>6, FlippedShort
    <3> QED
      BY <2>6, <3>1
  <2>8. Told(C)
    BY <2>5, <2>6, <2>7, ErrorTold
  <2>9. verified = (ms5611_verify_prom(C) = C[7] % 16)
    BY <1>1, <2>1 DEF VerifyInv, Compared
  <2> QED
    BY <2>8, <2>9 DEF Told
<1>2. BoardInv /\ (undone \/ (ReadInv /\ VerifyInv)) => CorruptionNoticed
  BY <1>1 DEF CorruptionNoticed
<1> QED
  BY VerifyKept, <1>2, PTL

=============================================================================
