------------------------------ MODULE SensorBus ------------------------------
(* The sensor task and the drivers of its two sensors, the barometer MS5611 *)
(* and the accelerometer of the BMX055, on the bus they share (ms5611.c,    *)
(* bmx055.c, spi.c, task_sensor.c).  A driver routine is the sequence of    *)
(* operations it makes on the bus, and one step makes one of them; the      *)
(* chips, and the time a delay takes, are the environment.                  *)
(*                                                                          *)
(* An acceleration is the number of the sample a byte was read from.  Time  *)
(* is in tenths of a millisecond and passes in delays only.                 *)
(*                                                                          *)
(* A definition named Slip... is a plausible mistake in the one that        *)
(* follows it, which the properties must notice.                            *)
(****************************************************************************)
EXTENDS Hal, Barometer

CONSTANTS Prom,         \* the calibration words of the chip, its CRC in the last
          Wrong,        \* words that may come in wrong, <<word, what comes>>,
                        \* with one bit of the word flipped
          Readings,     \* what a converter may measure, for each of them
          Reload,       \* what the MS5611 needs after a reset, 28
          Conversion,   \* and for a conversion of precision 4, 91
          MaxSamples,   \* bound: samples of the accelerometer
          MaxRequests   \* bound: requests of the main task

Word == 0 .. 7
Converter == {"D1", "D2"}
Axis == 0 .. 2
Byte == 256
Short == 0 .. Byte * Byte - 1     \* uint16_t

ASSUME SensorAssumption ==
  /\ Prom \in [Word -> Short]
  /\ Wrong \subseteq Word \X Short
  /\ Readings \in [Converter -> SUBSET (1 .. Byte * Byte * Byte - 1)]
  /\ {Reload, Conversion, MaxSamples, MaxRequests} \subseteq Nat

VARIABLES
  hw,         \* the processor's pins and peripherals, see Hal
  job,        \* what is left of what the sensor task is doing
  val,        \* the bytes spi_read_octets has read
  C,          \* the calibration as it was received
  D,          \* D1 and D2 of ms5611_get_mbarc
  accel,      \* what bmx055_read read for each axis, low and high byte
  mbarc,      \* the last pressure
  baro,       \* MS5611: the bytes it gives next, and the conversion it does
  acc,        \* BMX055: the sample it holds, and the byte it will give
  measured,   \* history: the last value of each converter, 0 before
  verified,   \* history: what ms5611_verify_prom made of C
  early,      \* history: a reset was over before the chip was ready
  served      \* how much of the bound is used up

chips == <<baro, acc>>
driver == <<job, val, C, D, accel, mbarc>>
sensorvars == <<hw, driver, chips, measured, verified, early, served>>

Nothing == [of |-> "none"]

SensorType ==
  /\ hw \in HardwareType
  /\ val \in Nat /\ C \in [Word -> Short]
  /\ D \in [Converter -> Nat]
  /\ accel \in [Axis -> [low : 0 .. MaxSamples, high : 0 .. MaxSamples]]
  /\ mbarc \in Int
  /\ baro.out \in Seq(0 .. Byte - 1) /\ baro.busy \in 0 .. Conversion + Reload
  /\ baro.of \in Converter \cup {"none"}
  /\ acc.sample \in 0 .. MaxSamples
  /\ acc.held \in [Axis -> -1 .. MaxSamples]
  /\ acc.gives \in 0 .. MaxSamples
  /\ measured \in [Converter -> Nat]
  /\ {verified, early} \subseteq BOOLEAN /\ served \in 0 .. MaxRequests

-----------------------------------------------------------------------------
(* The operations of the drivers.                                          *)

Select(chip) == [op |-> "select", chip |-> chip]
Send(chip, byte) == [op |-> "send", chip |-> chip, byte |-> byte]
Octet(chip, place) == [op |-> "octet", chip |-> chip, place |-> place]
Wait(ticks) == [op |-> "wait", ticks |-> ticks]
Deselect(chip, name, index) ==      \* and return what was read
  [op |-> "deselect", chip |-> chip, name |-> name, index |-> index]
Compute == [op |-> "compute"]
Verify == [op |-> "verify"]

Baro == "MS5611_EN"
Acc == "BMX055_EN_ACC"

\* spi_read_octets, the most significant byte first: where each byte goes.
Weight(place) ==
  CASE place = 0 -> 1 [] place = 1 -> Byte [] place = 2 -> Byte * Byte
ReadOctets(chip, n) == [i \in 1 .. n |-> Octet(chip, n - i)]

ms5611_reset ==
  <<Select(Baro), Send(Baro, <<"reset">>), Wait(3),
    Deselect(Baro, "none", 0)>>

ms5611_get16(word) ==
  <<Select(Baro), Send(Baro, <<"prom", word>>)>> \o ReadOctets(Baro, 2)
  \o <<Deselect(Baro, "C", word)>>

\* The word with the CRC is asked for again, of no chip, and the outcome of
\* the comparison is dropped.
Check == <<Send("none", <<"prom", 7>>)>> \o ReadOctets("none", 2) \o <<Verify>>

Calibration ==
  ms5611_get16(0) \o ms5611_get16(1) \o ms5611_get16(2) \o ms5611_get16(3)
  \o ms5611_get16(4) \o ms5611_get16(5) \o ms5611_get16(6) \o ms5611_get16(7)

ms5611_init == ms5611_reset \o Calibration \o Check

Precision == 4

\* Slip: too short for the precision.
SlipTicks(precision) == 2 * precision + 1

\* delay_ms((cmd & 0x0F) * 2 + 1), where cmd ends in 2 * precision.
Ticks(precision) == (2 * precision) * 2 + 1

ms5611_read_adc(converter, precision) ==
  <<Select(Baro), Send(Baro, <<converter>>), Wait(Ticks(precision)),
    Deselect(Baro, "none", 0), Select(Baro), Send(Baro, <<"adc">>)>>
  \o ReadOctets(Baro, 3) \o <<Deselect(Baro, converter, 0)>>

ms5611_get_mbarc ==
  ms5611_read_adc("D1", Precision) \o ms5611_read_adc("D2", Precision)
  \o <<Compute>>

bmx055_get(half, axis) ==
  <<Select(Acc), Send(Acc, <<half, axis>>), Octet(Acc, 0),
    Deselect(Acc, half, axis)>>

bmx055_read(axis) == bmx055_get("low", axis) \o bmx055_get("high", axis)

\* bmx055_init looks at the chip's identity and ignores it.
config_sensor ==
  <<Select(Acc), Send(Acc, <<"id", 0>>), Octet(Acc, 0),
    Deselect(Acc, "none", 0)>>
  \o ms5611_init

\* task_sensor for the one request the main task makes.
task_sensor ==
  ms5611_get_mbarc \o bmx055_read(0) \o bmx055_read(1) \o bmx055_read(2)

-----------------------------------------------------------------------------
(* ms5611_verify_prom: the CRC over the 16 bytes, the last of them as 0.   *)

\* Slip: only the CRC itself is taken as 0.
SlipBytesOf(words) ==
  [i \in 0 .. 15 |-> IF i = 15 THEN (words[7] % Byte) - (words[7] % 16)
                     ELSE IF i % 2 = 1 THEN words[i \div 2] % Byte
                     ELSE words[i \div 2] \div Byte]

BytesOf(words) ==
  [i \in 0 .. 15 |-> IF i = 15 THEN 0
                     ELSE IF i % 2 = 1 THEN words[i \div 2] % Byte
                     ELSE words[i \div 2] \div Byte]

Xor[a \in Short] ==
  [b \in Short |-> IF a = 0 THEN b ELSE ((a + b) % 2) + 2 * Xor[a \div 2][b \div 2]]

\* One bit of the byte that joined the remainder.
OneShift(rem) ==
  IF rem >= 32768 THEN Xor[(2 * rem) % (Byte * Byte)][12288] ELSE 2 * rem

Shifted[n \in 0 .. 8] ==
  [rem \in Short |-> IF n = 0 THEN rem ELSE Shifted[n - 1][OneShift(rem)]]

Remainder(words) ==
  LET after[n \in 0 .. 16] ==
        IF n = 0 THEN 0 ELSE Shifted[8][Xor[after[n - 1]][BytesOf(words)[n - 1]]]
  IN  after[16]

ms5611_verify_prom(words) == Remainder(words) \div 4096

Bits == {1, 2, 4, 8, 16, 32, 64, 128, 256, 512, 1024, 2048, 4096, 8192, 16384, 32768}

\* The chip comes with the CRC of its words; an error is one bit flipped.
ASSUME PromAssumption ==
  /\ ms5611_verify_prom(Prom) = Prom[7] % 16
  /\ \A error \in Wrong : \E bit \in Bits : error[2] = Xor[Prom[error[1]]][bit]

-----------------------------------------------------------------------------
(* The chips.                                                              *)

Selected == {p \in Enable : hw.pin[p].mode = "input" \/ DrivesLow(hw, p)}

MsbFirst(value, n) == [i \in 1 .. n |-> (value \div Weight(n - i)) % Byte]

\* A word of the calibration on the wire, with the error there may be in it.
Flipped(word, error) ==
  IF word = error[1] THEN error[2] ELSE Prom[word]

\* The MS5611 takes the first byte of a selection for a command.
BaroTakes(byte) ==
  CASE byte[1] = "reset" ->
         /\ baro' = [out |-> <<>>, of |-> "none", busy |-> Reload, error |-> baro.error]
         /\ UNCHANGED measured
    [] byte[1] = "prom" ->
         /\ baro' = [baro EXCEPT !.out =
              MsbFirst(IF baro.busy > 0 THEN 0 ELSE Flipped(byte[2], baro.error), 2)]
         /\ UNCHANGED measured
    [] byte[1] \in Converter ->
         /\ baro' = [baro EXCEPT !.of = byte[1], !.busy = Conversion]
         /\ UNCHANGED measured
    [] byte[1] = "adc" ->
         IF baro.of = "none" \/ baro.busy > 0
         THEN /\ baro' = [baro EXCEPT !.out = <<0, 0, 0>>]
              /\ UNCHANGED measured
         ELSE \E reading \in Readings[baro.of] :
                /\ baro' = [baro EXCEPT !.out = MsbFirst(reading, 3), !.of = "none"]
                /\ measured' = [measured EXCEPT ![baro.of] = reading]

\* The BMX055 holds the high byte back from when the low byte is read.
AccTakes(byte) ==
  acc' = CASE byte[1] = "low" ->
                [acc EXCEPT !.gives = acc.sample, !.held[byte[2]] = acc.sample]
           [] byte[1] = "high" ->
                [acc EXCEPT !.gives = IF acc.held[byte[2]] = -1 THEN acc.sample
                                      ELSE acc.held[byte[2]],
                            !.held[byte[2]] = -1]
           [] OTHER -> acc

\* What comes back on the bus: nothing from two chips, or from none.
Miso == CASE Selected = {Baro} /\ baro.out # <<>> -> Head(baro.out)
          [] Selected = {Acc} -> acc.gives
          [] OTHER -> 0

NewSample ==
  /\ acc.sample < MaxSamples
  /\ acc' = [acc EXCEPT !.sample = @ + 1]
  /\ UNCHANGED <<hw, driver, baro, measured, verified, early, served>>

-----------------------------------------------------------------------------
(* The steps of the sensor task.                                           *)

Op == Head(job)
Doing(op) == job # <<>> /\ Op.op = op /\ job' = Tail(job)

ChipSelect ==
  /\ Doing("select")
  /\ hw' = pin_clear(hw, Op.chip)
  /\ UNCHANGED <<val, C, D, accel, mbarc, chips, measured, verified, early, served>>

ChipDeselect ==
  /\ Doing("deselect")
  /\ hw' = pin_set(hw, Op.chip)
  /\ baro' = [baro EXCEPT !.out = <<>>]
  /\ C' = IF Op.name = "C" THEN [C EXCEPT ![Op.index] = val] ELSE C
  /\ D' = IF Op.name \in Converter THEN [D EXCEPT ![Op.name] = val] ELSE D
  /\ accel' = IF Op.name \in {"low", "high"}
              THEN [accel EXCEPT ![Op.index][Op.name] = val] ELSE accel
  /\ UNCHANGED <<val, mbarc, acc, measured, verified, early, served>>

\* arch_spi_xfer of a command or an address; spi_read_octets starts from 0.
Transfer ==
  /\ Doing("send")
  /\ val' = 0
  /\ IF Baro \in Selected THEN BaroTakes(Op.byte) ELSE UNCHANGED <<baro, measured>>
  /\ IF Acc \in Selected THEN AccTakes(Op.byte) ELSE UNCHANGED acc
  /\ UNCHANGED <<hw, C, D, accel, mbarc, verified, early, served>>

ReadOctet ==
  /\ Doing("octet")
  /\ val' = val + Miso * Weight(Op.place)
  /\ baro' = IF Selected = {Baro} /\ baro.out # <<>>
             THEN [baro EXCEPT !.out = Tail(@)] ELSE baro
  /\ UNCHANGED <<hw, C, D, accel, mbarc, acc, measured, verified, early, served>>

\* vTaskDelay(n) takes more than n - 1 milliseconds, and at most n.
Delay ==
  /\ Doing("wait")
  /\ \E time \in {10 * (Op.ticks - 1) + 1, 10 * Op.ticks} :
       /\ baro' = [baro EXCEPT !.busy = IF @ > time THEN @ - time ELSE 0]
       /\ early' = (early \/ (baro.of = "none" /\ baro.busy > time))
  /\ UNCHANGED <<hw, val, C, D, accel, mbarc, acc, measured, verified, served>>

VerifyProm ==
  /\ Doing("verify")
  /\ verified' = (ms5611_verify_prom(C) = C[7] % 16)
  /\ UNCHANGED <<hw, val, C, D, accel, mbarc, chips, measured, early, served>>

GetMbarc ==
  /\ Doing("compute")
  /\ mbarc' = Mbarc(C, D["D1"], D["D2"])
  /\ UNCHANGED <<hw, val, C, D, accel, chips, measured, verified, early, served>>

\* A request for both samples arrives; the histories of the last one end.
Serve ==
  /\ job = <<>> /\ served < MaxRequests
  /\ job' = task_sensor /\ served' = served + 1
  /\ measured' = [c \in Converter |-> 0]
  /\ UNCHANGED <<hw, val, C, D, accel, mbarc, chips, verified, early>>

SensorTask == \/ ChipSelect \/ ChipDeselect \/ Transfer \/ ReadOctet \/ Delay
              \/ VerifyProm \/ GetMbarc \/ Serve

SensorInit ==
  /\ job = <<>> /\ val = 0 /\ mbarc = 0
  /\ C = [w \in Word |-> 0] /\ D = [c \in Converter |-> 0]
  /\ accel = [x \in Axis |-> [low |-> 0, high |-> 0]]
  /\ \E error \in Wrong \cup {<<-1, 0>>} :
       baro = [out |-> <<>>, of |-> "none", busy |-> 0, error |-> error]
  /\ acc = [sample |-> 0, held |-> [x \in Axis |-> -1], gives |-> 0]
  /\ measured = [c \in Converter |-> 0]
  /\ verified = FALSE /\ early = FALSE /\ served = 0

-----------------------------------------------------------------------------
(* Properties.                                                             *)

\* The samples of a request are in.
Complete == job = <<>> /\ served > 0

\* ms5611.c, bmx055.c, periph.c: of the chips in `some`, a transfer finds
\* exactly the one selected that its driver talks to, and one outside of
\* every selection, or a task that waits, finds none.
BusDiscipline(some) ==
  /\ job # <<>> /\ Op.op \in {"send", "octet"} => Selected \cap some = {Op.chip} \cap some
  /\ job # <<>> /\ Op.op \in {"select", "verify", "compute"} => Selected \cap some = {}
  /\ Complete => Selected \cap some = {}

\* bmx055_read, ms5611_read_adc, ms5611_init: what the readings are made of is
\* what the chips had: the two bytes of an acceleration are of one sample,
\* although the chip may take a new one between the transfers; each converter
\* was measured for this request and read when it was complete, however short
\* the delay turned out; every word of the calibration is where the formula
\* looks for it, unless the reset took longer than the driver waited, or the
\* word came in wrong.
ReadTrue ==
  /\ Complete => /\ \A x \in Axis : accel[x].low = accel[x].high
                 /\ \A c \in Converter : D[c] = measured[c] /\ D[c] # 0
  /\ served > 0 /\ ~early => \A w \in Word : C[w] = Flipped(w, baro.error)

\* What the CRC protects: all but four bits of the last word.
Protected(words) == [words EXCEPT ![7] = <<@ \div Byte, @ % 16>>]

\* ms5611_verify_prom: one wrong bit in what the check covers is noticed,
\* and a calibration received right is accepted.  (The driver ignores it.)
ErrorNoticed ==
  served > 0 /\ ~early => (verified <=> Protected(C) = Protected(Prom))

\* ms5611_get_mbarc cuts the sensitivity before it multiplies: the pressure
\* is never too high by that, and too low by no more than D1 / 2^15 + 1.
ShortByCut ==
  Complete =>
    LET exact == Exact(D["D1"], Sensitivity(C, D["D2"]), Offset(C, D["D2"])) IN
    exact - mbarc \in 0 .. D["D1"] \div Out + 1

=============================================================================
