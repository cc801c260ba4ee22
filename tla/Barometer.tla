------------------------------ MODULE Barometer ------------------------------
(* The pressure ms5611_get_mbarc computes from the calibration C of the     *)
(* MS5611 and a reading of each converter.  Shifts are divisions that round *)
(* down; their widths are constants, so that small ones can be checked.     *)
(* (The widths and the thresholds of the code keep every value it stores in *)
(* 32 bits within them; the rest is computed in 64.)  A definition named    *)
(* Slip... is a plausible mistake in the one that follows it.               *)
(****************************************************************************)
EXTENDS Integers

CONSTANTS TempUnit,              \* 2^8: of C5, in units of D2
          OffUnit, OffSlope,     \* 2^16, 2^7
          SensUnit, SensSlope,   \* 2^15, 2^8
          TempSlope, Bend,       \* 2^23, 2^31
          SensCut, Out,          \* 2^21, 2^15
          Warm, VeryCold         \* 2000, 3500: in hundredths of a degree

Positive == {TempUnit, OffUnit, OffSlope, SensUnit, SensSlope, TempSlope, Bend,
             SensCut, Out}

ASSUME BarometerAssumption ==
  /\ Positive \subseteq Nat \ {0}
  /\ {Warm, VeryCold} \subseteq Nat

\* How far the temperature is from the reference, 20 degrees.
Distance(C, D2) == D2 - C[5] * TempUnit
Degrees(C, D2) == (Distance(C, D2) * C[6]) \div TempSlope

Bent(C, D2) ==
  Degrees(C, D2) - IF Degrees(C, D2) < 0
                   THEN (Distance(C, D2) * Distance(C, D2)) \div Bend ELSE 0

\* MS5611_USE_COMPENSATION: the second-order terms, each with its factor.
Compensation(C, D2, half, cold, low) ==
  LET t == Degrees(C, D2) IN
  (IF t < 0 THEN 5 * ((t * t) \div half) ELSE 0)
  + (IF Bent(C, D2) < -VeryCold
     THEN cold * (((t + VeryCold) * (t + VeryCold)) \div low) ELSE 0)

Offset(C, D2) ==
  C[2] * OffUnit + (Distance(C, D2) * C[4]) \div OffSlope
  - Compensation(C, D2, 2, 7, 1)

Sensitivity(C, D2) ==
  C[1] * SensUnit + (Distance(C, D2) * C[3]) \div SensSlope
  - Compensation(C, D2, 4, 11, 2)

\* ms5611_get_last_temp.
LastTemperature(C, D2) == Bent(C, D2) + Warm

\* Slip: the reading is cut, not the sensitivity.
SlipPressure(D1, sens, off) == ((D1 \div SensCut) * sens - off) \div Out

Pressure(D1, sens, off) == (D1 * (sens \div SensCut) - off) \div Out

Mbarc(C, D1, D2) == Pressure(D1, Sensitivity(C, D2), Offset(C, D2))

\* The same without the early cut of the sensitivity.
Exact(D1, sens, off) == ((D1 * sens) \div SensCut - off) \div Out

=============================================================================
