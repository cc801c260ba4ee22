-------------------------------- MODULE Filter --------------------------------
(***************************************************************************)
(* The running mean of filter.c: a ring of the last values, zeroed when an *)
(* event starts.  A filter is a record; its operations return the new one. *)
(* Values are small enough for the sum not to overflow (a pressure is      *)
(* below 2^17, the accumulator has 32 bits).                               *)
(***************************************************************************)
EXTENDS Integers

CONSTANT FilterLength           \* FILTER_LEN

ASSUME FilterAssumption == FilterLength \in Nat \ {0}

Slot == 0 .. FilterLength - 1

FilterInit == [values |-> [i \in Slot |-> 0], length |-> 0, index |-> 0]

FilterAdd(f, v) ==
  [values |-> [f.values EXCEPT ![f.index] = v],
   length |-> IF f.length < FilterLength THEN f.length + 1 ELSE f.length,
   index  |-> (f.index + 1) % FilterLength]

\* The loop of filter_add_value over the whole ring.
Total(values) ==
  LET Sum[i \in 0 .. FilterLength] == IF i = 0 THEN 0 ELSE values[i - 1] + Sum[i - 1]
  IN  Sum[FilterLength]

SlipFilterMean(f) ==             \* counts the slots not used yet
  Total(f.values) \div FilterLength

\* What filter_add_value returns; the quotient is truncated.
FilterMean(f) == Total(f.values) \div f.length
=============================================================================
