------------------------------- MODULE MCBoard -------------------------------
EXTENDS Board, TLC

\* The example of the chip's application note, with the CRC 11.
PromWords == (0 :> 12594) @@ (1 :> 13108) @@ (2 :> 13622) @@ (3 :> 14136)
             @@ (4 :> 14656) @@ (5 :> 16706) @@ (6 :> 17220) @@ (7 :> 17664 + 11)

\* A flipped bit that the check covers, and one that it leaves out: bit 0 of
\* word 2, bit 6 of word 7.
WrongWords == {<<2, 13622 + 1>>, <<7, 17664 + 11 + 64>>}

\* Pressures; temperatures above, below and far below the reference.
SomeReadings == [D1 |-> {5000}, D2 |-> {16806, 16646, 16506}]

\* What TLC tells states apart by: once a toggle has undone a write nothing is
\* promised of what was read, and no step depends on it.
Relevant == IF undone THEN <<hw, job, served, boot, alertvars>> ELSE vars

=============================================================================
