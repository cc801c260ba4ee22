-------------------------- MODULE MCClientSession --------------------------
(* Three services are expected, and the device has one more.  An answer is *)
(* two messages long, the header of an event one.                          *)
EXTENDS ClientSession

CONSTANTS Config, Sensor, Info, Gap

MCSize == [config |-> 3, event |-> 2, sample |-> 6]
MCExpected == {Config, Sensor, Info}
MCOther == {Gap}
=============================================================================
