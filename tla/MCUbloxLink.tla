----------------------------- MODULE MCUbloxLink -----------------------------
(* A small instance of the link to the GPS receiver.  A byte has 4 values. *)
(* The answer about the port is longer than a pointer, as it really is; it *)
(* is chosen so that one changed byte passes for a shorter one, the only   *)
(* way past the test of its length.  "long" is a message that the buffer   *)
(* cannot hold, "sat" a report that is no position.                         *)
EXTENDS UbloxLink

MCKind == {"prt", "ver", "ack", "pvt", "sat", "long"}
MCClassId == [prt |-> <<2, 0>>, ver |-> <<3, 1>>, ack |-> <<0, 1>>,
              pvt |-> <<1, 2>>, sat |-> <<1, 1>>, long |-> <<1, 3>>]
MCBody == [prt |-> <<2, 1>>, ver |-> <<0, 0, 0>>, ack |-> <<2>>,
           pvt |-> <<1, 2>>, sat |-> <<3>>, long |-> <<0, 0, 0, 0, 0, 0, 0>>]
=============================================================================
