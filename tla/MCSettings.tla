------------------------------ MODULE MCSettings ------------------------------
(* A small instance of the configuration.  With alarms from 2 to 3 one     *)
(* value is refused and one is the highest allowed.                        *)
EXTENDS Settings

MCVals == {<<1, 3>>, <<3, 4>>}
=============================================================================
