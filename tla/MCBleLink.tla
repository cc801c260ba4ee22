------------------------------ MODULE MCBleLink ------------------------------
(* Small instances of the radio link: the constants are in the .cfg files. *)
EXTENDS BleLink
=============================================================================
