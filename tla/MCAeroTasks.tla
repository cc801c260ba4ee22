----------------------------- MODULE MCAeroTasks -----------------------------
(* A small instance of the tasks: the constants are in the .cfg file. *)
EXTENDS AeroTasks
=============================================================================
