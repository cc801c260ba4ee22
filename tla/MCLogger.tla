------------------------------- MODULE MCLogger -------------------------------
(***************************************************************************)
(* Three pages of four cells, a header of three cells and samples of three:*)
(* nine cells of ring, so headers and samples straddle page boundaries and *)
(* the end of storage.  An event of two samples fills the ring but for one *)
(* cell, less than a header takes (the firmware's ring leaves 10 bytes, and*)
(* a header takes 22).  Five events go round it several times, over gaps,  *)
(* headers that a reset cut and links into events that are gone.  The run  *)
(* of LastEventInStorage takes three pages of five cells, a ring of twelve *)
(* that five samples of two fill to the end.                               *)
(***************************************************************************)
EXTENDS Logger

=============================================================================
