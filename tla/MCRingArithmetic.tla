--------------------------- MODULE MCRingArithmetic ---------------------------
(***************************************************************************)
(* All pairs of spans in a storage of eight cells, for every margin, with  *)
(* starts up to two cells past its end.                                    *)
(***************************************************************************)
EXTENDS RingArithmetic

=============================================================================
