---------------------------- MODULE MCFlashBuffer ----------------------------
(***************************************************************************)
(* Three pages of two cells, two cell values, a one-cell margin: transfers *)
(* cross up to two page boundaries, start in the middle of a page, start   *)
(* at the end of storage and wrap behind the margin.                       *)
(***************************************************************************)
EXTENDS FlashBuffer

MCMargins == {0, 1}

MCPayloads == {<<1>>, <<0, 1>>, <<1, 0, 1>>, <<1, 0, 0, 1>>}

=============================================================================
