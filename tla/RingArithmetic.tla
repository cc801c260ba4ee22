---------------------------- MODULE RingArithmetic ----------------------------
(***************************************************************************)
(* The address arithmetic of buffered_io.c against its meaning on the ring *)
(* of cells behind the margin: a caller asks about two spans, the code     *)
(* answers.                                                                *)
(***************************************************************************)
EXTENDS BufferedIO

CONSTANT Past      \* bound: how far past the end of storage a span may start

ASSUME PastAssumption == Past \in Nat

VARIABLES query,   \* the arguments of buffered_ranges_overlap
          answer   \* its result, or "none" before the call

vars == <<query, answer>>

\* Spans that do not cover the whole ring, as the logger asks about.  A start
\* may lie past the end: an event that follows one ending there starts there.
Spans(margin) ==
  [lhsStart : margin .. StorageSize + Past, lhsSize : 0 .. StorageSize - margin - 1,
   rhsStart : margin .. StorageSize + Past, rhsSize : 0 .. StorageSize - margin - 1,
   margin : {margin}]

Init ==
  /\ \E margin \in 0 .. StorageSize - 1 : query \in Spans(margin)
  /\ answer = "none"

Ask ==
  /\ answer = "none"
  /\ answer' = IF RangesOverlap(query.lhsStart, query.lhsSize, query.rhsStart,
                                query.rhsSize, query.margin)
               THEN "overlap" ELSE "disjoint"
  /\ UNCHANGED query

Spec == Init /\ [][Ask]_vars

-----------------------------------------------------------------------------
(* Properties                                                              *)

\* The ring cells of a span.
SpanCells(start, size, margin) == {RingCell(start, i, margin) : i \in 0 .. size - 1}

\* buffered_ranges_overlap says "overlap" when the two spans share a cell and
\* only then, across the wrap, for empty spans, and in spite of the macro m(x)
\* reducing only the last term of its argument.
OverlapExact ==
  answer # "none" =>
    (answer = "overlap" <=>
       SpanCells(query.lhsStart, query.lhsSize, query.margin)
         \cap SpanCells(query.rhsStart, query.rhsSize, query.margin) # {})

\* buffered_wrap_addr applied to the end of a span names the ring cell after its
\* last one, although it leaves an address equal to STORAGE_SIZE alone: the
\* transfer loop resolves that one the same way.
WrapKeepsCell ==
  LET end == query.lhsStart + query.lhsSize
  IN  end < 2 * StorageSize - query.margin =>
        RingCell(XferWrap(WrapAddr(end, query.margin), query.margin), 0, query.margin)
          = RingCell(query.lhsStart, query.lhsSize, query.margin)

=============================================================================
