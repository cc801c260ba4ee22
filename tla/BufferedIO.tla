------------------------------ MODULE BufferedIO ------------------------------
(***************************************************************************)
(* The operators of src/firmware/src/buffered_io.c: address arithmetic on  *)
(* the storage ring and the one-page write-back cache in front of the      *)
(* serial flash (g.flash_buffer).  A byte is abstracted to a cell; what a  *)
(* cell may hold is the parameter Cell of the modules that use this one.   *)
(*                                                                         *)
(* A "store" is a record                                                   *)
(*   flash : Addr -> Cell    the chip, written a whole page at a time      *)
(*   page  : the address of the cached page, or NoPage                     *)
(*   dirty : whether the cached page is newer than the chip                *)
(*   data  : 0 .. PageSize - 1 -> Cell    the cached page                  *)
(*                                                                         *)
(* A definition named Slip... is a plausible mistake in the operator that  *)
(* follows it.  Nothing uses it: put in that operator's place, it must     *)
(* break a property, which shows that the property watches the operator.   *)
(***************************************************************************)
EXTENDS Integers

CONSTANTS StorageSize,   \* STORAGE_SIZE, in cells
          PageSize       \* STORAGE_PAGE_SIZE, in cells

\* The chip is a whole number of pages (flash.h: 256 * 32768 by 256).
ASSUME GeometryAssumption ==
  /\ PageSize \in Nat \ {0}
  /\ StorageSize \in Nat \ {0}
  /\ StorageSize % PageSize = 0

Addr == 0 .. StorageSize - 1

Offset == 0 .. PageSize - 1

\* Slip: the mask without its complement.
SlipPageOf(a) == a % PageSize

\* addr & ~STORAGE_PAGE_MASK
PageOf(a) == a - (a % PageSize)

SamePage(a, b) == PageOf(a) = PageOf(b)

Page == {p \in Addr : p % PageSize = 0}

\* config_globals sets the address to ~0, which names no page.
NoPage == -1

Smaller(m, n) == IF m < n THEN m ELSE n

-----------------------------------------------------------------------------
(* Address arithmetic                                                      *)

\* Slip: a wrap that forgets the margin.
SlipNoMargin(x, margin) == IF x >= StorageSize THEN x % StorageSize ELSE x

\* An address equal to StorageSize is handed back as it is.
WrapAddr(x, margin) ==
  IF x > StorageSize THEN (x % StorageSize) + margin ELSE x

\* The wrap inside the transfer loop, which does treat StorageSize as past
\* the end.
XferWrap(x, margin) ==
  IF x >= StorageSize THEN (x % StorageSize) + margin ELSE x

\* The reference: the cell that the i-th cell from addr stands for, in the ring
\* [margin, StorageSize).
RingCell(addr, i, margin) ==
  IF addr + i < StorageSize
  THEN addr + i
  ELSE margin + ((addr + i - StorageSize) % (StorageSize - margin))

\* Slip: intervals on a line instead of a ring.
SlipLinearOverlap(lhsStart, lhsSize, rhsStart, rhsSize, margin) ==
  lhsStart < rhsStart + rhsSize /\ rhsStart < lhsStart + lhsSize

\* The macro m(x) leaves its argument without parentheses, so m(b - a)
\* expands to ((b - (a % k)) + k) % k: only the last term is reduced first.
RangesOverlap(lhsStart, lhsSize, rhsStart, rhsSize, margin) ==
  LET k  == StorageSize - margin
      a  == lhsStart - margin
      c  == rhsStart - margin
      Sum(x, y)  == ((x + (y % k)) + k) % k
      Diff(x, y) == ((x - (y % k)) + k) % k
      b  == Sum(a, lhsSize)
      d  == Sum(c, rhsSize)
      w0 == Diff(b, a)
      w1 == Diff(d, c)
  IN  \/ w1 # 0 /\ Diff(c, a) < w0
      \/ w0 # 0 /\ Diff(a, c) < w1

-----------------------------------------------------------------------------
(* The page cache                                                          *)

\* The content of the storage as a caller of buffered_read sees it.
View(s) ==
  [a \in Addr |-> IF s.page # NoPage /\ a - s.page \in Offset
                  THEN s.data[a - s.page]
                  ELSE s.flash[a]]

\* flash_write of a full page (external: the chip programs a page at once).
FlashWrite(f, p, d) ==
  [a \in Addr |-> IF a - p \in Offset THEN d[a - p] ELSE f[a]]

\* flash_read of a full page.
FlashRead(f, p) == [i \in Offset |-> f[p + i]]

Flush(s) ==
  IF s.dirty
  THEN [s EXCEPT !.flash = FlashWrite(s.flash, s.page, s.data), !.dirty = FALSE]
  ELSE s

\* Slips: the old data under the new address; a dirty page dropped.
SlipNotLoaded(s, p) == IF p = s.page THEN s ELSE [Flush(s) EXCEPT !.page = p]

SlipNotFlushed(s, p) ==
  IF p = s.page THEN s ELSE [s EXCEPT !.page = p, !.data = FlashRead(s.flash, p)]

GetPage(s, p) ==
  IF p = s.page
  THEN s
  ELSE [Flush(s) EXCEPT !.page = p, !.data = FlashRead(Flush(s).flash, p)]

\* memcpy into the cached page at off, of the n cells of src after the
\* first k.
CopyIn(s, off, src, k, n) ==
  [s EXCEPT !.data = [i \in Offset |-> IF i - off \in 0 .. n - 1
                                       THEN src[k + (i - off) + 1]
                                       ELSE s.data[i]],
            !.dirty = TRUE]

\* memcpy of n cells out of the cached page from off.
CopyOut(s, off, n) == [i \in 1 .. n |-> s.data[off + i - 1]]

=============================================================================
