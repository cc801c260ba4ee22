----------------------------- MODULE FlashBuffer -----------------------------
(***************************************************************************)
(* The buffered storage of src/firmware/src/buffered_io.c as a state       *)
(* machine: a caller starts transfers, each pass of the transfer loop is a *)
(* step, and a reset may fall between any two of them.  Every step         *)
(* programs at most one page of the chip, so a reset between steps is a    *)
(* reset between any two page programs.                                    *)
(***************************************************************************)
EXTENDS BufferedIO, Sequences

CONSTANTS Cell,      \* what one cell of storage holds
          Zero,      \* what RAM holds after a reset (.bss)
          Margins,   \* values of start_margin: 0, or the size of the header
          Payloads,  \* bound: what callers write, non-empty sequences of cells
          MaxLen     \* bound: the longest transfer a caller asks for

ASSUME CallerAssumption ==
  /\ Zero \in Cell
  /\ Margins \subseteq 0 .. StorageSize - 1
  /\ MaxLen \in Nat
  /\ Payloads \subseteq {c \in Seq(Cell) : Len(c) \in 1 .. MaxLen}
  /\ \A m \in Margins : MaxLen <= StorageSize - m

VARIABLES store,   \* the chip and g.flash_buffer, see BufferedIO
          xfer,    \* the locals of buffered_xfer_wrapped
          before   \* history: what a reader saw when the transfer began

storeVars == <<store, xfer, before>>

\* The store after a reset: the chip keeps its content, RAM is cleared and
\* config_globals invalidates the cached address.
PowerUp(flash) ==
  [flash |-> flash, page |-> NoPage, dirty |-> FALSE, data |-> [i \in Offset |-> Zero]]

NoXfer == [dir |-> "none", start |-> 0, at |-> 0, len |-> 0, moved |-> 0,
           margin |-> 0, cells |-> <<>>]

StoreInit ==
  /\ store \in {PowerUp(f) : f \in [Addr -> Cell]}
  /\ xfer = NoXfer
  /\ before = View(store)

\* The addresses a caller may pass: it may have added a size to an address in
\* storage without wrapping the sum, as logger_init_event does.
Reach(margin) == 0 .. 2 * StorageSize - margin - 1

\* The loop is over: nothing remains, or the end of storage was reached with
\* no margin to wrap to.
XferDone ==
  \/ xfer.moved = xfer.len
  \/ xfer.at >= StorageSize /\ xfer.margin = 0

\* Entry of buffered_xfer_wrapped on a store s: make sure the buffer is clean.
Begin(dir, s, addr, len, margin, cells) ==
  /\ store' = Flush(s)
  /\ xfer' = [dir |-> dir, start |-> addr, at |-> addr, len |-> len, moved |-> 0,
              margin |-> margin, cells |-> cells]
  /\ before' = View(s)

BeginWrite(s, addr, cells, margin) ==
  Begin("write", s, addr, Len(cells), margin, cells)

BeginRead(s, addr, len, margin) ==
  Begin("read", s, addr, len, margin, <<>>)

\* One pass of the transfer loop.
XferChunk ==
  LET addr == XferWrap(xfer.at, xfer.margin)
      off  == addr % PageSize
      n    == Smaller(PageSize - off, xfer.len - xfer.moved)
      s    == GetPage(store, PageOf(addr))
      step == [xfer EXCEPT !.at = addr + n, !.moved = @ + n]
  IN  /\ ~XferDone
      /\ \/ /\ xfer.dir = "read"
            /\ store' = s
            /\ xfer' = [step EXCEPT !.cells = @ \o CopyOut(s, off, n)]
         \/ /\ xfer.dir = "write"
            /\ store' = CopyIn(s, off, xfer.cells, xfer.moved, n)
            /\ xfer' = step
      /\ UNCHANGED before

\* The call returns to whoever made it.
XferReturn ==
  /\ xfer # NoXfer /\ XferDone
  /\ xfer' = NoXfer
  /\ before' = View(store)
  /\ UNCHANGED store

\* A caller asks for a page, or for a flush.
CallGetPage(p) == store' = GetPage(store, p) /\ UNCHANGED <<xfer, before>>

CallFlush == store' = Flush(store) /\ UNCHANGED <<xfer, before>>

\* Loss of RAM at any point.
Reset ==
  /\ store' = PowerUp(store.flash)
  /\ xfer' = NoXfer
  /\ before' = View(store')

\* What a caller may do between two transfers.
Call ==
  /\ xfer = NoXfer
  /\ \/ \E margin \in Margins : \E addr \in Reach(margin) :
          \/ \E cells \in Payloads : BeginWrite(store, addr, cells, margin)
          \/ \E len \in 1 .. MaxLen : BeginRead(store, addr, len, margin)
     \/ \E p \in Page : CallGetPage(p)
     \/ CallFlush

StoreNext == Call \/ XferChunk \/ XferReturn \/ Reset

StoreSpec == StoreInit /\ [][StoreNext]_storeVars

-----------------------------------------------------------------------------
(* Properties                                                              *)

StoreType ==
  [flash : [Addr -> Cell], page : Page \cup {NoPage}, dirty : BOOLEAN,
   data : [Offset -> Cell]]

XferType ==
  [dir : {"none", "read", "write"}, start : Nat, at : Nat, len : Nat,
   moved : Nat, margin : Nat, cells : Seq(Cell)]

\* The type of every variable; a transfer never moves more than it was asked
\* to, and a write always has the cells it has yet to copy.
StoreTypeOK ==
  /\ store \in StoreType
  /\ xfer \in XferType
  /\ before \in [Addr -> Cell]
  /\ xfer.margin < StorageSize
  /\ xfer.at \in Reach(xfer.margin)
  /\ xfer.moved <= xfer.len
  /\ xfer.dir = "write" => Len(xfer.cells) = xfer.len
  /\ xfer.dir = "read" => Len(xfer.cells) = xfer.moved

\* A cached page that is not dirty is the page on the chip, and only a page
\* that was loaded can be dirty: dropping a clean page or skipping a flush of
\* it (buffered_get_page, buffered_flush) loses nothing.
Coherent(s) ==
  /\ s.dirty => s.page # NoPage
  /\ ~s.dirty /\ s.page # NoPage => s.data = FlashRead(s.flash, s.page)

CacheCoherent == Coherent(store)

\* A write has changed exactly the ring cells of what it moved so far, each to
\* the cell it was given, and no other cell of the storage, however many pages
\* it crossed and wherever it wrapped; a read has changed nothing and returned
\* what was there.  Only a transfer without margin may end early
\* (buffered_xfer_wrapped).
TransferExact ==
  LET Landed(a) == {i \in 0 .. xfer.moved - 1 :
                       RingCell(xfer.start, i, xfer.margin) = a}
  IN  /\ XferDone /\ xfer.margin # 0 => xfer.moved = xfer.len
      /\ xfer.dir = "read" =>
           /\ View(store) = before
           /\ \A a \in Addr : \A i \in Landed(a) : xfer.cells[i + 1] = before[a]
      /\ xfer.dir = "write" =>
           \A a \in Addr :
             /\ Landed(a) = {} => View(store)[a] = before[a]
             /\ \A i \in Landed(a) : View(store)[a] = xfer.cells[i + 1]

\* The promise: through the page cache, the caller has a flat array and a
\* stable copy of it.
Flat == INSTANCE FlatStore WITH mem <- View(store), stable <- store.flash

ImplementsFlatStore == Flat!Spec

=============================================================================
