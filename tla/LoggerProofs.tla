----------------------------- MODULE LoggerProofs -----------------------------
(***************************************************************************)
(* Proofs about the event logger.  What its transfers do to the storage    *)
(* and what its overlap test answers is taken from FlashBufferProofs.      *)
(*                                                                         *)
(* The invariant is LogInv.  Its core is Sound: an image of the storage    *)
(* whose pointer is 0 or leads to a header (or to one that its successor   *)
(* replaced), and whose headers, those of dead events and halves of headers*)
(* that a reset left behind included, fit on the ring.  Sound is kept of   *)
(* the chip, of what is read through the cache, and of what was there when *)
(* the transfer under way began; Phase says for every place of the logger  *)
(* what it is transferring and what it knows of the open event.            *)
(*                                                                         *)
(* Which events can be listed, and with what behind their headers, takes   *)
(* more: ListInv.  There is an m such that the events after the m-th that  *)
(* still have a header are linked among themselves, the newest one is among*)
(* them and each has its samples, but for a header at the place of the next*)
(* event (Kept).  The m-th is the last one begun before the pointer was 0; *)
(* what a format left of it and of those before it may be anything.  EndInv*)
(* adds that the event ended last is the one the pointer names (Commits).  *)
(*                                                                         *)
(* That the events before the newest are found needs their links: LinkInv. *)
(* From the pointer the links lead to every ended event whose fields are   *)
(* where they were written (Chained), each a header's size or more behind  *)
(* the one that names it, so that the listing meets them all before it has *)
(* gone round the ring.                                                    *)
(***************************************************************************)
EXTENDS Logger, WellFoundedInduction, TLAPS

Buf == INSTANCE FlashBufferProofs WITH
  Cell <- LogCell, Zero <- ZeroCell, Margins <- {0, DataStart},
  Payloads <- {}, MaxLen <- 0, Past <- HeaderSize, query <- xfer, answer <- pc

-----------------------------------------------------------------------------
(* The storage under the logger                                            *)

\* The sizes, as the provers need them.
LEMMA Sizes ==
  /\ StorageSize \in Nat /\ PageSize \in Nat /\ DataStart \in Nat /\ SampleSize \in Nat
  /\ PageSize > 0 /\ SampleSize > 0 /\ HeaderSize = 2 /\ DataStart > 2
  /\ DataStart <= PageSize /\ StorageSize > DataStart + 4 + SampleSize
BY LayoutAssumption DEF HeaderSize

\* What the storage assumes of its caller holds of the logger.
LEMMA StorageAssumptions ==
  /\ Buf!GeometryAssumption /\ Buf!CallerAssumption
  /\ Buf!PastAssumption
<1>1. Buf!GeometryAssumption
  BY LayoutAssumption DEF Buf!GeometryAssumption
<1>2. Buf!CallerAssumption
  BY LayoutAssumption DEF Buf!CallerAssumption, LogCell, HeaderSize
<1>3. Buf!PastAssumption
  BY DEF Buf!PastAssumption, HeaderSize
<1> QED
  BY <1>1, <1>2, <1>3

\* The storage of the proofs about it is the one of the logger: the same
\* definitions with the same values of their parameters.
LEMMA SameStore ==
  /\ Buf!StoreType = StoreType /\ Buf!Addr = Addr /\ Buf!Page = Page
  /\ \A s : Buf!View(s) = View(s)
  /\ \A s : Buf!Coherent(s) = Coherent(s)
  /\ \A s : Buf!Flush(s) = Flush(s)
  /\ \A s, p : Buf!GetPage(s, p) = GetPage(s, p)
  /\ \A m : Buf!Reach(m) = Reach(m)
  /\ \A a : Buf!PageOf(a) = PageOf(a)
  /\ \A a, i, m : Buf!RingCell(a, i, m) = RingCell(a, i, m)
BY DEF Buf!StoreType, StoreType, Buf!View, View, Buf!Coherent, Coherent,
  Buf!Flush, Flush, Buf!GetPage, GetPage, Buf!FlashRead, FlashRead,
  Buf!FlashWrite, FlashWrite, Buf!Addr, Addr, Buf!Offset, Offset, Buf!Page, Page,
  Buf!NoPage, NoPage, Buf!Reach, Reach, Buf!PageOf, PageOf, Buf!RingCell, RingCell

\* The same for what is stated of the state and of the next one.
LEMMA SameTypes ==
  /\ Buf!StoreTypeOK <=> StoreTypeOK
  /\ Buf!StoreTypeOK' <=> StoreTypeOK'
  /\ Buf!CacheCoherent <=> CacheCoherent
  /\ Buf!CacheCoherent' <=> CacheCoherent'
BY DEF Buf!StoreTypeOK, StoreTypeOK, Buf!XferType, XferType, Buf!StoreType,
  StoreType, Buf!Reach, Reach, Buf!Addr, Addr, Buf!Offset, Offset, Buf!Page, Page,
  Buf!NoPage, NoPage, Buf!CacheCoherent, CacheCoherent, Buf!Coherent, Coherent,
  Buf!FlashRead, FlashRead

\* The same for the steps of a transfer.
LEMMA SameSteps ==
  /\ Buf!XferDone <=> XferDone
  /\ Buf!XferChunk <=> XferChunk
  /\ Buf!Reset <=> Reset
  /\ \A dir, s, addr, len, margin, cells :
       Buf!Begin(dir, s, addr, len, margin, cells) <=> Begin(dir, s, addr, len, margin, cells)
BY DEF Buf!XferDone, XferDone, Buf!Addr, Addr, Buf!Offset, Offset, Buf!Page, Page,
  Buf!NoPage, NoPage, Buf!XferChunk, XferChunk, Buf!XferWrap, XferWrap, Buf!Smaller,
  Smaller, Buf!PageOf, PageOf, Buf!CopyIn, CopyIn, Buf!CopyOut, CopyOut, Buf!GetPage,
  GetPage, Buf!FlashRead, FlashRead, Buf!FlashWrite, FlashWrite, Buf!Flush, Flush,
  Buf!Reset, Reset, Buf!PowerUp, PowerUp, Buf!NoXfer, NoXfer, Buf!View, View,
  Buf!Begin, Begin

\* A pass of the transfer loop.
LEMMA ChunkFacts ==
  ASSUME StoreTypeOK, CacheCoherent, Buf!On, Buf!Moved, XferChunk
  PROVE  /\ StoreTypeOK' /\ CacheCoherent' /\ Buf!On' /\ Buf!Moved'
         /\ store'.flash \in {store.flash, View(store)}
         /\ before' = before
<1>1. /\ Buf!StoreTypeOK /\ Buf!CacheCoherent /\ Buf!XferChunk
  BY SameTypes, SameSteps
<1>2. /\ Buf!StoreTypeOK' /\ Buf!CacheCoherent'
      /\ store'.flash \in {store.flash, Buf!View(store)}
  BY <1>1, StorageAssumptions, Buf!ChunkStep
<1>3. Buf!On' /\ Buf!Moved'
  BY <1>1, StorageAssumptions, Buf!ChunkMoves DEF Buf!TransferInv
<1> QED
  BY <1>2, <1>3, SameTypes, SameStore DEF XferChunk

\* Entry of the transfer loop.
LEMMA BeginFacts ==
  ASSUME NEW s \in StoreType, Coherent(s),
         NEW margin \in {0, DataStart}, NEW addr \in Reach(margin),
         NEW dir \in {"read", "write"}, NEW len \in Nat, len <= StorageSize - margin,
         NEW cells \in Seq(LogCell),
         dir = "write" => Len(cells) = len, dir = "read" => Len(cells) = 0,
         Begin(dir, s, addr, len, margin, cells)
  PROVE  /\ StoreTypeOK' /\ CacheCoherent' /\ Buf!On' /\ Buf!Moved'
         /\ View(store') = View(s) /\ store'.flash = View(s)
         /\ before' = View(s)
<1>1. margin \in 0 .. StorageSize - 1
  BY Sizes
<1>2. /\ s \in Buf!StoreType /\ Buf!Coherent(s) /\ addr \in Buf!Reach(margin)
      /\ Buf!Begin(dir, s, addr, len, margin, cells)
  BY SameStore, SameSteps
<1>3. /\ Buf!StoreTypeOK' /\ Buf!CacheCoherent'
      /\ Buf!View(store') = Buf!View(s) /\ store'.flash = Buf!View(s)
  BY <1>1, <1>2, StorageAssumptions, Buf!BeginStep
<1>4. Buf!On' /\ Buf!Moved'
  BY <1>1, <1>2, StorageAssumptions, Buf!BeginMoves
<1> QED
  BY <1>3, <1>4, SameTypes, SameStore DEF Begin

\* Loading a page, and making the chip current.
LEMMA CacheFacts ==
  ASSUME NEW s \in StoreType, Coherent(s)
  PROVE  /\ View(s) \in [Addr -> LogCell]
         /\ Flush(s) \in StoreType /\ Coherent(Flush(s)) /\ Flush(s).page = s.page
         /\ Flush(s).flash = View(s) /\ View(Flush(s)) = View(s)
         /\ LET g == GetPage(s, 0)
            IN  /\ g \in StoreType /\ Coherent(g) /\ g.page = 0 /\ View(g) = View(s)
                /\ g.flash \in {s.flash, View(s)}
<1>1. s \in Buf!StoreType /\ Buf!Coherent(s) /\ 0 \in Buf!Page
  BY SameStore, Sizes DEF Page, Addr
<1>2. Buf!View(s) \in [Buf!Addr -> LogCell]
  BY <1>1, StorageAssumptions, Buf!ViewType
<1>3. /\ Buf!Flush(s) \in Buf!StoreType /\ Buf!Coherent(Buf!Flush(s))
      /\ Buf!Flush(s).page = s.page
      /\ Buf!Flush(s).flash = Buf!View(s) /\ Buf!View(Buf!Flush(s)) = Buf!View(s)
  BY <1>1, StorageAssumptions, Buf!FlushFacts
<1>4. LET g == Buf!GetPage(s, 0)
      IN  /\ g \in Buf!StoreType /\ Buf!Coherent(g) /\ g.page = 0
          /\ Buf!View(g) = Buf!View(s) /\ g.flash \in {s.flash, Buf!View(s)}
  BY <1>1, StorageAssumptions, Buf!GetPageFacts
<1> QED
  BY <1>2, <1>3, <1>4, SameStore

\* A reset.
LEMMA ResetFacts ==
  ASSUME StoreTypeOK, Reset
  PROVE  /\ StoreTypeOK' /\ CacheCoherent'
         /\ View(store') = store.flash /\ store'.flash = store.flash
<1>1. Buf!StoreTypeOK /\ Buf!Reset
  BY SameTypes, SameSteps
<1>2. /\ Buf!StoreTypeOK' /\ Buf!CacheCoherent'
      /\ Buf!View(store') = store.flash /\ store'.flash = store.flash
  BY <1>1, StorageAssumptions, Buf!ResetStep
<1> QED
  BY <1>2, SameTypes, SameStore

\* Between transfers.
LEMMA NoneMoved ==
  ASSUME xfer = NoXfer
  PROVE  Buf!On /\ Buf!Moved
<1>1. xfer = Buf!NoXfer
  BY DEF NoXfer, Buf!NoXfer
<1> QED
  BY <1>1, StorageAssumptions, Buf!NoneMoved

-----------------------------------------------------------------------------
(* Places on the ring behind the storage header                            *)

RingSize == StorageSize - DataStart

\* Where an event may start; the last of them stands for the first (WrapAddr).
EventStart == DataStart .. StorageSize

\* The i-th cell from an address.
At(addr, i) == Buf!Place(addr, i, DataStart)

\* Below one ring from an address there are only cells of the ring.
LEMMA AtInRing ==
  ASSUME NEW a \in DataStart .. StorageSize + HeaderSize, NEW i \in 0 .. RingSize
  PROVE  At(a, i) \in DataStart .. StorageSize - 1 /\ At(a, i) \in Addr
BY Sizes DEF At, Buf!Place, RingSize, Addr

\* They all differ.
LEMMA AtApart ==
  ASSUME NEW a \in DataStart .. StorageSize + HeaderSize,
         NEW i \in 0 .. RingSize - 1, NEW j \in 0 .. RingSize - 1, At(a, i) = At(a, j)
  PROVE  i = j
BY Sizes DEF At, Buf!Place, RingSize

\* They are what CellAt looks at.
LEMMA CellAtIs ==
  ASSUME NEW f, NEW a \in EventStart, NEW i \in 0 .. RingSize - 1
  PROVE  CellAt(f, a, i) = f[At(a, i)]
<1>1. DataStart \in 0 .. StorageSize - 1 /\ a \in Buf!Reach(DataStart)
      /\ i \in 0 .. StorageSize - DataStart - 1
  BY Sizes DEF EventStart, RingSize, Buf!Reach
<1>2. Buf!RingCell(a, i, DataStart) = At(a, i)
  BY <1>1, StorageAssumptions, Buf!PlaceIsRingCell DEF At
<1> QED
  BY <1>2, SameStore DEF CellAt

\* An address that was wrapped names the same cell.
LEMMA WrapIs ==
  ASSUME NEW x \in Nat, x <= StorageSize + RingSize - 1
  PROVE  /\ WrapAddr(x, DataStart) = IF x > StorageSize THEN (x - StorageSize) + DataStart ELSE x
         /\ x >= DataStart => WrapAddr(x, DataStart) \in EventStart
<1>1. StorageSize \in Nat \ {0} /\ x < 2 * StorageSize
  BY Sizes DEF RingSize
<1>2. x % StorageSize = IF x < StorageSize THEN x ELSE x - StorageSize
  BY <1>1, StorageAssumptions, Buf!LessThanTwo
<1> QED
  BY <1>1, <1>2, Sizes DEF WrapAddr, EventStart, RingSize

\* What follows a span that starts at an address starts at its end.
LEMMA AtWrapped ==
  ASSUME NEW a \in DataStart .. StorageSize + HeaderSize, NEW t \in 0 .. RingSize,
         a + t <= StorageSize + RingSize - 1
  PROVE  /\ WrapAddr(a + t, DataStart) \in EventStart
         /\ At(WrapAddr(a + t, DataStart), 0) = At(a, t)
<1>1. a + t \in Nat /\ a + t >= DataStart
  BY Sizes DEF RingSize
<1> QED
  BY <1>1, WrapIs, Sizes DEF At, Buf!Place, RingSize

\* The cells behind two addresses of the same cell are the same.
LEMMA AtFurther ==
  ASSUME NEW a \in DataStart .. StorageSize + HeaderSize, NEW t \in 0 .. RingSize,
         NEW b \in DataStart .. StorageSize + HeaderSize, At(b, 0) = At(a, t),
         NEW i \in 0 .. RingSize
  PROVE  At(b, i) = IF t + i <= RingSize THEN At(a, t + i) ELSE At(a, t + i - RingSize)
BY Sizes DEF At, Buf!Place, RingSize

-----------------------------------------------------------------------------
(* The invariant                                                           *)

\* An event of this header has room on the ring, and its link is one.
HeaderFits(h) == h.last \in {0} \cup EventStart /\ TotalSize(h) <= RingSize

CellFits(c) == c.kind = "fields" => HeaderFits(c.header)

\* An address where logger_read_event finds an event.
Named(f, a) == f[At(a, 0)] = Sentinel /\ f[At(a, 1)].kind = "fields"

\* One where it found an event until the successor's header began in the cell
\* before.
Replaced(f, a) == f[At(a, RingSize - 1)] = Sentinel /\ f[At(a, 0)].kind = "fields"

Last(f) == f[DataStart - 1].addr

\* What a reset may leave on the chip.
Sound(f) ==
  /\ f[DataStart - 1].kind = "last" /\ Last(f) \in {0} \cup EventStart
  /\ \A a \in Addr : CellFits(f[a])
  /\ Last(f) # 0 => Named(f, Last(f)) \/ Replaced(f, Last(f))

\* The header of the open event as logger_start_event wrote it.
OwnHeader(f) ==
  /\ f[At(ev.start, 0)] = Sentinel
  /\ f[At(ev.start, 1)]
       = FieldsCell([ev.header EXCEPT !.samples = 0, !.inProgress = TRUE])

\* The open event: its samples end where the next one goes.
Open(f) ==
  /\ ev.start \in EventStart /\ HeaderFits(ev.header)
  /\ ev.current >= DataStart
  /\ At(ev.current, 0) = At(ev.start, TotalSize(ev.header))
  /\ Last(f) \in {0, ev.start}
  /\ Last(f) = ev.start => OwnHeader(f)
  /\ FormatWhileLogging \/ Last(f) = ev.start

\* The log when no write is under way.
AtRest(f) ==
  /\ Sound(f)
  /\ IF ev.header.inProgress THEN Open(f) ELSE ev = NoEvent \/ ev.written

\* The event that logger_start_event is writing.
Fresh ==
  /\ ev.start \in EventStart /\ HeaderFits(ev.header) /\ ev.header.samples = 0
  /\ ev.header.inProgress
  /\ ev.current = ev.start + HeaderSize

Reading(addr, len) ==
  xfer.dir = "read" /\ xfer.start = addr /\ xfer.len = len /\ xfer.margin = DataStart

Writing(addr, cells, margin) ==
  /\ xfer.dir = "write" /\ xfer.start = addr /\ xfer.len = Len(cells)
  /\ xfer.cells = cells /\ xfer.margin = margin

Walking == walk.addr \in EventStart /\ HeaderFits(walk.cur)

PointerCells ==
  [i \in 1 .. DataStart |-> IF i = DataStart THEN LastCell(ev.start) ELSE Junk]

InIdle == pc = "idle" => xfer = NoXfer /\ AtRest(View(store))

InFormat ==
  pc = "format" =>
    /\ xfer = NoXfer /\ AtRest(View(store)) /\ store.page = 0
    /\ ev.header.inProgress => FormatWhileLogging

InWalk ==
  /\ pc \in {"list", "data_header"} =>
       AtRest(before) /\ Reading(walk.addr, HeaderSize) /\ Walking
  /\ pc = "data_sample" =>
       /\ AtRest(before) /\ Walking /\ walk.n < walk.cur.samples
       /\ Reading(SampleSource(walk.addr, walk.n), SampleSize)

InStartRead ==
  pc = "start_read" =>
    /\ Sound(before) /\ Last(before) \in DataStart .. StorageSize - 1
    /\ Reading(Last(before), HeaderSize)

\* The new event starts behind the one that last_event names, or behind the
\* place of a header that was not found.
InStartHeader ==
  pc = "start_header" =>
    /\ Sound(before) /\ Fresh
    /\ Writing(ev.start, HeaderCells(ev.header), DataStart)
    /\ Last(before) # 0 =>
         \E t \in HeaderSize .. RingSize :
           /\ At(ev.start, 0) = At(Last(before), t)
           /\ t = HeaderSize \/ Named(before, Last(before))

InStartFlush ==
  pc = "start_flush" =>
    /\ Sound(before) /\ Fresh /\ OwnHeader(before)
    /\ Writing(0, PointerCells, 0) /\ xfer.at = xfer.moved

InSample ==
  pc = "sample" =>
    /\ AtRest(before) /\ ev.header.inProgress
    /\ TotalSize(ev.header) + SampleSize <= RingSize
    /\ Writing(ev.current, SampleCells(ev.header.sess, ev.header.samples), DataStart)

InEndHeader ==
  pc = "end_header" =>
    /\ Sound(before) /\ ~ev.header.inProgress /\ HeaderFits(ev.header)
    /\ Writing(ev.start, HeaderCells(ev.header), DataStart)
    /\ \/ ev.start = 0
       \/ /\ ev.start \in DataStart .. StorageSize - 1
          /\ Last(before) \in {0, ev.start}
          /\ Last(before) = ev.start => Named(before, ev.start)

\* The page with the pointer is written onto itself: until the loop marks it
\* dirty it differs from the chip and nothing says so.
InEndFlush ==
  pc = "end_flush" =>
    /\ Sound(before) /\ View(store) = before /\ ~ev.header.inProgress
    /\ xfer.dir = "write" /\ xfer.start = 0 /\ xfer.len = DataStart /\ xfer.margin = 0
    /\ xfer.at = xfer.moved /\ store.page = 0
    /\ \A i \in 1 .. DataStart : xfer.cells[i] = store.data[i - 1]
    /\ xfer.moved # 0 => store.dirty

InHalt == pc \in Halted => XferDone /\ xfer.dir # "write" /\ Sound(View(store))

Phase ==
  /\ InIdle /\ InFormat /\ InWalk /\ InStartRead /\ InStartHeader /\ InStartFlush
  /\ InSample /\ InEndHeader /\ InEndFlush /\ InHalt

LogInv ==
  /\ TypeOK /\ Buf!On /\ Buf!Moved
  /\ pc # "end_flush" => CacheCoherent
  /\ Sound(store.flash)
  /\ Phase

-----------------------------------------------------------------------------
(* What a write does to the log                                            *)

Image == [Addr -> LogCell]

\* The first m of these cells were written from an address of the ring.
Wrote(f, g, a, cells, m) ==
  /\ \A x \in Addr : (\A i \in 0 .. m - 1 : At(a, i) # x) => g[x] = f[x]
  /\ \A i \in 0 .. m - 1 : g[At(a, i)] = cells[i + 1]

\* The ring is entered where it ends.
LEMMA AtRound ==
  ASSUME NEW a \in EventStart
  PROVE  At(a, RingSize) = At(a, 0)
BY Sizes DEF At, Buf!Place, RingSize, EventStart

\* The two cells of a header.
LEMMA HeaderCellsAre ==
  ASSUME NEW h \in Fields
  PROVE  /\ HeaderCells(h) \in Seq(LogCell) /\ Len(HeaderCells(h)) = HeaderSize
         /\ HeaderCells(h)[1] = Sentinel /\ HeaderCells(h)[2] = FieldsCell(h)
BY Sizes DEF HeaderCells, LogCell, Sentinel, FieldsCell

\* Only the fields of a header must fit.
LEMMA OtherCellsFit ==
  /\ CellFits(Sentinel) /\ CellFits(Junk) /\ CellFits(ZeroCell) /\ CellFits(Erased)
  /\ \A a : CellFits(LastCell(a))
  /\ \A s, n, i : CellFits(SampleCell(s, n, i))
  /\ \A h : HeaderFits(h) => CellFits(FieldsCell(h))
<1>1. /\ Sentinel.kind # "fields" /\ Junk.kind # "fields" /\ ZeroCell.kind # "fields"
      /\ Erased.kind # "fields"
      /\ \A a : LastCell(a).kind # "fields"
      /\ \A s, n, i : SampleCell(s, n, i).kind # "fields"
  BY DEF Sentinel, Junk, ZeroCell, Erased, LastCell, SampleCell
<1>2. \A h : FieldsCell(h).header = h
  BY DEF FieldsCell
<1> QED
  BY <1>1, <1>2 DEF CellFits

\* A write on the ring is behind the storage header.
LEMMA WroteBehind ==
  ASSUME NEW f, NEW g, NEW a \in DataStart .. StorageSize + HeaderSize,
         NEW cells, NEW m \in 0 .. RingSize, Wrote(f, g, a, cells, m),
         NEW x \in 0 .. DataStart - 1
  PROVE  g[x] = f[x]
<1>1. x \in Addr
  BY Sizes DEF Addr
<1>2. \A i \in 0 .. m - 1 : At(a, i) # x
  BY AtInRing, Sizes DEF RingSize
<1> QED
  BY <1>1, <1>2 DEF Wrote

\* The fields that were written are the only new ones.
LEMMA WroteFits ==
  ASSUME NEW f, NEW g, NEW a, NEW cells, NEW m \in Nat, Wrote(f, g, a, cells, m),
         \A x \in Addr : CellFits(f[x]),
         \A i \in 1 .. m : CellFits(cells[i]),
         NEW x \in Addr
  PROVE  CellFits(g[x])
<1>1. CASE \A i \in 0 .. m - 1 : At(a, i) # x
  BY <1>1 DEF Wrote
<1>2. CASE \E i \in 0 .. m - 1 : At(a, i) = x
  <2>1. PICK i \in 0 .. m - 1 : At(a, i) = x
    BY <1>2
  <2>2. g[x] = cells[i + 1] /\ i + 1 \in 1 .. m
    BY <2>1 DEF Wrote
  <2> QED
    BY <2>2
<1> QED
  BY <1>1, <1>2

\* The header of an event is written or rewritten: behind the event that
\* last_event names, or in its place.
LEMMA HeaderWritten ==
  ASSUME NEW f, NEW g, Sound(f), NEW a \in EventStart, NEW h \in Fields, HeaderFits(h),
         NEW m \in 0 .. HeaderSize, Wrote(f, g, a, HeaderCells(h), m),
         Last(f) # 0 => \E t \in HeaderSize .. RingSize :
                           /\ At(a, 0) = At(Last(f), t)
                           /\ t = HeaderSize \/ Named(f, Last(f))
  PROVE  /\ Sound(g) /\ Last(g) = Last(f)
         /\ m = HeaderSize => g[At(a, 0)] = Sentinel /\ g[At(a, 1)] = FieldsCell(h)
<1>1. /\ m \in {0, 1, 2} /\ HeaderSize = 2 /\ RingSize \in Nat /\ RingSize > 5
      /\ a \in DataStart .. StorageSize + HeaderSize
  BY Sizes DEF RingSize, EventStart
<1>2. g[DataStart - 1] = f[DataStart - 1]
  BY <1>1, WroteBehind, Sizes
<1>3. \A x \in Addr : CellFits(g[x])
  <2>1. CellFits(Sentinel) /\ CellFits(FieldsCell(h))
    BY OtherCellsFit
  <2>3. CellFits(HeaderCells(h)[1]) /\ CellFits(HeaderCells(h)[2])
    BY <2>1, HeaderCellsAre
  <2>2. \A i \in 1 .. m : i = 1 \/ i = 2
    BY <1>1
  <2> QED
    BY <1>1, <2>3, <2>2, WroteFits DEF Sound
<1>4. /\ m > 0 => g[At(a, 0)] = Sentinel
      /\ m > 1 => g[At(a, 1)] = FieldsCell(h)
  BY <1>1, HeaderCellsAre DEF Wrote
<1>5. ASSUME NEW x \in Addr, m > 0 => At(a, 0) # x, m > 1 => At(a, 1) # x
      PROVE  g[x] = f[x]
  BY <1>1, <1>5 DEF Wrote
<1>6. ASSUME Last(f) # 0
      PROVE  Named(g, Last(f)) \/ Replaced(g, Last(f))
  <2>1. PICK l \in EventStart : l = Last(f)
    BY <1>6 DEF Sound
  <2>2. PICK t \in HeaderSize .. RingSize :
           At(a, 0) = At(l, t) /\ (t = HeaderSize \/ Named(f, l))
    BY <1>6, <2>1
  <2>3. l \in DataStart .. StorageSize + HeaderSize /\ t \in 0 .. RingSize
    BY <1>1, <2>1, <2>2, Sizes DEF EventStart
  <2>4. At(a, 1) = IF t + 1 <= RingSize THEN At(l, t + 1) ELSE At(l, 1)
    <3>1. At(a, 1) = IF t + 1 <= RingSize THEN At(l, t + 1) ELSE At(l, t + 1 - RingSize)
      BY <1>1, <2>2, <2>3, AtFurther
    <3>2. t + 1 > RingSize => t + 1 - RingSize = 1
      BY <1>1, <2>2
    <3> QED
      BY <3>1, <3>2, <1>1, <2>2
  <2>5. At(l, RingSize) = At(l, 0)
    BY <2>1, AtRound
  <2>6. \A i \in 0 .. RingSize : At(l, i) \in Addr
    BY <2>3, AtInRing
  <2>7. \A i, j \in 0 .. RingSize - 1 : At(l, i) = At(l, j) => i = j
    BY <2>3, AtApart
  <2>8. CASE t <= RingSize - 2
    <3>1. g[At(l, 0)] = f[At(l, 0)] /\ g[At(l, 1)] = f[At(l, 1)]
      BY <1>1, <1>5, <2>2, <2>4, <2>6, <2>7, <2>8
    <3>2. CASE Named(f, l)
      BY <2>1, <3>1, <3>2 DEF Named
    <3>3. CASE t = HeaderSize /\ ~Named(f, l)
      <4>1. Replaced(f, l)
        BY <1>6, <2>1, <3>3 DEF Sound
      <4>2. g[At(l, RingSize - 1)] = f[At(l, RingSize - 1)]
        BY <1>1, <1>5, <2>2, <2>4, <2>6, <2>7, <2>8, <3>3
      <4> QED
        BY <2>1, <3>1, <4>1, <4>2 DEF Replaced
    <3> QED
      BY <2>2, <3>2, <3>3
  <2>9. CASE t = RingSize - 1
    <3>1. Named(f, l)
      BY <1>1, <2>2, <2>9
    <3>2. At(a, 0) = At(l, RingSize - 1) /\ At(a, 1) = At(l, 0)
      BY <1>1, <2>2, <2>4, <2>5, <2>9
    <3>3. CASE m = 2
      <4>1. g[At(l, RingSize - 1)] = Sentinel /\ g[At(l, 0)].kind = "fields"
        BY <1>4, <3>2, <3>3 DEF FieldsCell
      <4> QED
        BY <2>1, <4>1 DEF Replaced
    <3>4. CASE m < 2
      <4>1. g[At(l, 0)] = f[At(l, 0)] /\ g[At(l, 1)] = f[At(l, 1)]
        BY <1>1, <1>5, <2>6, <2>7, <3>2, <3>4
      <4> QED
        BY <2>1, <3>1, <4>1 DEF Named
    <3> QED
      BY <1>1, <3>3, <3>4
  <2>10. CASE t = RingSize
    <3>1. Named(f, l)
      BY <1>1, <2>2, <2>10
    <3>2. At(a, 0) = At(l, 0) /\ At(a, 1) = At(l, 1)
      BY <1>1, <2>2, <2>4, <2>5, <2>10
    <3>3. /\ g[At(l, 0)] = IF m > 0 THEN Sentinel ELSE f[At(l, 0)]
          /\ g[At(l, 1)] = IF m > 1 THEN FieldsCell(h) ELSE f[At(l, 1)]
      BY <1>1, <1>4, <1>5, <2>6, <2>7, <3>2
    <3> QED
      BY <2>1, <3>1, <3>3 DEF Named, FieldsCell
  <2> QED
    BY <1>1, <2>2, <2>8, <2>9, <2>10
<1> QED
  BY <1>1, <1>2, <1>3, <1>4, <1>6 DEF Sound, Last

\* The size of an event, in numbers.
LEMMA TotalIs ==
  ASSUME NEW h \in Fields
  PROVE  /\ TotalSize(h) \in Nat /\ TotalSize(h) >= HeaderSize
         /\ h.samples = 0 => TotalSize(h) = HeaderSize
         /\ TotalSize([h EXCEPT !.samples = @ + 1]) = TotalSize(h) + SampleSize
<1>1. PICK n \in Nat, k \in Nat : n = h.samples /\ k = SampleSize
  BY Sizes DEF Fields
<1>2. n * k \in Nat /\ n * k >= 0 /\ (n + 1) * k = (n * k) + k /\ 0 * k = 0
  OBVIOUS
<1>3. [h EXCEPT !.samples = @ + 1].samples = n + 1
  BY <1>1 DEF Fields
<1> QED
  BY <1>1, <1>2, <1>3, Sizes DEF TotalSize

\* The cells of a sample.
LEMMA SampleCellsAre ==
  ASSUME NEW s \in Nat, NEW n \in Nat
  PROVE  /\ SampleCells(s, n) \in Seq(LogCell) /\ Len(SampleCells(s, n)) = SampleSize
         /\ \A i \in 1 .. SampleSize : SampleCells(s, n)[i] = SampleCell(s, n, i)
<1>1. \A i \in 1 .. SampleSize : SampleCell(s, n, i) \in LogCell
  BY DEF SampleCell, LogCell
<1>2. SampleCells(s, n) \in [1 .. SampleSize -> LogCell]
  BY <1>1 DEF SampleCells
<1> QED
  BY <1>2, Sizes DEF SampleCells

\* Writing below the pointer changes nothing in the log.
LEMMA SoundBelow ==
  ASSUME NEW f, NEW g, Sound(f),
         \A x \in DataStart - 1 .. StorageSize - 1 : g[x] = f[x],
         \A x \in Addr : CellFits(g[x])
  PROVE  /\ Sound(g) /\ Last(g) = Last(f)
         /\ \A a \in EventStart : Named(f, a) => Named(g, a)
         /\ ev.start \in EventStart /\ OwnHeader(f) => OwnHeader(g)
<1>1. \A a \in EventStart, i \in 0 .. RingSize : g[At(a, i)] = f[At(a, i)]
  <2> SUFFICES ASSUME NEW a \in EventStart, NEW i \in 0 .. RingSize
               PROVE  g[At(a, i)] = f[At(a, i)]
    OBVIOUS
  <2>1. a \in DataStart .. StorageSize + HeaderSize
    BY Sizes DEF EventStart
  <2>2. At(a, i) \in DataStart .. StorageSize - 1
    BY <2>1, AtInRing
  <2> QED
    BY <2>2, Sizes
<1>2. 0 \in 0 .. RingSize /\ 1 \in 0 .. RingSize /\ RingSize - 1 \in 0 .. RingSize
  BY Sizes DEF RingSize
<1>3. g[DataStart - 1] = f[DataStart - 1]
  BY Sizes
<1>4. \A a \in EventStart : /\ Named(f, a) => Named(g, a)
                            /\ Replaced(f, a) => Replaced(g, a)
  BY <1>1, <1>2 DEF Named, Replaced
<1>5. ev.start \in EventStart /\ OwnHeader(f) => OwnHeader(g)
  BY <1>1, <1>2 DEF OwnHeader
<1> QED
  BY <1>3, <1>4, <1>5 DEF Sound, Last

\* The pointer is set to an event, or to none.
LEMMA SoundLinked ==
  ASSUME NEW f, NEW g, NEW a, a = 0 \/ (a \in EventStart /\ Named(f, a)),
         g[DataStart - 1] = LastCell(a),
         \A x \in DataStart .. StorageSize - 1 : g[x] = f[x],
         \A x \in Addr : CellFits(g[x])
  PROVE  /\ Sound(g) /\ Last(g) = a
         /\ ev.start \in EventStart /\ OwnHeader(f) => OwnHeader(g)
<1>1. \A b \in EventStart, i \in 0 .. RingSize : g[At(b, i)] = f[At(b, i)]
  <2> SUFFICES ASSUME NEW b \in EventStart, NEW i \in 0 .. RingSize
               PROVE  g[At(b, i)] = f[At(b, i)]
    OBVIOUS
  <2>1. b \in DataStart .. StorageSize + HeaderSize
    BY Sizes DEF EventStart
  <2> QED
    BY <2>1, AtInRing
<1>2. 0 \in 0 .. RingSize /\ 1 \in 0 .. RingSize
  BY Sizes DEF RingSize
<1>3. g[DataStart - 1].kind = "last" /\ Last(g) = a
  BY DEF LastCell, Last
<1>4. a # 0 => Named(g, a)
  BY <1>1, <1>2 DEF Named
<1>5. ev.start \in EventStart /\ OwnHeader(f) => OwnHeader(g)
  BY <1>1, <1>2 DEF OwnHeader
<1> QED
  BY <1>3, <1>4, <1>5 DEF Sound

\* A sample is written behind those of its event.
LEMMA SampleWrote ==
  ASSUME NEW f, NEW g, Sound(f), Open(f), ev.header \in Fields,
         ev.current \in DataStart .. StorageSize + HeaderSize,
         TotalSize(ev.header) + SampleSize <= RingSize,
         NEW s \in Nat, NEW n \in Nat,
         NEW m \in 0 .. SampleSize, Wrote(f, g, ev.current, SampleCells(s, n), m)
  PROVE  /\ Sound(g) /\ Last(g) = Last(f)
         /\ OwnHeader(f) => OwnHeader(g)
         /\ \A i \in 0 .. TotalSize(ev.header) - 1 : g[At(ev.start, i)] = f[At(ev.start, i)]
<1> DEFINE T == TotalSize(ev.header)
<1>1. /\ T \in Nat /\ T >= 2 /\ T + SampleSize <= RingSize /\ SampleSize \in Nat
      /\ RingSize \in Nat /\ m \in 0 .. RingSize
      /\ ev.start \in DataStart .. StorageSize + HeaderSize
      /\ ev.start \in EventStart /\ At(ev.current, 0) = At(ev.start, T)
  <2>1. T \in Nat /\ T >= 2
    BY TotalIs, Sizes
  <2>2. /\ ev.start \in EventStart /\ At(ev.current, 0) = At(ev.start, T)
        /\ T + SampleSize <= RingSize
    BY DEF Open
  <2> HIDE DEF T
  <2>3. SampleSize \in Nat /\ RingSize \in Nat
    BY Sizes DEF RingSize
  <2>4. m \in 0 .. RingSize
    BY <2>1, <2>2, <2>3
  <2>5. ev.start \in DataStart .. StorageSize + HeaderSize
    BY <2>2, Sizes DEF EventStart
  <2> QED
    BY <2>1, <2>2, <2>3, <2>4, <2>5
<1> HIDE DEF T
<1>2. ASSUME NEW j \in 0 .. m - 1
      PROVE  At(ev.current, j) = At(ev.start, T + j) /\ T + j \in 0 .. RingSize - 1
  <2>1. j \in 0 .. RingSize /\ T + j <= RingSize - 1 /\ T \in 0 .. RingSize
    BY <1>1
  <2> QED
    BY <1>1, <2>1, AtFurther
<1>3. ASSUME NEW i \in 0 .. T - 1
      PROVE  g[At(ev.start, i)] = f[At(ev.start, i)]
  <2>1. i \in 0 .. RingSize - 1 /\ i \in 0 .. RingSize
    BY <1>1
  <2>2. \A j \in 0 .. m - 1 : At(ev.current, j) # At(ev.start, i)
    <3>1. ASSUME NEW j \in 0 .. m - 1, At(ev.start, T + j) = At(ev.start, i)
          PROVE  FALSE
      <4>1. T + j = i
        BY <1>1, <1>2, <2>1, <3>1, AtApart
      <4> QED
        BY <1>1, <4>1
    <3> QED
      BY <1>2, <3>1
  <2> QED
    BY <1>1, <2>1, <2>2, AtInRing DEF Wrote
<1>4. 0 \in 0 .. T - 1 /\ 1 \in 0 .. T - 1
  BY <1>1
<1>5. OwnHeader(f) => OwnHeader(g)
  BY <1>3, <1>4 DEF OwnHeader
<1>6. g[DataStart - 1] = f[DataStart - 1]
  BY <1>1, WroteBehind, Sizes
<1>7. \A x \in Addr : CellFits(g[x])
  <2>1. \A i \in 1 .. m : CellFits(SampleCells(s, n)[i])
    BY <1>1, SampleCellsAre, OtherCellsFit
  <2> QED
    BY <1>1, <2>1, WroteFits DEF Sound
<1>8. Last(f) # 0 => Named(g, Last(f))
  <2>1. ASSUME Last(f) # 0
        PROVE  Named(g, Last(f))
    <3>1. Last(f) = ev.start /\ OwnHeader(g)
      BY <1>5, <2>1 DEF Open
    <3> QED
      BY <3>1 DEF Named, OwnHeader, FieldsCell
  <2> QED
    BY <2>1
<1> QED
  BY <1>3, <1>5, <1>6, <1>7, <1>8 DEF Sound, Last, T

-----------------------------------------------------------------------------
(* The log during a transfer                                               *)

\* What is read and what was read before are images of the storage.
LEMMA Images ==
  ASSUME StoreTypeOK
  PROVE  View(store) \in Image /\ before \in Image /\ store.flash \in Image
<1>1. store \in Buf!StoreType
  BY SameStore DEF StoreTypeOK
<1>2. Buf!View(store) \in [Buf!Addr -> LogCell]
  BY <1>1, StorageAssumptions, Buf!ViewType
<1> QED
  BY <1>2, SameStore DEF StoreTypeOK, StoreType, Image

\* A write on the ring, in progress.
LEMMA WrittenOnRing ==
  ASSUME Buf!Moved, xfer.dir = "write", xfer.margin = DataStart
  PROVE  Wrote(before, View(store), xfer.start, xfer.cells, xfer.moved)
BY SameStore DEF Buf!Moved, Buf!Lands, At, Wrote

\* A write of the storage header, in progress.
LEMMA WrittenAtZero ==
  ASSUME Buf!Moved, xfer.dir = "write", xfer.margin = 0, xfer.start = 0,
         xfer.moved \in 0 .. DataStart, NEW x \in Addr
  PROVE  View(store)[x] = IF x < xfer.moved THEN xfer.cells[x + 1] ELSE before[x]
<1>1. \A i \in 0 .. xfer.moved - 1 : Buf!Lands(i) = i
  BY Sizes DEF Buf!Lands, Buf!Place
<1>2. CASE x < xfer.moved
  <2>1. x \in 0 .. xfer.moved - 1
    BY <1>2, Sizes DEF Addr
  <2> QED
    BY <1>1, <1>2, <2>1, SameStore DEF Buf!Moved
<1>3. CASE ~(x < xfer.moved)
  <2>1. \A i \in 0 .. xfer.moved - 1 : Buf!Lands(i) # x
    BY <1>1, <1>3, Sizes DEF Addr
  <2> QED
    BY <1>3, <2>1, SameStore DEF Buf!Moved
<1> QED
  BY <1>2, <1>3

\* A write on the ring that is done has moved everything.
LEMMA DoneOnRing ==
  ASSUME XferDone, xfer.margin = DataStart
  PROVE  xfer.moved = xfer.len
BY Sizes DEF XferDone

\* How far a transfer has come.
LEMMA Progress ==
  ASSUME StoreTypeOK
  PROVE  xfer.moved \in 0 .. xfer.len /\ xfer.len \in Nat
BY DEF StoreTypeOK, XferType

\* What a new event's header is written into.
LEMMA StartHeaderView ==
  ASSUME TypeOK, Buf!Moved, InStartHeader, pc = "start_header"
  PROVE  /\ Sound(View(store)) /\ Last(View(store)) = Last(before)
         /\ XferDone => OwnHeader(View(store))
<1>1. /\ Sound(before) /\ Fresh /\ Writing(ev.start, HeaderCells(ev.header), DataStart)
      /\ Last(before) # 0 =>
           \E t \in HeaderSize .. RingSize :
             /\ At(ev.start, 0) = At(Last(before), t)
             /\ t = HeaderSize \/ Named(before, Last(before))
  BY DEF InStartHeader
<1>2. ev.header \in Fields /\ ev.start \in EventStart /\ HeaderFits(ev.header)
  BY <1>1 DEF Fresh, TypeOK, EventType, HeaderType
<1>3. xfer.len = HeaderSize /\ xfer.moved \in 0 .. HeaderSize
  BY <1>1, <1>2, HeaderCellsAre, Progress DEF Writing, TypeOK
<1>4. Wrote(before, View(store), ev.start, HeaderCells(ev.header), xfer.moved)
  BY <1>1, WrittenOnRing DEF Writing
<1>5. /\ Sound(View(store)) /\ Last(View(store)) = Last(before)
      /\ xfer.moved = HeaderSize => /\ View(store)[At(ev.start, 0)] = Sentinel
                                    /\ View(store)[At(ev.start, 1)] = FieldsCell(ev.header)
  <2>1. PICK f \in Image, g \in Image, a \in EventStart, h \in Fields, m \in 0 .. HeaderSize :
          /\ f = before /\ g = View(store) /\ a = ev.start /\ h = ev.header
          /\ m = xfer.moved
    BY <1>2, <1>3, Images DEF TypeOK
  <2>2. /\ Sound(f) /\ HeaderFits(h) /\ Wrote(f, g, a, HeaderCells(h), m)
        /\ Last(f) # 0 => \E t \in HeaderSize .. RingSize :
                             /\ At(a, 0) = At(Last(f), t)
                             /\ t = HeaderSize \/ Named(f, Last(f))
    BY <1>1, <1>2, <1>4, <2>1
  <2>3. /\ Sound(g) /\ Last(g) = Last(f)
        /\ m = HeaderSize => g[At(a, 0)] = Sentinel /\ g[At(a, 1)] = FieldsCell(h)
    BY <2>2, HeaderWritten
  <2> QED
    BY <2>1, <2>3
<1>6. [ev.header EXCEPT !.samples = 0, !.inProgress = TRUE] = ev.header
  BY <1>1, <1>2 DEF Fresh, Fields
<1> QED
  BY <1>1, <1>3, <1>5, <1>6, DoneOnRing DEF Writing, OwnHeader

\* The pointer to it.
LEMMA StartFlushView ==
  ASSUME TypeOK, Buf!Moved, InStartFlush, pc = "start_flush"
  PROVE  /\ Sound(View(store))
         /\ XferDone => Last(View(store)) = ev.start /\ OwnHeader(View(store))
<1> DEFINE v == View(store)
<1>1. /\ Sound(before) /\ Fresh /\ OwnHeader(before)
      /\ Writing(0, PointerCells, 0) /\ xfer.at = xfer.moved
  BY DEF InStartFlush
<1>2. ev.start \in EventStart
  BY <1>1 DEF Fresh
<1>3. /\ xfer.len = DataStart /\ xfer.moved \in 0 .. DataStart
      /\ xfer.start = 0 /\ xfer.margin = 0 /\ xfer.dir = "write"
      /\ \A i \in 1 .. DataStart :
           xfer.cells[i] = IF i = DataStart THEN LastCell(ev.start) ELSE Junk
  BY <1>1, Progress, Sizes DEF Writing, TypeOK, PointerCells
<1>4. \A x \in Addr : v[x] = IF x < xfer.moved THEN xfer.cells[x + 1] ELSE before[x]
  BY <1>3, WrittenAtZero
<1> HIDE DEF v
<1>5. \A x \in Addr : CellFits(v[x])
  <2> SUFFICES ASSUME NEW x \in Addr PROVE CellFits(v[x])
    OBVIOUS
  <2>1. CASE x < xfer.moved
    <3>1. x + 1 \in 1 .. DataStart
      BY <1>3, <2>1, Sizes DEF Addr
    <3> QED
      BY <1>3, <1>4, <2>1, <3>1, OtherCellsFit
  <2>2. CASE ~(x < xfer.moved)
    BY <1>1, <1>4, <2>2 DEF Sound
  <2> QED
    BY <2>1, <2>2
<1>6. \A x \in DataStart .. StorageSize - 1 : x \in Addr /\ v[x] = before[x]
  BY <1>3, <1>4, Sizes DEF Addr
<1>7. CASE xfer.moved = DataStart
  <2>1. v[DataStart - 1] = LastCell(ev.start)
    <3>1. DataStart - 1 \in Addr /\ DataStart - 1 < xfer.moved /\ (DataStart - 1) + 1 = DataStart
          /\ DataStart \in 1 .. DataStart
      BY <1>7, Sizes DEF Addr
    <3> QED
      BY <1>3, <1>4, <3>1
  <2>2. Named(before, ev.start)
    BY <1>1 DEF OwnHeader, Named, FieldsCell
  <2>3. Sound(v) /\ Last(v) = ev.start /\ OwnHeader(v)
    BY <1>1, <1>2, <1>5, <1>6, <2>1, <2>2, SoundLinked
  <2> QED
    BY <2>3 DEF v
<1>8. CASE xfer.moved < DataStart
  <2>1. \A x \in DataStart - 1 .. StorageSize - 1 : v[x] = before[x]
    BY <1>3, <1>4, <1>8, Sizes DEF Addr
  <2>2. Sound(v)
    BY <1>1, <1>5, <2>1, SoundBelow
  <2>3. ~XferDone
    BY <1>1, <1>3, <1>8, Sizes DEF XferDone
  <2> QED
    BY <2>2, <2>3 DEF v
<1> QED
  BY <1>3, <1>7, <1>8, Sizes

\* A sample behind the others.
LEMMA SampleView ==
  ASSUME TypeOK, Buf!Moved, InSample, pc = "sample"
  PROVE  /\ Sound(View(store)) /\ Last(View(store)) = Last(before)
         /\ OwnHeader(before) => OwnHeader(View(store))
         /\ \A i \in 0 .. TotalSize(ev.header) - 1 :
              View(store)[At(ev.start, i)] = before[At(ev.start, i)]
<1>1. /\ Sound(before) /\ Open(before) /\ TotalSize(ev.header) + SampleSize <= RingSize
      /\ Writing(ev.current, SampleCells(ev.header.sess, ev.header.samples), DataStart)
  BY DEF InSample, AtRest
<1>2. /\ ev.header \in Fields /\ ev.header.sess \in Nat /\ ev.header.samples \in Nat
      /\ ev.current \in DataStart .. StorageSize + HeaderSize
  BY <1>1, Sizes DEF TypeOK, EventType, HeaderType, Open, Fields
<1>3. xfer.moved \in 0 .. SampleSize
  BY <1>1, <1>2, SampleCellsAre, Progress DEF Writing, TypeOK
<1>4. Wrote(before, View(store), ev.current,
            SampleCells(ev.header.sess, ev.header.samples), xfer.moved)
  BY <1>1, WrittenOnRing DEF Writing
<1> QED
  BY <1>1, <1>2, <1>3, <1>4, SampleWrote

\* The final header, in place of the first; or, with no event since the reset,
\* over the storage header below the pointer.
LEMMA EndHeaderView ==
  ASSUME TypeOK, Buf!Moved, InEndHeader, pc = "end_header"
  PROVE  /\ Sound(View(store))
         /\ XferDone /\ ev.start # 0 => Named(View(store), ev.start)
<1>1. /\ Sound(before) /\ HeaderFits(ev.header)
      /\ Writing(ev.start, HeaderCells(ev.header), DataStart)
      /\ \/ ev.start = 0
         \/ /\ ev.start \in DataStart .. StorageSize - 1
            /\ Last(before) \in {0, ev.start}
            /\ Last(before) = ev.start => Named(before, ev.start)
  BY DEF InEndHeader
<1>2. ev.header \in Fields
  BY DEF TypeOK, EventType, HeaderType
<1>3. xfer.len = HeaderSize /\ xfer.moved \in 0 .. HeaderSize
  BY <1>1, <1>2, HeaderCellsAre, Progress DEF Writing, TypeOK
<1>4. Wrote(before, View(store), ev.start, HeaderCells(ev.header), xfer.moved)
  BY <1>1, WrittenOnRing DEF Writing
<1>5. CASE ev.start \in DataStart .. StorageSize - 1
  <2>1. ev.start \in EventStart
    BY <1>5, Sizes DEF EventStart
  <2>2. Last(before) # 0 => \E t \in HeaderSize .. RingSize :
                               /\ At(ev.start, 0) = At(Last(before), t)
                               /\ t = HeaderSize \/ Named(before, Last(before))
    <3>1. ASSUME Last(before) # 0
          PROVE  /\ At(ev.start, 0) = At(Last(before), RingSize)
                 /\ Named(before, Last(before))
      <4>1. Last(before) = ev.start /\ Named(before, ev.start)
        BY <1>1, <1>5, <3>1, Sizes
      <4> QED
        BY <2>1, <4>1, AtRound
    <3>2. RingSize \in HeaderSize .. RingSize
      BY Sizes DEF RingSize
    <3> QED
      BY <3>1, <3>2
  <2>3. /\ Sound(View(store))
        /\ xfer.moved = HeaderSize => /\ View(store)[At(ev.start, 0)] = Sentinel
                                      /\ View(store)[At(ev.start, 1)] = FieldsCell(ev.header)
    BY <1>1, <1>2, <1>3, <1>4, <2>1, <2>2, HeaderWritten
  <2> QED
    BY <1>1, <1>3, <2>3, DoneOnRing DEF Writing, Named, FieldsCell
<1>6. CASE ev.start = 0
  <2>1. \A i \in 0 .. xfer.moved - 1 : At(ev.start, i) < DataStart - 1
    BY <1>3, <1>6, Sizes DEF At, Buf!Place
  <2>2. \A x \in DataStart - 1 .. StorageSize - 1 : View(store)[x] = before[x]
    BY <1>4, <2>1, Sizes DEF Wrote, Addr
  <2>3. \A x \in Addr : CellFits(View(store)[x])
    <3>1. CellFits(Sentinel) /\ CellFits(FieldsCell(ev.header))
      BY <1>1, OtherCellsFit
    <3>2. \A i \in 1 .. xfer.moved : i = 1 \/ i = 2
      BY <1>3, Sizes
    <3> QED
      BY <1>1, <1>2, <1>3, <1>4, <3>1, <3>2, HeaderCellsAre, WroteFits, Sizes DEF Sound
  <2> QED
    BY <1>1, <1>6, <2>2, <2>3, SoundBelow
<1> QED
  BY <1>1, <1>5, <1>6

\* Whatever the logger is doing, what is read through the cache is sound too.
LEMMA ViewSound ==
  ASSUME LogInv
  PROVE  Sound(View(store))
<1>1. TypeOK /\ Buf!Moved /\ Phase
  BY DEF LogInv
<1>2. CASE pc = "idle"
  BY <1>1, <1>2 DEF Phase, InIdle, AtRest
<1>3. CASE pc = "format"
  BY <1>1, <1>3 DEF Phase, InFormat, AtRest
<1>4. CASE pc \in {"list", "data_header", "data_sample", "start_read"}
  <2>1. Sound(before) /\ xfer.dir = "read"
    BY <1>1, <1>4 DEF Phase, InWalk, InStartRead, AtRest, Reading
  <2> QED
    BY <1>1, <2>1, SameStore DEF Buf!Moved
<1>5. CASE pc = "start_header"
  BY <1>1, <1>5, StartHeaderView DEF Phase
<1>6. CASE pc = "start_flush"
  BY <1>1, <1>6, StartFlushView DEF Phase
<1>7. CASE pc = "sample"
  BY <1>1, <1>7, SampleView DEF Phase
<1>8. CASE pc = "end_header"
  BY <1>1, <1>8, EndHeaderView DEF Phase
<1>9. CASE pc = "end_flush"
  BY <1>1, <1>9 DEF Phase, InEndFlush
<1>10. CASE pc \in Halted
  BY <1>1, <1>10 DEF Phase, InHalt
<1> QED
  BY <1>1, <1>2, <1>3, <1>4, <1>5, <1>6, <1>7, <1>8, <1>9, <1>10 DEF TypeOK, Busy

-----------------------------------------------------------------------------
(* Steps                                                                   *)

\* Where the next step leaves the logger, one part of Phase is about it.
LEMMA PhaseNext ==
  /\ pc' = "idle" /\ InIdle' => Phase'
  /\ pc' = "format" /\ InFormat' => Phase'
  /\ pc' \in {"list", "data_header", "data_sample"} /\ InWalk' => Phase'
  /\ pc' = "start_read" /\ InStartRead' => Phase'
  /\ pc' = "start_header" /\ InStartHeader' => Phase'
  /\ pc' = "start_flush" /\ InStartFlush' => Phase'
  /\ pc' = "sample" /\ InSample' => Phase'
  /\ pc' = "end_header" /\ InEndHeader' => Phase'
  /\ pc' = "end_flush" /\ InEndFlush' => Phase'
  /\ pc' \in Halted /\ InHalt' => Phase'
BY DEF Phase, InIdle, InFormat, InWalk, InStartRead, InStartHeader, InStartFlush,
  InSample, InEndHeader, InEndFlush, InHalt, Halted

\* A step that leaves no transfer behind.
LEMMA NoXferNext ==
  ASSUME xfer' = NoXfer, store' \in StoreType, Coherent(store'), before' \in Image
  PROVE  StoreTypeOK' /\ CacheCoherent' /\ Buf!On' /\ Buf!Moved'
<1>1. Buf!On' /\ Buf!Moved'
  BY Sizes DEF Buf!On, Buf!Moved, NoXfer, Buf!Reach, Buf!XferDone
<1>2. NoXfer \in XferType
  BY DEF NoXfer, XferType
<1>3. StoreTypeOK'
  BY <1>2, Sizes DEF StoreTypeOK, NoXfer, Reach, Image
<1> QED
  BY <1>1, <1>3 DEF CacheCoherent

\* A step that begins a write.
LEMMA BeginWriteFacts ==
  ASSUME NEW s \in StoreType, Coherent(s), NEW margin \in {0, DataStart},
         NEW addr \in 0 .. StorageSize + HeaderSize, margin = 0 => addr = 0,
         NEW cells \in Seq(LogCell), Len(cells) <= StorageSize - margin,
         BeginWrite(s, addr, cells, margin)
  PROVE  /\ StoreTypeOK' /\ CacheCoherent' /\ Buf!On' /\ Buf!Moved'
         /\ View(store') = View(s) /\ store'.flash = View(s) /\ before' = View(s)
         /\ Writing(addr, cells, margin)'
         /\ xfer'.at = addr /\ xfer'.moved = 0
<1>1. addr \in Reach(margin) /\ Len(cells) \in Nat
  BY Sizes DEF Reach
<1>2. Begin("write", s, addr, Len(cells), margin, cells)
  BY DEF BeginWrite
<1>3. /\ StoreTypeOK' /\ CacheCoherent' /\ Buf!On' /\ Buf!Moved'
      /\ View(store') = View(s) /\ store'.flash = View(s) /\ before' = View(s)
  BY <1>1, <1>2, BeginFacts
<1> QED
  BY <1>2, <1>3 DEF Begin, Writing

\* A step that begins a read.
LEMMA BeginReadFacts ==
  ASSUME NEW s \in StoreType, Coherent(s), NEW addr \in EventStart,
         NEW len \in {HeaderSize, SampleSize}, BeginRead(s, addr, len, DataStart)
  PROVE  /\ StoreTypeOK' /\ CacheCoherent' /\ Buf!On' /\ Buf!Moved'
         /\ View(store') = View(s) /\ store'.flash = View(s) /\ before' = View(s)
         /\ Reading(addr, len)'
<1>1. /\ addr \in Reach(DataStart) /\ len \in Nat /\ len <= StorageSize - DataStart
  BY Sizes DEF Reach, EventStart
<1>2. Begin("read", s, addr, len, DataStart, <<>>)
  BY DEF BeginRead
<1>3. <<>> \in Seq(LogCell) /\ Len(<<>>) = 0
  OBVIOUS
<1>4. /\ StoreTypeOK' /\ CacheCoherent' /\ Buf!On' /\ Buf!Moved'
      /\ View(store') = View(s) /\ store'.flash = View(s) /\ before' = View(s)
  BY <1>1, <1>2, <1>3, BeginFacts
<1> QED
  BY <1>2, <1>4 DEF Begin, Reading

\* The cells of page 0 are those that are cached.
LEMMA PageZero ==
  ASSUME NEW s \in StoreType, s.page = 0, NEW x \in Addr
  PROVE  View(s)[x] = IF x < PageSize THEN s.data[x] ELSE s.flash[x]
BY Sizes DEF View, NoPage, Offset, Addr

\* The pointer, as it is read from the cached page.
LEMMA LoadedPointer ==
  ASSUME NEW s \in StoreType, s.page = 0, Sound(View(s))
  PROVE  LastEvent(s.data) = Last(View(s))
<1>1. DataStart - 1 \in Addr /\ DataStart - 1 < PageSize
  BY Sizes DEF Addr
<1>2. s.data[DataStart - 1] = View(s)[DataStart - 1]
  BY <1>1, PageZero
<1> QED
  BY <1>2 DEF LastEvent, Last, Sound

\* The fields of a header, by their types.
LEMMA FieldsAre ==
  ASSUME NEW c \in LogCell, c.kind = "fields"
  PROVE  c.header \in Fields
BY DEF LogCell, Erased, ZeroCell, Junk, Sentinel

\* The zeroes that stand for a header where there is none.
LEMMA NoHeaderFits == NoHeader \in Fields /\ HeaderFits(NoHeader)
BY Sizes DEF NoHeader, Fields, HeaderFits, TotalSize, RingSize

\* The header that was read, if it is one.
LEMMA HeaderRead ==
  ASSUME StoreTypeOK, Buf!Moved, XferDone, NEW a \in EventStart, Reading(a, HeaderSize),
         Sound(before)
  PROVE  /\ View(store) = before
         /\ IsEvent(xfer.cells) <=> Named(before, a)
         /\ IsEvent(xfer.cells) => /\ xfer.cells[2] = before[At(a, 1)]
                                   /\ xfer.cells[2].header \in Fields
                                   /\ HeaderFits(xfer.cells[2].header)
<1>1. xfer.moved = 2
  BY DoneOnRing, Sizes DEF Reading
<1>2. 0 \in 0 .. xfer.moved - 1 /\ 1 \in 0 .. xfer.moved - 1
  BY <1>1
<1>3. /\ View(store) = before
      /\ xfer.cells[0 + 1] = before[At(a, 0)] /\ xfer.cells[1 + 1] = before[At(a, 1)]
  BY <1>2, SameStore DEF Buf!Moved, Buf!Lands, At, Reading
<1>4. At(a, 1) \in Addr
  <2>1. a \in DataStart .. StorageSize + HeaderSize /\ 1 \in 0 .. RingSize
    BY Sizes DEF EventStart, RingSize
  <2> QED
    BY <2>1, AtInRing
<1>5. ASSUME before[At(a, 1)].kind = "fields"
      PROVE  before[At(a, 1)].header \in Fields /\ HeaderFits(before[At(a, 1)].header)
  <2>1. before[At(a, 1)] \in LogCell
    BY <1>4, Images DEF Image
  <2> QED
    BY <1>4, <1>5, <2>1, FieldsAre DEF Sound, CellFits
<1> QED
  BY <1>3, <1>5 DEF IsEvent, Named

\* What is not the storage's keeps its type.
LEMMA SameRest ==
  ASSUME TypeOK, StoreTypeOK', UNCHANGED <<pc, ev, walk, sess, done>>
  PROVE  TypeOK'
BY DEF TypeOK

\* What a pass of the transfer loop leaves alone.
LEMMA ChunkKeeps ==
  ASSUME StoreTypeOK, XferChunk
  PROVE  /\ ~XferDone /\ before' = before
         /\ xfer'.dir = xfer.dir /\ xfer'.start = xfer.start /\ xfer'.len = xfer.len
         /\ xfer'.margin = xfer.margin
         /\ xfer.dir = "write" => xfer'.cells = xfer.cells
         /\ LET addr == XferWrap(xfer.at, xfer.margin)
                n    == Smaller(PageSize - (addr % PageSize), xfer.len - xfer.moved)
            IN  xfer'.at = addr + n /\ xfer'.moved = xfer.moved + n
<1>1. xfer \in XferType
  BY DEF StoreTypeOK
<1>2. \A s : s # "read" \/ s # "write"
  OBVIOUS
<1> QED
  BY <1>1, <1>2 DEF XferChunk, XferType

\* The loop as it writes page 0 onto itself: all in one pass, which changes
\* nothing but that the page is dirty.
LEMMA SelfWrite ==
  ASSUME TypeOK, InEndFlush, pc = "end_flush", XferChunk
  PROVE  /\ store' = [store EXCEPT !.dirty = TRUE]
         /\ xfer' = [xfer EXCEPT !.at = DataStart, !.moved = DataStart]
         /\ xfer.moved < DataStart /\ XferDone'
<1>1. /\ xfer.dir = "write" /\ xfer.start = 0 /\ xfer.len = DataStart /\ xfer.margin = 0
      /\ xfer.at = xfer.moved /\ store.page = 0
      /\ \A i \in 1 .. DataStart : xfer.cells[i] = store.data[i - 1]
  BY DEF InEndFlush
<1>2. /\ xfer \in XferType /\ store \in StoreType
      /\ xfer.moved \in 0 .. DataStart
  BY <1>1, Progress DEF TypeOK, StoreTypeOK
<1>3. xfer.moved \in 0 .. DataStart - 1 /\ xfer.moved \in Nat
  BY <1>1, <1>2, Sizes DEF XferChunk, XferDone
<1>4. XferWrap(xfer.at, xfer.margin) = xfer.moved
  BY <1>1, <1>3, Sizes DEF XferWrap
<1>5. xfer.moved % PageSize = xfer.moved /\ PageOf(xfer.moved) = 0
  <2>1. \A m \in 0 .. PageSize - 1 : m % PageSize = m
    BY Sizes
  <2> QED
    BY <1>3, <2>1, Sizes DEF PageOf
<1>6. Smaller(PageSize - xfer.moved, xfer.len - xfer.moved) = DataStart - xfer.moved
  BY <1>1, <1>3, Sizes DEF Smaller
<1>7. GetPage(store, 0) = store
  BY <1>1 DEF GetPage
<1>8. /\ store' = CopyIn(store, xfer.moved, xfer.cells, xfer.moved, DataStart - xfer.moved)
      /\ xfer' = [xfer EXCEPT !.at = xfer.moved + (DataStart - xfer.moved),
                              !.moved = xfer.moved + (DataStart - xfer.moved)]
  BY <1>1, <1>4, <1>5, <1>6, <1>7, <1>2 DEF XferChunk, XferType
<1>9. xfer.moved + (DataStart - xfer.moved) = DataStart
  BY <1>3, Sizes
<1>10. [i \in Offset |-> IF i - xfer.moved \in 0 .. (DataStart - xfer.moved) - 1
                         THEN xfer.cells[xfer.moved + (i - xfer.moved) + 1]
                         ELSE store.data[i]] = store.data
  <2>1. ASSUME NEW i \in Offset, i - xfer.moved \in 0 .. (DataStart - xfer.moved) - 1
        PROVE  xfer.cells[xfer.moved + (i - xfer.moved) + 1] = store.data[i]
    <3>1. i + 1 \in 1 .. DataStart /\ xfer.moved + (i - xfer.moved) + 1 = i + 1
          /\ (i + 1) - 1 = i
      BY <1>3, <2>1, Sizes DEF Offset
    <3> QED
      BY <1>1, <3>1
  <2>2. store.data \in [Offset -> LogCell]
    BY <1>2 DEF StoreType
  <2> QED
    BY <2>1, <2>2
<1>11. store' = [store EXCEPT !.data = store.data, !.dirty = TRUE]
  BY <1>8, <1>10 DEF CopyIn
<1>12. store' = [store EXCEPT !.dirty = TRUE]
  BY <1>2, <1>11 DEF StoreType
<1>13. XferDone'
  BY <1>1, <1>2, <1>8, <1>9 DEF XferDone, XferType
<1>14. xfer' = [xfer EXCEPT !.at = DataStart, !.moved = DataStart]
  BY <1>8, <1>9
<1>15. xfer.moved < DataStart
  BY <1>3, Sizes
<1> QED
  BY <1>12, <1>13, <1>14, <1>15

\* A pass of the transfer loop, whoever it runs for.
LEMMA TransferStep ==
  ASSUME LogInv, Transfer
  PROVE  LogInv'
<1>1. /\ TypeOK /\ StoreTypeOK /\ Buf!On /\ Buf!Moved /\ Phase /\ Sound(store.flash)
      /\ XferChunk /\ ~XferDone
      /\ pc' = pc /\ ev' = ev /\ walk' = walk /\ sess' = sess /\ done' = done
  BY DEF LogInv, TypeOK, Transfer, XferChunk
<1>2. /\ before' = before
      /\ xfer'.dir = xfer.dir /\ xfer'.start = xfer.start /\ xfer'.len = xfer.len
      /\ xfer'.margin = xfer.margin
      /\ xfer.dir = "write" => xfer'.cells = xfer.cells
  BY <1>1, ChunkKeeps
<1>3. pc # "idle" /\ pc # "format" /\ pc \notin Halted
  BY <1>1 DEF Phase, InIdle, InFormat, InHalt, XferDone, NoXfer
<1>4. CASE pc = "end_flush"
  <2>1. /\ store' = [store EXCEPT !.dirty = TRUE]
        /\ xfer' = [xfer EXCEPT !.at = DataStart, !.moved = DataStart]
        /\ xfer.moved < DataStart /\ XferDone'
    BY <1>1, <1>4, SelfWrite DEF Phase
  <2>2. /\ xfer \in XferType /\ store \in StoreType
        /\ Sound(before) /\ View(store) = before /\ ~ev.header.inProgress
        /\ xfer.dir = "write" /\ xfer.start = 0 /\ xfer.len = DataStart /\ xfer.margin = 0
        /\ xfer.at = xfer.moved /\ store.page = 0
        /\ \A i \in 1 .. DataStart : xfer.cells[i] = store.data[i - 1]
    BY <1>1, <1>4 DEF Phase, InEndFlush, StoreTypeOK
  <2>3. /\ xfer'.at = DataStart /\ xfer'.moved = DataStart /\ xfer' \in XferType
        /\ xfer'.cells = xfer.cells
    BY <2>1, <2>2, Sizes DEF XferType
  <2>4. /\ store' \in StoreType /\ store'.flash = store.flash /\ store'.page = 0
        /\ store'.data = store.data /\ store'.dirty
    BY <2>1, <2>2 DEF StoreType
  <2>5. View(store') = before'
    BY <1>2, <2>2, <2>4 DEF View
  <2>6. StoreTypeOK'
    BY <1>1, <1>2, <2>2, <2>3, <2>4, Sizes DEF StoreTypeOK, Reach
  <2>7. Buf!On'
    BY <1>1, <1>2, <2>1, <2>2, SameSteps DEF Buf!On, Buf!XferDone, XferDone
  <2>8. Buf!Moved'
    <3>1. \A i \in 0 .. DataStart - 1 : Buf!Lands(i)' = i
      BY <1>2, <2>2, Sizes DEF Buf!Lands, Buf!Place
    <3>2. \A i \in 0 .. DataStart - 1 : View(store')[i] = xfer'.cells[i + 1]
      <4> SUFFICES ASSUME NEW i \in 0 .. DataStart - 1
                   PROVE  View(store')[i] = xfer'.cells[i + 1]
        OBVIOUS
      <4>1. i \in Addr /\ i < PageSize /\ i + 1 \in 1 .. DataStart /\ (i + 1) - 1 = i
        BY Sizes DEF Addr
      <4> QED
        BY <2>2, <2>3, <2>4, <4>1, PageZero
    <3> QED
      BY <1>2, <2>2, <2>3, <2>5, <3>1, <3>2, SameStore DEF Buf!Moved
  <2>9. InEndFlush'
    BY <1>1, <1>2, <2>2, <2>3, <2>4, <2>5 DEF InEndFlush
  <2>10. TypeOK'
    BY <1>1, <2>6, SameRest
  <2> QED
    BY <1>1, <1>4, <2>4, <2>7, <2>8, <2>9, <2>10, PhaseNext DEF LogInv
<1>5. CASE pc # "end_flush"
  <2>1. CacheCoherent
    BY <1>5 DEF LogInv
  <2>2. /\ StoreTypeOK' /\ CacheCoherent' /\ Buf!On' /\ Buf!Moved'
        /\ store'.flash \in {store.flash, View(store)}
    BY <1>1, <2>1, ChunkFacts
  <2>3. Sound(store'.flash)
    BY <1>1, <2>2, ViewSound
  <2>4. TypeOK'
    BY <1>1, <2>2, SameRest
  <2>5. CASE pc \in {"list", "data_header", "data_sample"}
    <3>1. InWalk'
      BY <1>1, <1>2, <2>5 DEF Phase, InWalk, AtRest, Open, OwnHeader, Reading, Walking
    <3> QED
      BY <1>1, <2>2, <2>3, <2>4, <2>5, <3>1, PhaseNext DEF LogInv
  <2>6. CASE pc = "start_read"
    <3>1. InStartRead'
      BY <1>1, <1>2, <2>6 DEF Phase, InStartRead, Reading
    <3> QED
      BY <1>1, <2>2, <2>3, <2>4, <2>6, <3>1, PhaseNext DEF LogInv
  <2>7. CASE pc = "start_header"
    <3>1. InStartHeader'
      BY <1>1, <1>2, <2>7 DEF Phase, InStartHeader, Writing, Fresh
    <3> QED
      BY <1>1, <2>2, <2>3, <2>4, <2>7, <3>1, PhaseNext DEF LogInv
  <2>8. CASE pc = "start_flush"
    <3>1. /\ Sound(before) /\ Fresh /\ OwnHeader(before)
          /\ Writing(0, PointerCells, 0) /\ xfer.at = xfer.moved
      BY <1>1, <2>8 DEF Phase, InStartFlush
    <3>2. xfer.moved \in 0 .. DataStart /\ xfer.moved # DataStart
      <4>1. xfer.len = DataStart
        BY <3>1, Sizes DEF Writing, PointerCells
      <4> QED
        BY <1>1, <4>1, Progress DEF XferDone
    <3>3. XferWrap(xfer.at, xfer.margin) = xfer.moved
      BY <3>1, <3>2, Sizes DEF XferWrap, Writing
    <3>4. xfer'.at = xfer'.moved
      BY <1>1, <3>3, ChunkKeeps
    <3>5. InStartFlush'
      BY <1>1, <1>2, <3>1, <3>4 DEF InStartFlush, Writing, Fresh, OwnHeader, PointerCells
    <3> QED
      BY <1>1, <2>2, <2>3, <2>4, <2>8, <3>5, PhaseNext DEF LogInv
  <2>9. CASE pc = "sample"
    <3>1. InSample'
      BY <1>1, <1>2, <2>9 DEF Phase, InSample, AtRest, Open, OwnHeader, Writing
    <3> QED
      BY <1>1, <2>2, <2>3, <2>4, <2>9, <3>1, PhaseNext DEF LogInv
  <2>10. CASE pc = "end_header"
    <3>1. InEndHeader'
      BY <1>1, <1>2, <2>10 DEF Phase, InEndHeader, Writing
    <3> QED
      BY <1>1, <2>2, <2>3, <2>4, <2>10, <3>1, PhaseNext DEF LogInv
  <2> QED
    BY <1>1, <1>3, <1>5, <2>5, <2>6, <2>7, <2>8, <2>9, <2>10 DEF TypeOK, Busy
<1> QED
  BY <1>4, <1>5

\* The storage keeps its type, and so do the variables of the logger.
LEMMA RestTypeOK ==
  ASSUME StoreTypeOK', pc' \in {"idle"} \cup Busy \cup Halted, ev' \in EventType,
         walk' \in [prev : HeaderType, cur : HeaderType, addr : Nat, n : Nat],
         sess' \in 0 .. MaxSessions,
         done' \subseteq [sess : Nat, start : 0 .. StorageSize, samples : Nat]
  PROVE  TypeOK'
BY DEF TypeOK

\* A new event is begun behind the last one.
LEMMA NewEvent ==
  ASSUME TypeOK, NEW s \in StoreType, Coherent(s), Sound(View(s)),
         NEW addr \in EventStart, NEW id \in Nat, NEW last \in {0} \cup EventStart,
         Last(View(s)) # 0 => \E t \in HeaderSize .. RingSize :
                                /\ At(addr, 0) = At(Last(View(s)), t)
                                /\ t = HeaderSize \/ Named(View(s), Last(View(s))),
         WriteNewEvent(s, addr, id, last)
  PROVE  LogInv'
<1>0. PICK header : header = NewHeader(id, last)
  OBVIOUS
<1>1. /\ sess < MaxSessions /\ sess' = sess + 1 /\ sess \in Nat
      /\ ev' = [header |-> header, start |-> addr, current |-> addr + HeaderSize,
                written |-> FALSE]
      /\ BeginWrite(s, addr, HeaderCells(header), DataStart)
      /\ pc' = "start_header" /\ walk' = walk /\ done' = done
  BY <1>0 DEF WriteNewEvent, TypeOK
<1>2. /\ header \in Fields /\ header.samples = 0 /\ header.inProgress /\ header.last = last
  BY <1>0, <1>1, Sizes DEF NewHeader, Fields, EventStart
<1>3. HeaderFits(header)
  <2>1. TotalSize(header) = HeaderSize
    BY <1>2, TotalIs
  <2> QED
    BY <1>2, <2>1, Sizes DEF HeaderFits, RingSize
<1>4. HeaderCells(header) \in Seq(LogCell) /\ Len(HeaderCells(header)) = HeaderSize
  BY <1>2, HeaderCellsAre
<1>5. /\ addr \in 0 .. StorageSize + HeaderSize /\ HeaderSize <= StorageSize - DataStart
      /\ DataStart # 0
  BY Sizes DEF EventStart
<1>6. /\ StoreTypeOK' /\ CacheCoherent' /\ Buf!On' /\ Buf!Moved'
      /\ View(store') = View(s) /\ store'.flash = View(s) /\ before' = View(s)
      /\ Writing(addr, HeaderCells(header), DataStart)'
  BY <1>1, <1>4, <1>5, BeginWriteFacts
<1>7. ev' \in EventType
  BY <1>1, <1>2, Sizes DEF EventType, HeaderType, EventStart
<1>8. TypeOK'
  <2>1. sess' \in 0 .. MaxSessions
    BY <1>1, LayoutAssumption
  <2> QED
    BY <1>1, <1>6, <1>7, <2>1, RestTypeOK DEF TypeOK, Busy
<1>9. Fresh'
  BY <1>1, <1>2, <1>3 DEF Fresh
<1>10. InStartHeader'
  BY <1>1, <1>6, <1>9 DEF InStartHeader, Writing
<1> QED
  BY <1>1, <1>6, <1>8, <1>10, PhaseNext DEF LogInv

\* Page 0 loaded by an idle logger.
LEMMA IdleLoad ==
  ASSUME LogInv, pc = "idle"
  PROVE  LET s == GetPage(store, 0)
         IN  /\ s \in StoreType /\ Coherent(s) /\ s.page = 0
             /\ View(s) = View(store) /\ Sound(View(s)) /\ AtRest(View(s))
             /\ s.flash \in {store.flash, View(store)}
             /\ Sound(s.flash)
             /\ LastEvent(s.data) = Last(View(s))
             /\ xfer = NoXfer
<1>1. /\ store \in StoreType /\ Coherent(store) /\ Sound(store.flash)
      /\ xfer = NoXfer /\ AtRest(View(store))
  BY DEF LogInv, TypeOK, StoreTypeOK, CacheCoherent, Phase, InIdle
<1>2. LET s == GetPage(store, 0)
      IN  /\ s \in StoreType /\ Coherent(s) /\ s.page = 0
          /\ View(s) = View(store) /\ s.flash \in {store.flash, View(store)}
  BY <1>1, CacheFacts
<1>3. Sound(View(store))
  BY <1>1 DEF AtRest
<1>4. LastEvent(GetPage(store, 0).data) = Last(View(GetPage(store, 0)))
  BY <1>2, <1>3, LoadedPointer
<1> QED
  BY <1>1, <1>2, <1>3, <1>4

\* A logger that stops for good with no transfer.
LEMMA Halting ==
  ASSUME TypeOK, pc' \in Halted, xfer' = NoXfer, before' = before,
         store' \in StoreType, Coherent(store'), Sound(store'.flash), Sound(View(store')),
         UNCHANGED <<ev, walk, sess, done>>
  PROVE  LogInv'
<1>1. before' \in Image
  BY DEF TypeOK, StoreTypeOK, Image
<1>2. StoreTypeOK' /\ CacheCoherent' /\ Buf!On' /\ Buf!Moved'
  BY <1>1, NoXferNext
<1>3. TypeOK'
  BY <1>2, RestTypeOK DEF TypeOK
<1>4. InHalt'
  BY DEF InHalt, XferDone, NoXfer
<1> QED
  BY <1>2, <1>3, <1>4, PhaseNext DEF LogInv

\* START: where the pointer is checked, and the last event read or none needed.
LEMMA StartEventStep ==
  ASSUME LogInv, StartEvent
  PROVE  LogInv'
<1>0. PICK s, last : s = GetPage(store, 0) /\ last = LastEvent(s.data)
  OBVIOUS
<1>1. TypeOK /\ pc = "idle"
  BY DEF LogInv, StartEvent
<1>2. /\ s \in StoreType /\ Coherent(s) /\ s.page = 0
      /\ Sound(View(s)) /\ Sound(s.flash)
      /\ last = Last(View(s)) /\ xfer = NoXfer
  BY <1>0, <1>1, IdleLoad
<1>3. last \in {0} \cup EventStart
  BY <1>2 DEF Sound
<1>4. \/ last >= StorageSize /\ pc' = "halt_last_event" /\ store' = s
         /\ UNCHANGED <<xfer, before, ev, walk, sess, done>>
      \/ last = 0 /\ WriteNewEvent(s, DataStart, 0, 0)
      \/ last \in 1 .. DataStart - 1
      \/ /\ last \in DataStart .. StorageSize - 1
         /\ BeginRead(s, last, HeaderSize, DataStart)
         /\ pc' = "start_read"
         /\ UNCHANGED <<ev, walk, sess, done>>
  BY <1>0 DEF StartEvent
<1>5. CASE pc' = "halt_last_event" /\ store' = s
           /\ UNCHANGED <<xfer, before, ev, walk, sess, done>>
  BY <1>1, <1>2, <1>5, Halting DEF Halted
<1>6. CASE last = 0 /\ WriteNewEvent(s, DataStart, 0, 0)
  <2>1. PICK addr \in EventStart, id \in Nat : addr = DataStart /\ id = 0
    BY Sizes DEF EventStart
  <2>2. WriteNewEvent(s, addr, id, last) /\ last \in {0} \cup EventStart /\ Last(View(s)) = 0
    BY <1>2, <1>6, <2>1
  <2> QED
    BY <1>1, <1>2, <2>2, NewEvent
<1>7. last \notin 1 .. DataStart - 1
  BY <1>3, Sizes DEF EventStart
<1>8. CASE /\ last \in DataStart .. StorageSize - 1
           /\ BeginRead(s, last, HeaderSize, DataStart)
           /\ pc' = "start_read"
           /\ UNCHANGED <<ev, walk, sess, done>>
  <2>1. last \in EventStart
    BY <1>8, Sizes DEF EventStart
  <2>2. /\ StoreTypeOK' /\ CacheCoherent' /\ Buf!On' /\ Buf!Moved'
        /\ View(store') = View(s) /\ store'.flash = View(s) /\ before' = View(s)
        /\ Reading(last, HeaderSize)'
    BY <1>2, <1>8, <2>1, BeginReadFacts
  <2>3. TypeOK'
    BY <1>1, <1>8, <2>2, RestTypeOK DEF TypeOK, Busy
  <2>4. InStartRead'
    BY <1>2, <1>8, <2>2 DEF InStartRead, Reading
  <2> QED
    BY <1>2, <1>8, <2>2, <2>3, <2>4, PhaseNext DEF LogInv
<1> QED
  BY <1>4, <1>5, <1>6, <1>7, <1>8

\* START: the new header goes behind the last event.
LEMMA StartAfterLastStep ==
  ASSUME LogInv, StartAfterLast
  PROVE  LogInv'
<1>0. PICK header, last :
        /\ header = IF IsEvent(xfer.cells) THEN xfer.cells[2].header ELSE NoHeader
        /\ last = Last(before)
  OBVIOUS
<1>1. /\ TypeOK /\ StoreTypeOK /\ Buf!Moved /\ CacheCoherent /\ XferDone
      /\ Sound(before) /\ last \in DataStart .. StorageSize - 1
      /\ Reading(last, HeaderSize)
  BY <1>0 DEF LogInv, TypeOK, StartAfterLast, Phase, InStartRead
<1>2. last \in EventStart
  BY <1>1, Sizes DEF EventStart
<1>3. /\ View(store) = before
      /\ IsEvent(xfer.cells) <=> Named(before, last)
      /\ IsEvent(xfer.cells) => /\ xfer.cells[2].header \in Fields
                                /\ HeaderFits(xfer.cells[2].header)
  BY <1>1, <1>2, HeaderRead
<1>4. header \in Fields /\ HeaderFits(header)
  BY <1>0, <1>3, NoHeaderFits
<1>5. PICK t \in HeaderSize .. RingSize :
        t = TotalSize(header) /\ (~IsEvent(xfer.cells) => t = HeaderSize)
  <2>1. TotalSize(header) \in Nat /\ TotalSize(header) >= HeaderSize
        /\ (header.samples = 0 => TotalSize(header) = HeaderSize)
    BY <1>4, TotalIs
  <2>2. TotalSize(header) <= RingSize
    BY <1>4 DEF HeaderFits
  <2>3. TotalSize(header) \in HeaderSize .. RingSize
    BY <2>1, <2>2, Sizes DEF RingSize
  <2> QED
    BY <1>0, <2>1, <2>3 DEF NoHeader
<1>6. WriteNewEvent(store, WrapAddr(last + t, DataStart), header.id + 1, last)
  BY <1>0, <1>1, <1>5 DEF StartAfterLast, Reading
<1>7. header.id + 1 \in Nat
  BY <1>4 DEF Fields
<1>8. /\ WrapAddr(last + t, DataStart) \in EventStart
      /\ At(WrapAddr(last + t, DataStart), 0) = At(last, t)
  <2>1. /\ last \in DataStart .. StorageSize + HeaderSize /\ t \in 0 .. RingSize
        /\ last + t <= StorageSize + RingSize - 1
    BY <1>1, Sizes DEF RingSize
  <2> QED
    BY <2>1, AtWrapped
<1>9. store \in StoreType /\ Coherent(store)
  BY <1>1 DEF StoreTypeOK, CacheCoherent
<1>10. \E x \in HeaderSize .. RingSize :
         /\ At(WrapAddr(last + t, DataStart), 0) = At(Last(View(store)), x)
         /\ x = HeaderSize \/ Named(View(store), Last(View(store)))
  BY <1>0, <1>3, <1>5, <1>8
<1> QED
  BY <1>1, <1>2, <1>3, <1>6, <1>7, <1>8, <1>9, <1>10, NewEvent

\* START: the header is written, the pointer to it follows.
LEMMA StartPointerStep ==
  ASSUME LogInv, StartPointer
  PROVE  LogInv'
<1>1. /\ TypeOK /\ Buf!Moved /\ InStartHeader /\ pc = "start_header" /\ XferDone
      /\ store \in StoreType /\ Coherent(store) /\ Fresh
      /\ BeginWrite(store, 0, PointerCells, 0)
      /\ pc' = "start_flush"
      /\ UNCHANGED <<ev, walk, sess, done>>
  BY DEF LogInv, TypeOK, StoreTypeOK, CacheCoherent, StartPointer, Phase, InStartHeader,
    PointerCells
<1>2. Sound(View(store)) /\ OwnHeader(View(store))
  BY <1>1, StartHeaderView
<1>3. PICK cells \in Seq(LogCell) : cells = PointerCells /\ Len(cells) = DataStart
  <2>1. ev.start \in Nat
    BY <1>1, Sizes DEF Fresh, EventStart
  <2>2. \A i \in 1 .. DataStart : PointerCells[i] \in LogCell
    BY <2>1 DEF PointerCells, LastCell, Junk, LogCell
  <2>3. PointerCells \in [1 .. DataStart -> LogCell]
    BY <2>2 DEF PointerCells
  <2> QED
    BY <2>3, Sizes
<1>4. /\ StoreTypeOK' /\ CacheCoherent' /\ Buf!On' /\ Buf!Moved'
      /\ View(store') = View(store) /\ store'.flash = View(store) /\ before' = View(store)
      /\ Writing(0, cells, 0)'
      /\ xfer'.at = 0 /\ xfer'.moved = 0
  <2>1. PICK addr \in 0 .. StorageSize + HeaderSize, margin \in {0, DataStart} :
          addr = 0 /\ margin = 0
    BY Sizes
  <2>2. Len(cells) <= StorageSize - margin /\ BeginWrite(store, addr, cells, margin)
    BY <1>1, <1>3, <2>1, Sizes
  <2>3. PICK s \in StoreType : s = store
    BY <1>1
  <2>4. Coherent(s) /\ BeginWrite(s, addr, cells, margin)
    BY <1>1, <2>2, <2>3
  <2>5. /\ StoreTypeOK' /\ CacheCoherent' /\ Buf!On' /\ Buf!Moved'
        /\ View(store') = View(s) /\ store'.flash = View(s) /\ before' = View(s)
        /\ Writing(addr, cells, margin)'
        /\ xfer'.at = addr /\ xfer'.moved = 0
    BY <2>1, <2>2, <2>4, BeginWriteFacts
  <2> QED
    BY <2>1, <2>3, <2>5
<1>5. TypeOK'
  BY <1>1, <1>4, RestTypeOK DEF TypeOK, Busy
<1>6. InStartFlush'
  BY <1>1, <1>2, <1>3, <1>4 DEF InStartFlush, Fresh, OwnHeader, PointerCells, Writing
<1> QED
  BY <1>1, <1>2, <1>4, <1>5, <1>6, PhaseNext DEF LogInv

\* START: the page with the pointer reaches the chip.
LEMMA StartFlushStep ==
  ASSUME LogInv, StartFlush
  PROVE  LogInv'
<1>1. /\ TypeOK /\ Buf!Moved /\ InStartFlush /\ pc = "start_flush" /\ XferDone
      /\ store \in StoreType /\ Coherent(store) /\ Fresh /\ before \in Image
      /\ store' = Flush(store) /\ xfer' = NoXfer /\ pc' = "idle"
      /\ UNCHANGED <<before, ev, walk, sess, done>>
  BY DEF LogInv, TypeOK, StoreTypeOK, CacheCoherent, StartFlush, Phase, InStartFlush, Image
<1>2. /\ Sound(View(store)) /\ OwnHeader(View(store))
      /\ Last(View(store)) = ev.start
  BY <1>1, StartFlushView
<1>3. /\ store' \in StoreType /\ Coherent(store')
      /\ store'.flash = View(store) /\ View(store') = View(store)
  BY <1>1, CacheFacts
<1>4. StoreTypeOK' /\ CacheCoherent' /\ Buf!On' /\ Buf!Moved'
  BY <1>1, <1>3, NoXferNext
<1>5. TypeOK'
  BY <1>1, <1>4, RestTypeOK DEF TypeOK
<1>6. Open(View(store))
  <2>1. ev.header \in Fields
    BY <1>1 DEF TypeOK, EventType, HeaderType
  <2>2. TotalSize(ev.header) = HeaderSize
    BY <1>1, <2>1, TotalIs DEF Fresh
  <2>3. At(ev.current, 0) = At(ev.start, HeaderSize) /\ ev.current >= DataStart
    BY <1>1, Sizes DEF Fresh, EventStart, At, Buf!Place
  <2> QED
    BY <1>1, <1>2, <2>2, <2>3 DEF Open, Fresh
<1>7. InIdle'
  BY <1>1, <1>2, <1>3, <1>6 DEF InIdle, AtRest, Open, OwnHeader, Fresh
<1> QED
  BY <1>1, <1>2, <1>3, <1>4, <1>5, <1>7, PhaseNext DEF LogInv

\* The end of an event, whoever asked for it.
LEMMA EndHeaderStep ==
  ASSUME LogInv, pc = "idle", ev.header.inProgress \/ ~Finished, EndHeader
  PROVE  LogInv'
<1>1. /\ TypeOK /\ store \in StoreType /\ Coherent(store)
      /\ Sound(store.flash) /\ xfer = NoXfer /\ AtRest(View(store)) /\ Sound(View(store))
      /\ ev \in EventType
  BY DEF LogInv, TypeOK, StoreTypeOK, CacheCoherent, Phase, InIdle, AtRest
<1>2. \/ ev.header.inProgress /\ Open(View(store))
      \/ ev = NoEvent
  BY <1>1 DEF AtRest, Finished
<1>3. /\ ev.start = 0 \/ ev.start \in EventStart
      /\ HeaderFits(ev.header)
      /\ ev.start # 0 => /\ Last(View(store)) \in {0, ev.start}
                         /\ Last(View(store)) = ev.start => Named(View(store), ev.start)
  <2>1. CASE ev.header.inProgress /\ Open(View(store))
    BY <2>1 DEF Open, OwnHeader, Named, FieldsCell
  <2>2. CASE ev = NoEvent
    BY <2>2, NoHeaderFits DEF NoEvent
  <2> QED
    BY <1>2, <2>1, <2>2
<1>4. CASE ev.start >= StorageSize
  <2>1. /\ pc' = "halt_end_event"
        /\ UNCHANGED <<store, xfer, before, ev, walk, sess, done>>
    BY <1>4 DEF EndHeader
  <2> QED
    BY <1>1, <2>1, Halting DEF Halted
<1>5. CASE ~(ev.start >= StorageSize)
  <2>1. /\ ev' = [ev EXCEPT !.header.inProgress = FALSE]
        /\ BeginWrite(store, ev.start, HeaderCells(ev'.header), DataStart)
        /\ pc' = "end_header"
        /\ UNCHANGED <<walk, sess, done>>
    BY <1>5 DEF EndHeader
  <2>2. PICK h, start : h = [ev.header EXCEPT !.inProgress = FALSE] /\ start = ev.start
    OBVIOUS
  <2>3. /\ h \in Fields /\ ~h.inProgress /\ h.last = ev.header.last
        /\ h.samples = ev.header.samples
    BY <1>1, <2>2 DEF EventType, HeaderType, Fields
  <2>4. ev' \in EventType /\ ev'.header = h /\ ev'.start = start
    BY <1>1, <2>1, <2>2, <2>3 DEF EventType, HeaderType
  <2>5. HeaderFits(h)
    BY <1>3, <2>3 DEF HeaderFits, TotalSize
  <2>6. /\ start = 0 \/ start \in DataStart .. StorageSize - 1
        /\ start \in 0 .. StorageSize + HeaderSize
    BY <1>1, <1>3, <1>5, <2>2, Sizes DEF EventStart
  <2>7. /\ StoreTypeOK' /\ CacheCoherent' /\ Buf!On' /\ Buf!Moved'
        /\ View(store') = View(store) /\ store'.flash = View(store)
        /\ before' = View(store)
        /\ Writing(start, HeaderCells(h), DataStart)'
    <3>1. PICK s \in StoreType, margin \in {0, DataStart}, cells \in Seq(LogCell) :
            /\ s = store /\ margin = DataStart /\ cells = HeaderCells(h)
            /\ Len(cells) = HeaderSize
      BY <1>1, <2>3, HeaderCellsAre
    <3>2. Coherent(s) /\ BeginWrite(s, start, cells, margin)
      BY <1>1, <2>1, <2>2, <2>4, <3>1
    <3>4. Len(cells) <= StorageSize - margin /\ margin # 0
      BY <3>1, Sizes
    <3>3. /\ StoreTypeOK' /\ CacheCoherent' /\ Buf!On' /\ Buf!Moved'
          /\ View(store') = View(s) /\ store'.flash = View(s) /\ before' = View(s)
          /\ Writing(start, cells, margin)'
      BY <2>6, <3>2, <3>4, BeginWriteFacts
    <3> QED
      BY <3>1, <3>3
  <2>8. TypeOK'
    BY <1>1, <2>1, <2>4, <2>7, RestTypeOK DEF TypeOK, Busy
  <2>9. InEndHeader'
    <3>1. Writing(ev.start, HeaderCells(ev.header), DataStart)'
      BY <2>4, <2>7 DEF Writing
    <3>2. Sound(before') /\ ~ev'.header.inProgress /\ HeaderFits(ev'.header)
      BY <1>1, <2>3, <2>4, <2>5, <2>7
    <3>3. \/ ev'.start = 0
          \/ /\ ev'.start \in DataStart .. StorageSize - 1
             /\ Last(before') \in {0, ev'.start}
             /\ Last(before') = ev'.start => Named(before', ev'.start)
      BY <1>3, <2>2, <2>4, <2>6, <2>7
    <3> QED
      BY <3>1, <3>2, <3>3 DEF InEndHeader
  <2> QED
    BY <1>1, <2>1, <2>7, <2>8, <2>9, PhaseNext DEF LogInv
<1> QED
  BY <1>4, <1>5

\* STOP, of an open event or of none.
LEMMA EndEventStep ==
  ASSUME LogInv, EndEvent
  PROVE  LogInv'
BY EndHeaderStep DEF EndEvent

Link(s, a) == [s EXCEPT !.data[DataStart - 1] = LastCell(a)]

\* The pointer is stored into the cached page behind the back of the cache.
LEMMA Linked ==
  ASSUME NEW s \in StoreType, s.page = 0, Coherent(s), Sound(View(s)), Sound(s.flash),
         NEW a, a = 0 \/ (a \in EventStart /\ Named(View(s), a)),
         NEW k, k = Link(s, a)
  PROVE  /\ k \in StoreType /\ Sound(View(k))
         /\ Flush(k) \in StoreType /\ Flush(k).page = 0 /\ Flush(k).data = k.data
         /\ View(Flush(k)) = View(k)
         /\ Sound(Flush(k).flash)
         /\ Flush(k).flash \in {s.flash, View(k)}
         /\ \A x \in DataStart .. StorageSize - 1 : View(k)[x] = View(s)[x]
         /\ Last(View(k)) = a
<1>1. /\ k \in StoreType /\ k.page = 0 /\ k.flash = s.flash /\ k.dirty = s.dirty
      /\ k.data = [s.data EXCEPT ![DataStart - 1] = LastCell(a)]
  <2>1. DataStart - 1 \in Offset /\ a \in Nat
    BY Sizes DEF Offset, EventStart
  <2>2. LastCell(a) \in LogCell
    BY <2>1 DEF LastCell, LogCell
  <2> QED
    BY <2>1, <2>2 DEF StoreType, Link
<1>2. \A x \in Addr : View(k)[x] = IF x = DataStart - 1 THEN LastCell(a) ELSE View(s)[x]
  <2> SUFFICES ASSUME NEW x \in Addr
               PROVE  View(k)[x] = IF x = DataStart - 1 THEN LastCell(a) ELSE View(s)[x]
    OBVIOUS
  <2>1. /\ View(k)[x] = IF x < PageSize THEN k.data[x] ELSE k.flash[x]
        /\ View(s)[x] = IF x < PageSize THEN s.data[x] ELSE s.flash[x]
    BY <1>1, PageZero
  <2>2. DataStart - 1 < PageSize /\ s.data \in [Offset -> LogCell]
    BY Sizes DEF StoreType
  <2>3. x < PageSize => x \in Offset
    BY Sizes DEF Addr, Offset
  <2> QED
    BY <1>1, <2>1, <2>2, <2>3
<1>3. /\ Sound(View(k)) /\ Last(View(k)) = a
      /\ \A x \in DataStart .. StorageSize - 1 : View(k)[x] = View(s)[x]
  <2>1. PICK f, g : f = View(s) /\ g = View(k)
    OBVIOUS
  <2>2. g[DataStart - 1] = LastCell(a)
    BY <1>2, <2>1, Sizes DEF Addr
  <2>3. \A x \in DataStart .. StorageSize - 1 : g[x] = f[x]
    BY <1>2, <2>1, Sizes DEF Addr
  <2>4. \A x \in Addr : CellFits(g[x])
    <3>1. \A x \in Addr : CellFits(f[x])
      BY <2>1 DEF Sound
    <3> QED
      BY <1>2, <2>1, <3>1, OtherCellsFit
  <2>5. a = 0 \/ (a \in EventStart /\ Named(f, a))
    BY <2>1
  <2> QED
    BY <2>1, <2>2, <2>3, <2>4, <2>5, SoundLinked
<1>4. CASE k.dirty
  <2>1. Coherent(k)
    BY <1>1, <1>4, Sizes DEF Coherent, NoPage
  <2>2. /\ Flush(k) \in StoreType /\ Flush(k).page = k.page
        /\ Flush(k).flash = View(k) /\ View(Flush(k)) = View(k)
    BY <1>1, <2>1, CacheFacts
  <2>3. Flush(k).data = k.data
    BY <1>1, <1>4 DEF Flush, StoreType
  <2> QED
    BY <1>1, <1>3, <2>2, <2>3
<1>5. CASE ~k.dirty
  <2>1. Flush(k) = k
    BY <1>5 DEF Flush
  <2> QED
    BY <1>1, <1>3, <2>1
<1> QED
  BY <1>4, <1>5

\* STOP: the final header is written, the page is linked and written onto itself.
LEMMA EndPointerStep ==
  ASSUME LogInv, EndPointer
  PROVE  LogInv'
<1>1. /\ TypeOK /\ Buf!Moved /\ InEndHeader /\ pc = "end_header" /\ XferDone
      /\ store \in StoreType /\ Coherent(store) /\ Sound(store.flash)
      /\ ~ev.header.inProgress
      /\ ev.start = 0 \/ ev.start \in EventStart
  <2>1. StorageSize - 1 < StorageSize
    BY Sizes
  <2> QED
    BY <2>1, Sizes DEF LogInv, TypeOK, StoreTypeOK, CacheCoherent, EndPointer, Phase,
      InEndHeader, EventStart
<1>2. /\ Sound(View(store))
      /\ ev.start # 0 => Named(View(store), ev.start)
  BY <1>1, EndHeaderView
<1>3. PICK s, k, a :
        /\ s = GetPage(store, 0) /\ a = ev.start
        /\ k = Link(s, a)
  OBVIOUS
<1>4. /\ s \in StoreType /\ Coherent(s) /\ s.page = 0
      /\ View(s) = View(store) /\ s.flash \in {store.flash, View(store)}
  BY <1>1, <1>3, CacheFacts
<1>5. /\ k \in StoreType /\ Sound(View(k))
      /\ Flush(k) \in StoreType /\ Flush(k).page = 0 /\ Flush(k).data = k.data
      /\ View(Flush(k)) = View(k)
      /\ Sound(Flush(k).flash)
  <2>1. Sound(View(s)) /\ Sound(s.flash) /\ (a = 0 \/ (a \in EventStart /\ Named(View(s), a)))
    BY <1>1, <1>2, <1>3, <1>4
  <2> QED
    BY <1>3, <1>4, <2>1, Linked
<1>6. PICK cells : cells = [i \in 1 .. DataStart |-> k.data[i - 1]]
  OBVIOUS
<1>7. cells \in Seq(LogCell) /\ Len(cells) = DataStart
  <2>1. \A i \in 1 .. DataStart : i - 1 \in Offset
    BY Sizes DEF Offset
  <2>2. k.data \in [Offset -> LogCell]
    BY <1>5 DEF StoreType
  <2>3. cells \in [1 .. DataStart -> LogCell]
    BY <1>6, <2>1, <2>2
  <2> QED
    BY <2>3, Sizes
<1>8. /\ store' = Flush(k)
      /\ xfer' = [dir |-> "write", start |-> 0, at |-> 0, len |-> DataStart, moved |-> 0,
                  margin |-> 0, cells |-> cells]
      /\ before' = View(k)
      /\ pc' = "end_flush"
      /\ UNCHANGED <<ev, walk, sess, done>>
  <2>1. /\ BeginWrite(k, 0, cells, 0)
        /\ pc' = "end_flush"
        /\ UNCHANGED <<ev, walk, sess, done>>
    BY <1>3, <1>6 DEF EndPointer, Link
  <2> QED
    BY <1>7, <2>1 DEF BeginWrite, Begin
<1>9. xfer' \in XferType /\ View(k) \in Image
  <2>1. k \in Buf!StoreType
    BY <1>5, SameStore
  <2>2. Buf!View(k) \in [Buf!Addr -> LogCell]
    BY <2>1, StorageAssumptions, Buf!ViewType
  <2> QED
    BY <1>7, <1>8, <2>2, Sizes, SameStore DEF XferType, Image
<1>10. StoreTypeOK'
  BY <1>5, <1>7, <1>8, <1>9, Sizes DEF StoreTypeOK, Reach, Image
<1>11. Buf!On'
  BY <1>8, Sizes DEF Buf!On, Buf!Reach, Buf!XferWrap, Buf!Lands, Buf!Place
<1>12. Buf!Moved'
  <2>1. 0 .. xfer'.moved - 1 = {}
    BY <1>8
  <2>2. Buf!View(store') = before' /\ xfer'.dir = "write"
    BY <1>5, <1>8, SameStore
  <2> QED
    BY <2>1, <2>2 DEF Buf!Moved
<1>13. TypeOK'
  BY <1>1, <1>8, <1>10, RestTypeOK DEF TypeOK, Busy
<1>14. InEndFlush'
  BY <1>1, <1>5, <1>6, <1>8 DEF InEndFlush
<1> QED
  BY <1>5, <1>8, <1>11, <1>12, <1>13, <1>14, PhaseNext DEF LogInv

\* When the loop is done with page 0, the page is dirty.
LEMMA DirtyByThen ==
  ASSUME StoreTypeOK, InEndFlush, pc = "end_flush", XferDone
  PROVE  store.dirty
<1>1. /\ xfer.len = DataStart /\ xfer.margin = 0 /\ xfer.at = xfer.moved
      /\ xfer.moved # 0 => store.dirty
  BY DEF InEndFlush
<1>2. xfer.moved # 0
  BY <1>1, Progress, Sizes DEF XferDone
<1> QED
  BY <1>1, <1>2

\* STOP: that page reaches the chip.
LEMMA EndFlushStep ==
  ASSUME LogInv, EndFlush
  PROVE  LogInv'
<1>1. /\ TypeOK /\ StoreTypeOK /\ InEndFlush /\ pc = "end_flush" /\ XferDone
      /\ store \in StoreType /\ before \in Image
      /\ Sound(View(store)) /\ ~ev.header.inProgress /\ store.page = 0
      /\ store' = Flush(store) /\ xfer' = NoXfer /\ pc' = "idle"
      /\ ev' = [ev EXCEPT !.written = TRUE]
      /\ done' = done \cup {[sess |-> ev.header.sess, start |-> ev.start,
                             samples |-> ev.header.samples]}
      /\ UNCHANGED <<before, walk, sess>>
  BY DEF LogInv, TypeOK, StoreTypeOK, EndFlush, Phase, InEndFlush, Image
<1>2. store.dirty
  BY <1>1, DirtyByThen
<1>3. Coherent(store)
  BY <1>1, <1>2 DEF Coherent, NoPage
<1>4. /\ store' \in StoreType /\ Coherent(store')
      /\ store'.flash = View(store) /\ View(store') = View(store)
  BY <1>1, <1>3, CacheFacts
<1>5. StoreTypeOK' /\ CacheCoherent' /\ Buf!On' /\ Buf!Moved'
  BY <1>1, <1>4, NoXferNext
<1>6. /\ ev \in EventType /\ ev' \in EventType /\ ev'.header = ev.header /\ ev'.written
      /\ ev.header.sess \in Nat /\ ev.header.samples \in Nat /\ ev.start \in 0 .. StorageSize
  BY <1>1 DEF TypeOK, EventType, HeaderType, Fields
<1>7. done' \subseteq [sess : Nat, start : 0 .. StorageSize, samples : Nat]
  BY <1>1, <1>6 DEF TypeOK
<1>8. TypeOK'
  BY <1>1, <1>5, <1>6, <1>7, RestTypeOK DEF TypeOK
<1>9. InIdle'
  BY <1>1, <1>4, <1>6 DEF InIdle, AtRest
<1> QED
  BY <1>1, <1>4, <1>5, <1>8, <1>9, PhaseNext DEF LogInv

\* The check before a sample is written: as long as it does not reach the header
\* of its own event, that event has room for it on the ring.
LEMMA RoomForSample ==
  ASSUME ev \in EventType, NEW f, Open(f),
         ~RangesOverlap(ev.start, HeaderSize, ev.current, SampleSize, DataStart)
  PROVE  TotalSize(ev.header) + SampleSize <= RingSize
<1>0. ev.header \in Fields /\ TotalSize(ev.header) \in Nat
  <2>1. ev.header \in Fields
    BY DEF EventType, HeaderType
  <2> QED
    BY <2>1, TotalIs
<1> SUFFICES ASSUME TotalSize(ev.header) + SampleSize > RingSize
             PROVE  FALSE
  BY <1>0, Sizes DEF RingSize
<1>1. PICK a, b, t \in Nat :
        /\ a = ev.start /\ b = ev.current /\ t = TotalSize(ev.header)
  BY <1>0, Sizes DEF EventType
<1>2. /\ a \in EventStart /\ b \in DataStart .. StorageSize + HeaderSize
      /\ t <= RingSize /\ At(b, 0) = At(a, t)
  BY <1>1, Sizes DEF Open, HeaderFits, EventType
<1>3. PICK j \in 0 .. SampleSize - 1 : j = RingSize - t
  <2>1. t + SampleSize > RingSize
    BY <1>1
  <2> QED
    BY <1>2, <2>1, Sizes DEF RingSize
<1>4. At(b, j) = At(a, 0)
  <2>1. /\ a \in DataStart .. StorageSize + HeaderSize
        /\ t \in 0 .. RingSize /\ j \in 0 .. RingSize /\ t + j = RingSize
    BY <1>2, <1>3, Sizes DEF EventStart, RingSize
  <2>2. At(b, j) = At(a, RingSize)
    BY <1>2, <2>1, AtFurther
  <2> QED
    BY <1>2, <2>2, AtRound
<1>5. /\ RingCell(a, 0, DataStart) = At(a, 0)
      /\ RingCell(b, j, DataStart) = At(b, j)
  <2>1. /\ DataStart \in 0 .. StorageSize - 1
        /\ a \in Buf!Reach(DataStart) /\ b \in Buf!Reach(DataStart)
        /\ 0 \in 0 .. StorageSize - DataStart - 1
        /\ j \in 0 .. StorageSize - DataStart - 1
    BY <1>2, <1>3, Sizes DEF EventStart, Buf!Reach
  <2>2. Buf!RingCell(a, 0, DataStart) = At(a, 0) /\ Buf!RingCell(b, j, DataStart) = At(b, j)
    BY <2>1, StorageAssumptions, Buf!PlaceIsRingCell DEF At
  <2> QED
    BY <2>2, SameStore
<1>6. PICK q : q = [lhsStart |-> a, lhsSize |-> HeaderSize, rhsStart |-> b,
                    rhsSize |-> SampleSize, margin |-> DataStart]
  OBVIOUS
<1>7. q \in Buf!Spans(DataStart) /\ DataStart \in 0 .. StorageSize - 1
  BY <1>2, <1>6, Sizes DEF Buf!Spans, EventStart
<1>8. /\ RingCell(a, 0, DataStart) \in Buf!SpanCells(a, HeaderSize, DataStart)
      /\ RingCell(b, j, DataStart) \in Buf!SpanCells(b, SampleSize, DataStart)
  <2>1. /\ Buf!RingCell(a, 0, DataStart) = RingCell(a, 0, DataStart)
        /\ Buf!RingCell(b, j, DataStart) = RingCell(b, j, DataStart)
    BY DEF Buf!RingCell, RingCell
  <2>2. 0 \in 0 .. HeaderSize - 1
    BY Sizes
  <2> QED
    BY <1>3, <2>1, <2>2 DEF Buf!SpanCells
<1>9. Buf!SpanCells(q.lhsStart, q.lhsSize, q.margin)
        \cap Buf!SpanCells(q.rhsStart, q.rhsSize, q.margin) # {}
  BY <1>4, <1>5, <1>6, <1>8
<1>10. Buf!RangesOverlap(q.lhsStart, q.lhsSize, q.rhsStart, q.rhsSize, q.margin)
  BY <1>7, <1>9, StorageAssumptions, Buf!AnswerIsRight
<1>11. RangesOverlap(a, HeaderSize, b, SampleSize, DataStart)
  BY <1>6, <1>10 DEF Buf!RangesOverlap, RangesOverlap
<1> QED
  BY <1>1, <1>11

\* A sample, or the end of an event that has no room for it.
LEMMA WriteSampleStep ==
  ASSUME LogInv, WriteSample
  PROVE  LogInv'
<1>1. /\ TypeOK /\ pc = "idle" /\ ev.header.inProgress /\ ev \in EventType
      /\ store \in StoreType /\ Coherent(store)
      /\ AtRest(View(store)) /\ Sound(View(store)) /\ Open(View(store))
  BY DEF LogInv, TypeOK, StoreTypeOK, CacheCoherent, Phase, InIdle, AtRest, WriteSample
<1>2. CASE RangesOverlap(ev.start, HeaderSize, ev.current, SampleSize, DataStart)
  BY <1>1, <1>2, EndHeaderStep DEF WriteSample
<1>3. CASE ~RangesOverlap(ev.start, HeaderSize, ev.current, SampleSize, DataStart)
  <2>1. PICK s, addr, cells :
          /\ s = store /\ addr = ev.current
          /\ cells = SampleCells(ev.header.sess, ev.header.samples)
    OBVIOUS
  <2>2. /\ BeginWrite(s, addr, cells, DataStart)
        /\ pc' = "sample"
        /\ UNCHANGED <<ev, walk, sess, done>>
    BY <1>3, <2>1 DEF WriteSample
  <2>3. ev.header.sess \in Nat /\ ev.header.samples \in Nat
    BY <1>1 DEF EventType, HeaderType, Fields
  <2>4. cells \in Seq(LogCell) /\ Len(cells) = SampleSize
    BY <2>1, <2>3, SampleCellsAre
  <2>5. /\ s \in StoreType /\ Coherent(s) /\ DataStart \in {0, DataStart}
        /\ addr \in 0 .. StorageSize + HeaderSize /\ DataStart # 0
        /\ Len(cells) <= StorageSize - DataStart
    BY <1>1, <2>1, <2>4, Sizes DEF EventType
  <2>6. /\ StoreTypeOK' /\ CacheCoherent' /\ Buf!On' /\ Buf!Moved'
        /\ View(store') = View(s) /\ store'.flash = View(s) /\ before' = View(s)
        /\ Writing(addr, cells, DataStart)'
    BY <2>2, <2>4, <2>5, BeginWriteFacts
  <2>7. TotalSize(ev.header) + SampleSize <= RingSize
    BY <1>1, <1>3, RoomForSample
  <2>8. TypeOK'
    BY <1>1, <2>2, <2>6, RestTypeOK DEF TypeOK, Busy
  <2>9. InSample'
    BY <1>1, <2>1, <2>2, <2>6, <2>7 DEF InSample, AtRest, Open, OwnHeader, Writing
  <2> QED
    BY <1>1, <2>1, <2>2, <2>6, <2>8, <2>9, PhaseNext DEF LogInv
<1> QED
  BY <1>2, <1>3

\* The header an event started with is told by the fields that never change.
LEMMA FirstHeader ==
  ASSUME NEW g \in Fields, NEW h \in Fields,
         g.id = h.id, g.last = h.last, g.sess = h.sess
  PROVE  [g EXCEPT !.samples = 0, !.inProgress = TRUE]
           = [h EXCEPT !.samples = 0, !.inProgress = TRUE]
<1> DEFINE x == [g EXCEPT !.samples = 0, !.inProgress = TRUE]
           y == [h EXCEPT !.samples = 0, !.inProgress = TRUE]
<1>1. x \in Fields /\ y \in Fields
  BY DEF Fields
<1>2. /\ x.id = y.id /\ x.samples = y.samples /\ x.inProgress = y.inProgress
      /\ x.last = y.last /\ x.sess = y.sess
  BY DEF Fields
<1> HIDE DEF x, y
<1>3. x = y
  BY <1>1, <1>2 DEF Fields
<1> QED
  BY <1>3 DEF x, y

\* The sample is counted.
LEMMA SampleWrittenStep ==
  ASSUME LogInv, SampleWritten
  PROVE  LogInv'
<1>1. /\ TypeOK /\ Buf!Moved /\ InSample /\ pc = "sample" /\ XferDone
      /\ store \in StoreType /\ Coherent(store) /\ Sound(store.flash) /\ before \in Image
      /\ ev \in EventType /\ ev.header.inProgress /\ Open(before)
      /\ TotalSize(ev.header) + SampleSize <= RingSize
      /\ ev' = [ev EXCEPT !.current = WrapAddr(ev.current + SampleSize, DataStart),
                          !.header.samples = @ + 1]
      /\ xfer' = NoXfer /\ pc' = "idle"
      /\ UNCHANGED <<store, before, walk, sess, done>>
  BY DEF LogInv, TypeOK, StoreTypeOK, CacheCoherent, SampleWritten, Phase, InSample, Image,
    AtRest
<1>2. /\ Sound(View(store)) /\ Last(View(store)) = Last(before)
      /\ OwnHeader(before) => OwnHeader(View(store))
  BY <1>1, SampleView
<1>3. PICK h \in Fields, t \in Nat :
        h = ev.header /\ t = TotalSize(h)
  <2>1. ev.header \in Fields
    BY <1>1 DEF EventType, HeaderType
  <2> QED
    BY <2>1, TotalIs
<1>17. PICK n, b : b = ev.current /\ n = WrapAddr(b + SampleSize, DataStart)
  OBVIOUS
<1>4. PICK g : g = [h EXCEPT !.samples = @ + 1]
  OBVIOUS
<1>5. /\ g \in Fields /\ g.inProgress /\ g.last = h.last
      /\ [g EXCEPT !.samples = 0, !.inProgress = TRUE]
           = [h EXCEPT !.samples = 0, !.inProgress = TRUE]
  <2>1. /\ g \in Fields /\ g.inProgress
        /\ g.id = h.id /\ g.last = h.last /\ g.sess = h.sess
    BY <1>1, <1>3, <1>4 DEF Fields
  <2> QED
    BY <1>3, <2>1, FirstHeader
<1>6. TotalSize(g) = t + SampleSize
  BY <1>3, <1>4, TotalIs
<1>7. ev' = [ev EXCEPT !.current = n, !.header = g]
  BY <1>1, <1>3, <1>17, <1>4 DEF EventType
<1>8. /\ t + SampleSize <= RingSize /\ b \in DataStart .. StorageSize + HeaderSize
      /\ At(b, 0) = At(ev.start, t) /\ ev.start \in EventStart
  BY <1>1, <1>3, <1>17, Sizes DEF Open, EventType
<1>9. n \in EventStart /\ At(n, 0) = At(b, SampleSize)
  <2>1. SampleSize \in 0 .. RingSize /\ b + SampleSize <= StorageSize + RingSize - 1
    BY <1>8, Sizes DEF RingSize
  <2> QED
    BY <1>17, <1>8, <2>1, AtWrapped
<1>10. At(n, 0) = At(ev.start, t + SampleSize)
  <2>1. /\ ev.start \in DataStart .. StorageSize + HeaderSize
        /\ t \in 0 .. RingSize /\ SampleSize \in 0 .. RingSize
    BY <1>3, <1>8, Sizes DEF EventStart, RingSize
  <2>2. At(b, SampleSize) = At(ev.start, t + SampleSize)
    BY <1>8, <2>1, AtFurther
  <2> QED
    BY <1>9, <2>2
<1>11. /\ ev'.header = g /\ ev'.current = n /\ ev'.start = ev.start
       /\ ev' \in EventType
  <2>1. n \in 0 .. StorageSize + HeaderSize
    BY <1>9, Sizes DEF EventStart
  <2> QED
    BY <1>1, <1>5, <1>7, <2>1 DEF EventType, HeaderType
<1>12. HeaderFits(g)
  BY <1>1, <1>3, <1>5, <1>6, <1>8 DEF HeaderFits, Open
<1>13. OwnHeader(View(store)) => OwnHeader(View(store))'
  BY <1>1, <1>3, <1>5, <1>11 DEF OwnHeader
<1>14. Open(View(store))'
  <2>1. ev'.current >= DataStart
    BY <1>9, <1>11, Sizes DEF EventStart
  <2>2. At(ev'.current, 0) = At(ev'.start, TotalSize(ev'.header))
    BY <1>6, <1>10, <1>11
  <2>3. View(store)' = View(store)
    BY <1>1
  <2>4. /\ Last(View(store)) \in {0, ev.start}
        /\ Last(View(store)) = ev.start => OwnHeader(View(store))
        /\ FormatWhileLogging \/ Last(View(store)) = ev.start
    BY <1>1, <1>2 DEF Open
  <2> QED
    BY <1>8, <1>11, <1>12, <1>13, <2>1, <2>2, <2>3, <2>4 DEF Open
<1>15. InIdle'
  BY <1>1, <1>2, <1>5, <1>11, <1>14 DEF InIdle, AtRest
<1>16. StoreTypeOK' /\ CacheCoherent' /\ Buf!On' /\ Buf!Moved'
  BY <1>1, NoXferNext
<1>18. TypeOK'
  BY <1>1, <1>11, <1>16, RestTypeOK DEF TypeOK
<1> QED
  BY <1>1, <1>15, <1>16, <1>18, PhaseNext DEF LogInv

\* FORMAT: page 0 is loaded.
LEMMA FormatStep ==
  ASSUME LogInv, Format
  PROVE  LogInv'
<1>1. PICK s : s = GetPage(store, 0)
  OBVIOUS
<1>2. /\ TypeOK /\ pc = "idle" /\ before \in Image
      /\ ~ev.header.inProgress \/ FormatWhileLogging
      /\ store' = s /\ pc' = "format"
      /\ UNCHANGED <<xfer, before, ev, walk, sess, done>>
  BY <1>1 DEF LogInv, TypeOK, StoreTypeOK, Format, Image
<1>3. /\ s \in StoreType /\ Coherent(s) /\ s.page = 0
      /\ Sound(s.flash) /\ AtRest(View(s)) /\ xfer = NoXfer
  BY <1>1, <1>2, IdleLoad
<1>4. StoreTypeOK' /\ CacheCoherent' /\ Buf!On' /\ Buf!Moved'
  BY <1>2, <1>3, NoXferNext
<1>5. TypeOK'
  BY <1>2, <1>4, RestTypeOK DEF TypeOK, Busy
<1>6. InFormat'
  BY <1>2, <1>3 DEF InFormat, AtRest, Open, OwnHeader
<1> QED
  BY <1>2, <1>3, <1>4, <1>5, <1>6, PhaseNext DEF LogInv

\* Page 0 as FORMAT clears it, and the log that is left.
LEMMA Formatted ==
  ASSUME store \in StoreType, Coherent(store), store.page = 0, Sound(View(store)),
         NEW d, d = [i \in Offset |-> IF i = DataStart - 1 THEN LastCell(0) ELSE ZeroCell],
         NEW s, s = [store EXCEPT !.data = d, !.dirty = TRUE]
  PROVE  /\ View(s) \in Image /\ Sound(View(s)) /\ Last(View(s)) = 0
         /\ \A x \in Addr : View(s)[x] = IF x = DataStart - 1 THEN LastCell(0)
                                         ELSE IF x < PageSize THEN ZeroCell
                                         ELSE View(store)[x]
         /\ Flush(s) \in StoreType /\ Coherent(Flush(s))
         /\ Flush(s).flash = View(s) /\ View(Flush(s)) = View(s)
<1>1. /\ s \in StoreType /\ Coherent(s) /\ s.page = 0 /\ s.flash = store.flash
      /\ \A i \in Offset : s.data[i] = IF i = DataStart - 1 THEN LastCell(0) ELSE ZeroCell
  <2>1. LastCell(0) \in LogCell /\ ZeroCell \in LogCell
    BY DEF LastCell, ZeroCell, LogCell
  <2>2. d \in [Offset -> LogCell]
    BY <2>1
  <2>3. s \in StoreType /\ s.page = 0 /\ s.flash = store.flash /\ s.data = d /\ s.dirty
    BY <2>2 DEF StoreType
  <2>4. Coherent(s)
    BY <2>3 DEF Coherent, NoPage
  <2> QED
    BY <2>3, <2>4
<1>2. PICK f \in Image, g \in Image : f = View(store) /\ g = View(s)
  BY <1>1, CacheFacts DEF Image
<1>3. \A x \in Addr : g[x] = IF x = DataStart - 1 THEN LastCell(0)
                             ELSE IF x < PageSize THEN ZeroCell ELSE f[x]
  <2> SUFFICES ASSUME NEW x \in Addr
               PROVE  g[x] = IF x = DataStart - 1 THEN LastCell(0)
                             ELSE IF x < PageSize THEN ZeroCell ELSE f[x]
    OBVIOUS
  <2>1. /\ g[x] = IF x < PageSize THEN s.data[x] ELSE s.flash[x]
        /\ f[x] = IF x < PageSize THEN store.data[x] ELSE store.flash[x]
    BY <1>1, <1>2, PageZero
  <2>2. x < PageSize => x \in Offset
    BY Sizes DEF Addr, Offset
  <2>3. x = DataStart - 1 => x < PageSize
    BY Sizes
  <2> QED
    BY <1>1, <2>1, <2>2, <2>3
<1>4. Sound(g) /\ Last(g) = 0
  <2>1. g[DataStart - 1] = LastCell(0)
    BY <1>3, Sizes DEF Addr
  <2>2. \A x \in Addr : CellFits(g[x])
    <3>1. \A x \in Addr : CellFits(f[x])
      BY <1>2 DEF Sound
    <3> QED
      BY <1>3, <3>1, OtherCellsFit
  <2> QED
    BY <2>1, <2>2 DEF Sound, Last, LastCell
<1> QED
  BY <1>1, <1>2, <1>3, <1>4, CacheFacts

\* FORMAT: page 0 is cleared and written out.
LEMMA FormatFlushStep ==
  ASSUME LogInv, FormatFlush
  PROVE  LogInv'
<1>1. /\ TypeOK /\ pc = "format" /\ store \in StoreType /\ Coherent(store) /\ store.page = 0
      /\ xfer = NoXfer /\ before \in Image /\ AtRest(View(store)) /\ Sound(View(store))
      /\ ev.header.inProgress => FormatWhileLogging
  BY DEF LogInv, TypeOK, StoreTypeOK, CacheCoherent, FormatFlush, Phase, InFormat, Image,
    AtRest
<1>2. PICK d, s :
        /\ d = [i \in Offset |-> IF i = DataStart - 1 THEN LastCell(0) ELSE ZeroCell]
        /\ s = [store EXCEPT !.data = d, !.dirty = TRUE]
  OBVIOUS
<1>3. /\ store' = Flush(s) /\ pc' = "idle" /\ done' = {}
      /\ UNCHANGED <<xfer, before, ev, walk, sess>>
  BY <1>2 DEF FormatFlush
<1>4. PICK f, g : f = View(store) /\ g = View(s)
  OBVIOUS
<1>5. /\ Sound(g) /\ Last(g) = 0
      /\ store' \in StoreType /\ Coherent(store') /\ store'.flash = g /\ View(store') = g
  BY <1>1, <1>2, <1>3, <1>4, Formatted
<1>6. StoreTypeOK' /\ CacheCoherent' /\ Buf!On' /\ Buf!Moved'
  BY <1>1, <1>3, <1>5, NoXferNext
<1>7. TypeOK'
  BY <1>1, <1>3, <1>6, RestTypeOK DEF TypeOK
<1>8. ev.header.inProgress => Open(g)
  <2> SUFFICES ASSUME ev.header.inProgress PROVE Open(g)
    OBVIOUS
  <2>1. Open(f)
    BY <1>1, <1>4 DEF AtRest
  <2>2. ev.start # 0
    BY <2>1, Sizes DEF Open, EventStart
  <2> QED
    BY <1>1, <1>5, <2>1, <2>2 DEF Open
<1>9. InIdle'
  BY <1>1, <1>3, <1>5, <1>8 DEF InIdle, AtRest, Open, OwnHeader
<1> QED
  BY <1>3, <1>5, <1>6, <1>7, <1>9, PhaseNext DEF LogInv

\* A loop over the events ends.
LEMMA ReturnStep ==
  ASSUME TypeOK, NEW s \in StoreType, Coherent(s), Sound(s.flash), AtRest(View(s)),
         Return(s)
  PROVE  LogInv'
<1>1. /\ store' = s /\ xfer' = NoXfer /\ walk' = NoWalk /\ pc' = "idle"
      /\ UNCHANGED <<before, ev, sess, done>> /\ before \in Image
  BY DEF Return, TypeOK, StoreTypeOK, Image
<1>2. StoreTypeOK' /\ CacheCoherent' /\ Buf!On' /\ Buf!Moved'
  BY <1>1, NoXferNext
<1>3. TypeOK'
  BY <1>1, <1>2, RestTypeOK, NoHeaderFits DEF TypeOK, NoWalk, HeaderType
<1>4. InIdle'
  BY <1>1 DEF InIdle, AtRest, Open, OwnHeader
<1> QED
  BY <1>1, <1>2, <1>3, <1>4, PhaseNext DEF LogInv

\* The logger stops for good behind a read.
LEMMA HaltingInPlace ==
  ASSUME LogInv, pc # "end_flush", pc' \in Halted, XferDone, xfer.dir = "read",
         UNCHANGED <<store, xfer, before, ev, walk, sess, done>>
  PROVE  LogInv'
<1>1. /\ StoreTypeOK' /\ CacheCoherent' /\ Sound(store'.flash) /\ Sound(View(store'))
  BY ViewSound DEF LogInv, TypeOK, StoreTypeOK, CacheCoherent
<1>2. Buf!On' /\ Buf!Moved'
  BY DEF LogInv, Buf!On, Buf!Moved, Buf!Lands, Buf!XferDone
<1>3. TypeOK'
  BY <1>1, RestTypeOK DEF LogInv, TypeOK
<1>4. InHalt'
  BY <1>1 DEF InHalt, XferDone
<1> QED
  BY <1>1, <1>2, <1>3, <1>4, PhaseNext DEF LogInv

\* The header of an event is read by a loop over the events.
LEMMA WalkOn ==
  ASSUME TypeOK, NEW s \in StoreType, Coherent(s), AtRest(View(s)),
         NEW addr \in EventStart, NEW loop \in {"list", "data_header"}, NEW prev \in Fields,
         BeginRead(s, addr, HeaderSize, DataStart),
         walk' = [prev |-> prev, cur |-> NoHeader, addr |-> addr, n |-> 0],
         pc' = loop, UNCHANGED <<ev, sess, done>>
  PROVE  LogInv'
<1>1. /\ StoreTypeOK' /\ CacheCoherent' /\ Buf!On' /\ Buf!Moved'
      /\ View(store') = View(s) /\ store'.flash = View(s) /\ before' = View(s)
      /\ Reading(addr, HeaderSize)'
  BY BeginReadFacts
<1>2. walk'.addr = addr /\ walk'.cur = NoHeader
  OBVIOUS
<1>3. walk' \in [prev : HeaderType, cur : HeaderType, addr : Nat, n : Nat]
  BY NoHeaderFits, Sizes DEF HeaderType, EventStart
<1>4. TypeOK'
  BY <1>1, <1>3, RestTypeOK DEF TypeOK, Busy
<1>5. Walking'
  BY <1>2, NoHeaderFits DEF Walking
<1>6. InWalk'
  BY <1>1, <1>2, <1>5 DEF InWalk, AtRest, Open, OwnHeader, Reading
<1>7. Sound(store'.flash)
  BY <1>1 DEF AtRest
<1> QED
  BY <1>1, <1>4, <1>6, <1>7, PhaseNext DEF LogInv

\* The newest event, on behalf of either loop.
LEMMA GetNewestStep ==
  ASSUME LogInv, NEW loop \in {"list", "data_header"}, GetNewest(loop)
  PROVE  LogInv'
<1>1. PICK s, last : s = GetPage(store, 0) /\ last = LastEvent(s.data)
  OBVIOUS
<1>2. TypeOK /\ pc = "idle"
  BY DEF LogInv, GetNewest
<1>3. /\ s \in StoreType /\ Coherent(s) /\ Sound(View(s)) /\ AtRest(View(s))
      /\ Sound(s.flash) /\ last = Last(View(s)) /\ xfer = NoXfer
  BY <1>1, <1>2, IdleLoad
<1>4. last \in {0} \cup EventStart
  BY <1>3 DEF Sound
<1>5. CASE last >= StorageSize
  <2>1. store' = s /\ pc' = "halt_last_event" /\ UNCHANGED <<xfer, before, ev, walk, sess, done>>
    BY <1>1, <1>5 DEF GetNewest
  <2> QED
    BY <1>2, <1>3, <2>1, Halting DEF Halted
<1>6. CASE ~(last >= StorageSize)
  <2>1. ReadEvent(s, last, loop, NoHeader)
    BY <1>1, <1>6 DEF GetNewest
  <2>2. CASE last < DataStart
    <3>1. \/ Return(s)
          \/ /\ store' = s /\ pc' = "halt_read_sample"
             /\ UNCHANGED <<xfer, before, ev, walk, sess, done>>
      BY <2>1, <2>2 DEF ReadEvent, NoMoreEvents
    <3>2. CASE Return(s)
      BY <1>2, <1>3, <3>2, ReturnStep
    <3>3. CASE /\ store' = s /\ pc' = "halt_read_sample"
               /\ UNCHANGED <<xfer, before, ev, walk, sess, done>>
      BY <1>2, <1>3, <3>3, Halting DEF Halted
    <3> QED
      BY <3>1, <3>2, <3>3
  <2>3. CASE ~(last < DataStart)
    <3>1. /\ BeginRead(s, last, HeaderSize, DataStart)
          /\ walk' = [prev |-> NoHeader, cur |-> NoHeader, addr |-> last, n |-> 0]
          /\ pc' = loop
          /\ UNCHANGED <<ev, sess, done>>
      BY <2>1, <2>3 DEF ReadEvent, NoWalk
    <3>2. last \in EventStart
      BY <1>4, <2>3, Sizes
    <3> QED
      BY <1>2, <1>3, <3>1, <3>2, NoHeaderFits, WalkOn
  <2> QED
    BY <2>2, <2>3
<1> QED
  BY <1>5, <1>6

\* Where a loop that has read something stands.
LEMMA WalkDone ==
  ASSUME LogInv, pc \in {"list", "data_header", "data_sample"}, XferDone
  PROVE  /\ TypeOK /\ StoreTypeOK /\ Buf!Moved /\ store \in StoreType /\ Coherent(store)
         /\ View(store) = before /\ AtRest(View(store)) /\ Sound(View(store))
         /\ Sound(store.flash) /\ Sound(before)
         /\ xfer.dir = "read" /\ Walking /\ walk.cur \in Fields /\ walk.n \in Nat
         /\ pc # "data_sample" => Reading(walk.addr, HeaderSize)
<1>1. /\ TypeOK /\ StoreTypeOK /\ CacheCoherent /\ Buf!Moved /\ InWalk /\ Sound(store.flash)
  BY DEF LogInv, TypeOK, Phase
<1>2. /\ AtRest(before) /\ xfer.dir = "read" /\ Walking
      /\ pc # "data_sample" => Reading(walk.addr, HeaderSize)
  BY <1>1 DEF InWalk, Reading
<1>3. View(store) = before
  BY <1>1, <1>2, SameStore DEF Buf!Moved
<1> QED
  BY <1>1, <1>2, <1>3 DEF TypeOK, StoreTypeOK, CacheCoherent, AtRest, HeaderType

\* A turn of the loop that lists the events.
LEMMA ListNextStep ==
  ASSUME LogInv, ListNext
  PROVE  LogInv'
<1>1. pc = "list" /\ XferDone
  BY DEF ListNext
<1>2. PICK s : s = store
  OBVIOUS
<1>3. /\ TypeOK /\ StoreTypeOK /\ Buf!Moved /\ s \in StoreType /\ Coherent(s)
      /\ AtRest(View(s)) /\ Sound(s.flash) /\ Sound(before)
      /\ walk.addr \in EventStart /\ Reading(walk.addr, HeaderSize)
  BY <1>1, <1>2, WalkDone DEF Walking
<1>4. ASSUME NEW h \in Fields, HeaderFits(h), NEW a \in {0} \cup EventStart,
             ReadEvent(s, a, "list", h)
      PROVE  LogInv'
  <2>1. CASE a < DataStart
    <3>1. Return(s)
      BY <1>4, <2>1 DEF ReadEvent, NoMoreEvents
    <3> QED
      BY <1>3, <3>1, ReturnStep
  <2>2. CASE ~(a < DataStart)
    <3>1. PICK addr, loop : addr = a /\ loop = "list"
      OBVIOUS
    <3>2. /\ BeginRead(s, addr, HeaderSize, DataStart)
          /\ walk' = [prev |-> h, cur |-> NoHeader, addr |-> addr, n |-> 0]
          /\ pc' = loop
          /\ UNCHANGED <<ev, sess, done>>
      BY <1>4, <2>2, <3>1 DEF ReadEvent, NoWalk
    <3>3. addr \in EventStart /\ loop \in {"list", "data_header"}
      BY <1>4, <2>2, <3>1, Sizes
    <3> QED
      BY <1>3, <1>4, <3>2, <3>3, WalkOn
  <2> QED
    BY <2>1, <2>2
<1>5. CASE IsEvent(xfer.cells) /\ ReadEvent(store, xfer.cells[2].header.last, "list",
                                            xfer.cells[2].header)
  <2>1. xfer.cells[2].header \in Fields /\ HeaderFits(xfer.cells[2].header)
    BY <1>1, <1>3, <1>5, HeaderRead
  <2> QED
    BY <1>2, <1>4, <1>5, <2>1 DEF HeaderFits
<1>6. CASE \E addr \in Addr : ReadEvent(store, addr, "list", NoHeader)
  <2>1. PICK addr \in Addr : ReadEvent(store, addr, "list", NoHeader)
    BY <1>6
  <2>2. CASE addr < DataStart
    <3>1. Return(s)
      BY <1>2, <2>1, <2>2 DEF ReadEvent, NoMoreEvents
    <3> QED
      BY <1>3, <3>1, ReturnStep
  <2>3. CASE ~(addr < DataStart)
    <3>1. addr \in EventStart
      BY <2>3, Sizes DEF Addr, EventStart
    <3> QED
      BY <1>2, <1>4, <2>1, <3>1, NoHeaderFits
  <2> QED
    BY <2>2, <2>3
<1>7. CASE NoMoreEvents(store, "list")
  <2>1. Return(s)
    BY <1>2, <1>7 DEF NoMoreEvents
  <2> QED
    BY <1>3, <2>1, ReturnStep
<1> QED
  BY <1>5, <1>6, <1>7 DEF ListNext

\* The n-th sample of an event ends before the event does.
LEMMA SampleInside ==
  ASSUME NEW h \in Fields, NEW n \in Nat, n < h.samples
  PROVE  /\ SampleSize * n \in Nat
         /\ HeaderSize + SampleSize * n + SampleSize <= TotalSize(h)
<1>1. PICK k \in Nat, m \in Nat, d \in Nat :
        /\ k = SampleSize /\ m = h.samples /\ m = n + 1 + d
  <2>1. h.samples \in Nat /\ h.samples - (n + 1) \in Nat
    BY DEF Fields
  <2> QED
    BY <2>1, Sizes
<1>2. /\ k * n \in Nat /\ d * k \in Nat /\ m * k \in Nat
      /\ m * k = (k * n + k) + d * k
  BY <1>1
<1>3. TotalSize(h) = m * k + HeaderSize
  BY <1>1 DEF TotalSize
<1> QED
  BY <1>1, <1>2, <1>3, Sizes

\* It is read from an address of the storage, or from the end of it.
LEMMA SourceInRing ==
  ASSUME NEW h \in Fields, HeaderFits(h), NEW n \in Nat, n < h.samples,
         NEW addr \in EventStart
  PROVE  SampleSource(addr, n) \in EventStart
<1>1. PICK x \in Nat : x = SampleSize * n
  BY SampleInside
<1>2. HeaderSize + x + SampleSize <= TotalSize(h) /\ TotalSize(h) <= RingSize
      /\ TotalSize(h) \in Nat
  BY <1>1, SampleInside, TotalIs DEF HeaderFits
<1>3. addr + HeaderSize + x \in Nat /\ addr + HeaderSize + x >= DataStart
      /\ addr + HeaderSize + x <= StorageSize + RingSize - 1
  BY <1>2, Sizes DEF EventStart, RingSize
<1>4. WrapAddr(addr + HeaderSize + x, DataStart) \in EventStart
  BY <1>3, WrapIs
<1> QED
  BY <1>1, <1>4 DEF SampleSource

\* A sample is read, or the loop over the samples ends.
LEMMA ReadSampleStep ==
  ASSUME LogInv, pc \in {"data_header", "data_sample"}, XferDone,
         NEW h \in Fields, HeaderFits(h), NEW n \in Nat, ReadSample(h, walk.addr, n)
  PROVE  LogInv'
<1>1. PICK s, addr, source :
        s = store /\ addr = walk.addr /\ source = SampleSource(addr, n)
  OBVIOUS
<1>2. /\ TypeOK /\ s \in StoreType /\ Coherent(s)
      /\ AtRest(View(s)) /\ Sound(s.flash) /\ Sound(View(s)) /\ xfer.dir = "read"
      /\ addr \in EventStart
  BY <1>1, WalkDone DEF Walking
<1>3. CASE n >= h.samples
  <2>1. Return(s)
    BY <1>1, <1>3 DEF ReadSample
  <2> QED
    BY <1>2, <2>1, ReturnStep
<1>4. CASE ~(n >= h.samples) /\ source >= StorageSize
  <2>1. /\ pc' = "halt_read_sample"
        /\ UNCHANGED <<store, xfer, before, ev, walk, sess, done>>
    BY <1>1, <1>4 DEF ReadSample
  <2> QED
    BY <1>2, <2>1, HaltingInPlace DEF Halted
<1>5. CASE ~(n >= h.samples) /\ ~(source >= StorageSize)
  <2>1. /\ BeginRead(s, source, SampleSize, DataStart)
        /\ walk' = [prev |-> walk.prev, cur |-> h, addr |-> addr, n |-> n]
        /\ pc' = "data_sample"
        /\ UNCHANGED <<ev, sess, done>>
    BY <1>1, <1>5 DEF ReadSample
  <2>2. n < h.samples
    BY <1>5 DEF Fields
  <2>3. source \in EventStart
    BY <1>1, <1>2, <2>2, SourceInRing
  <2>4. /\ StoreTypeOK' /\ CacheCoherent' /\ Buf!On' /\ Buf!Moved'
        /\ View(store') = View(s) /\ store'.flash = View(s) /\ before' = View(s)
        /\ Reading(source, SampleSize)'
    BY <1>2, <2>1, <2>3, BeginReadFacts
  <2>5. walk' \in [prev : HeaderType, cur : HeaderType, addr : Nat, n : Nat]
    <3>1. walk.prev \in HeaderType /\ addr \in Nat
      BY <1>2, Sizes DEF TypeOK, EventStart
    <3> QED
      BY <2>1, <3>1 DEF HeaderType
  <2>6. TypeOK'
    BY <1>2, <2>1, <2>4, <2>5, RestTypeOK DEF TypeOK, Busy
  <2>7. InWalk'
    <3>1. AtRest(before)'
      BY <1>2, <2>1, <2>4 DEF AtRest, Open, OwnHeader
    <3>2. walk'.addr = addr /\ walk'.n = n /\ walk'.cur = h
      BY <2>1
    <3>3. Reading(SampleSource(walk.addr, walk.n), SampleSize)'
      BY <1>1, <2>4, <3>2 DEF Reading, SampleSource
    <3>4. pc' = "data_sample"
      BY <2>1
    <3> QED
      BY <1>2, <2>2, <3>1, <3>2, <3>3, <3>4 DEF InWalk, Walking
  <2> QED
    BY <1>2, <2>1, <2>4, <2>6, <2>7, PhaseNext DEF LogInv
<1> QED
  BY <1>3, <1>4, <1>5

\* The first sample of an event.
LEMMA DataFirstStep ==
  ASSUME LogInv, DataFirst
  PROVE  LogInv'
<1>1. pc = "data_header" /\ XferDone
  BY DEF DataFirst
<1>2. PICK s : s = store
  OBVIOUS
<1>3. /\ TypeOK /\ StoreTypeOK /\ Buf!Moved /\ s \in StoreType /\ Coherent(s)
      /\ AtRest(View(s)) /\ Sound(s.flash) /\ Sound(before) /\ xfer.dir = "read"
      /\ walk.addr \in EventStart /\ Reading(walk.addr, HeaderSize)
  BY <1>1, <1>2, WalkDone DEF Walking
<1>4. CASE IsEvent(xfer.cells)
  <2>1. PICK h, n : h = xfer.cells[2].header /\ n = 0
    OBVIOUS
  <2>2. h \in Fields /\ HeaderFits(h)
    BY <1>1, <1>3, <1>4, <2>1, HeaderRead
  <2>3. ReadSample(h, walk.addr, n)
    BY <1>4, <2>1 DEF DataFirst
  <2> QED
    BY <1>1, <2>1, <2>2, <2>3, ReadSampleStep
<1>5. CASE ~IsEvent(xfer.cells)
  <2>1. \/ Return(s)
        \/ /\ store' = s /\ pc' = "halt_read_sample"
           /\ UNCHANGED <<xfer, before, ev, walk, sess, done>>
    BY <1>2, <1>5 DEF DataFirst, NoMoreEvents
  <2>2. CASE Return(s)
    BY <1>3, <2>2, ReturnStep
  <2>3. CASE /\ store' = s /\ pc' = "halt_read_sample"
             /\ UNCHANGED <<xfer, before, ev, walk, sess, done>>
    BY <1>1, <1>2, <1>3, <2>3, HaltingInPlace DEF Halted
  <2> QED
    BY <2>1, <2>2, <2>3
<1> QED
  BY <1>4, <1>5

\* The next sample.
LEMMA DataNextStep ==
  ASSUME LogInv, DataNext
  PROVE  LogInv'
<1>1. /\ pc = "data_sample" /\ XferDone
      /\ ReadSample(walk.cur, walk.addr, walk.n + 1)
  BY DEF DataNext
<1>2. PICK h, n : h = walk.cur /\ n = walk.n + 1
  OBVIOUS
<1>3. h \in Fields /\ HeaderFits(h) /\ n \in Nat
  BY <1>1, <1>2, WalkDone DEF Walking
<1> QED
  BY <1>1, <1>2, <1>3, ReadSampleStep

\* A reset at any point.
LEMMA PowerLossStep ==
  ASSUME LogInv, PowerLoss
  PROVE  LogInv'
<1>1. /\ TypeOK /\ StoreTypeOK /\ Sound(store.flash) /\ Reset
      /\ pc' = "idle" /\ ev' = NoEvent /\ walk' = NoWalk
      /\ UNCHANGED <<sess, done>> /\ xfer' = NoXfer
  BY DEF LogInv, TypeOK, PowerLoss, Reset
<1>2. /\ StoreTypeOK' /\ CacheCoherent'
      /\ View(store') = store.flash /\ store'.flash = store.flash
  BY <1>1, ResetFacts
<1>3. Buf!On' /\ Buf!Moved'
  BY <1>1, <1>2, NoXferNext DEF StoreTypeOK, CacheCoherent, Image
<1>4. TypeOK'
  <2>1. ev' \in EventType
    BY <1>1, NoHeaderFits, Sizes DEF NoEvent, EventType, HeaderType
  <2> QED
    BY <1>1, <1>2, <2>1, RestTypeOK, NoHeaderFits DEF TypeOK, NoWalk, HeaderType
<1>5. InIdle'
  BY <1>1, <1>2 DEF InIdle, AtRest, NoEvent, NoHeader
<1> QED
  BY <1>1, <1>2, <1>3, <1>4, <1>5, PhaseNext DEF LogInv

-----------------------------------------------------------------------------
(* Theorems                                                                *)

\* The chip as it comes out of a format, before anything was logged.
LEMMA InitHolds ==
  ASSUME Init
  PROVE  LogInv
<1>1. PICK f : /\ f = [a \in Addr |-> IF a = DataStart - 1 THEN LastCell(0)
                                      ELSE IF a < PageSize THEN ZeroCell ELSE Erased]
               /\ store = PowerUp(f)
  BY DEF Init
<1>2. /\ xfer = NoXfer /\ before = View(store) /\ pc = "idle"
      /\ ev = NoEvent /\ walk = NoWalk /\ sess = 0 /\ done = {}
  BY DEF Init
<1>3. LastCell(0) \in LogCell /\ ZeroCell \in LogCell /\ Erased \in LogCell
  BY DEF LastCell, ZeroCell, Erased, LogCell
<1>4. f \in Image
  BY <1>1, <1>3 DEF Image
<1>5. store \in StoreType /\ Coherent(store) /\ store.flash = f
  <2>1. [i \in Offset |-> ZeroCell] \in [Offset -> LogCell]
    BY <1>3
  <2> QED
    BY <1>1, <1>4, <2>1 DEF PowerUp, StoreType, Coherent, Image
<1>6. View(store) = f
  <2>1. store.page = NoPage
    BY <1>1 DEF PowerUp
  <2>2. View(store) = [a \in Addr |-> f[a]]
    BY <1>5, <2>1 DEF View
  <2> QED
    BY <1>4, <2>2 DEF Image
<1>7. Sound(f)
  <2>1. DataStart - 1 \in Addr
    BY Sizes DEF Addr
  <2>2. f[DataStart - 1] = LastCell(0)
    BY <1>1, <2>1
  <2>3. \A a \in Addr : CellFits(f[a])
    BY <1>1, OtherCellsFit
  <2> QED
    BY <2>2, <2>3 DEF Sound, Last, LastCell
<1>8. StoreTypeOK /\ CacheCoherent
  <2>1. NoXfer \in XferType
    BY DEF NoXfer, XferType
  <2> QED
    BY <1>2, <1>4, <1>5, <1>6, <2>1, Sizes DEF StoreTypeOK, NoXfer, Reach, Image, CacheCoherent
<1>9. Buf!On /\ Buf!Moved
  BY <1>2, NoneMoved
<1>10. TypeOK
  <2>1. ev \in EventType
    BY <1>2, NoHeaderFits, Sizes DEF NoEvent, EventType, HeaderType
  <2>2. sess \in 0 .. MaxSessions
    BY <1>2, LayoutAssumption
  <2>3. walk \in [prev : HeaderType, cur : HeaderType, addr : Nat, n : Nat]
    BY <1>2, NoHeaderFits DEF NoWalk, HeaderType
  <2> QED
    BY <1>2, <1>8, <2>1, <2>2, <2>3 DEF TypeOK
<1>11. Phase
  BY <1>2, <1>6, <1>7 DEF Phase, InIdle, InFormat, InWalk, InStartRead, InStartHeader,
    InStartFlush, InSample, InEndHeader, InEndFlush, InHalt, Halted, AtRest, NoEvent, NoHeader
<1> QED
  BY <1>5, <1>7, <1>8, <1>9, <1>10, <1>11 DEF LogInv

\* Every step keeps the invariant.
LEMMA LogStep ==
  ASSUME LogInv, [Next]_vars
  PROVE  LogInv'
<1>1. CASE UNCHANGED vars
  <2>1. /\ store' = store /\ xfer' = xfer /\ before' = before /\ pc' = pc
        /\ ev' = ev /\ walk' = walk /\ sess' = sess /\ done' = done
    BY <1>1 DEF vars
  <2>2. TypeOK'
    BY <2>1 DEF LogInv, TypeOK, StoreTypeOK
  <2>3. Buf!On' /\ Buf!Moved'
    BY <2>1 DEF LogInv, Buf!On, Buf!Moved, Buf!Lands, Buf!XferDone
  <2>4. (pc # "end_flush" => CacheCoherent)' /\ Sound(store'.flash)
    BY <2>1 DEF LogInv, CacheCoherent
  <2>5. InIdle' /\ InFormat' /\ InWalk' /\ InStartRead'
    BY <2>1 DEF LogInv, Phase, InIdle, InFormat, InWalk, InStartRead, AtRest, Open,
      OwnHeader, Reading, Walking
  <2>6. InStartHeader' /\ InStartFlush' /\ InSample' /\ InEndHeader'
    BY <2>1 DEF LogInv, Phase, InStartHeader, InStartFlush, InSample, InEndHeader, AtRest,
      Open, OwnHeader, Fresh, Writing, PointerCells
  <2>7. InEndFlush' /\ InHalt'
    BY <2>1 DEF LogInv, Phase, InEndFlush, InHalt, XferDone
  <2> QED
    BY <2>2, <2>3, <2>4, <2>5, <2>6, <2>7 DEF LogInv, Phase
<1>2. CASE Next
  BY <1>2, StartEventStep, StartAfterLastStep, StartPointerStep, StartFlushStep,
    EndEventStep, EndPointerStep, EndFlushStep, WriteSampleStep, SampleWrittenStep,
    FormatStep, FormatFlushStep, GetNewestStep, ListNextStep, DataFirstStep, DataNextStep,
    TransferStep, PowerLossStep DEF Next, ListEvents, GetEventData
<1> QED
  BY <1>1, <1>2

\* So it holds throughout.
LEMMA LogAlways == Spec => []LogInv
<1>1. Init => LogInv
  BY InitHolds
<1>2. LogInv /\ [Next]_vars => LogInv'
  BY LogStep
<1> QED
  BY <1>1, <1>2, PTL DEF Spec

\* Every variable of the logger keeps its type.
THEOREM LoggerTypeCorrect == Spec => []TypeOK
<1>1. LogInv => TypeOK
  BY DEF LogInv
<1> QED
  BY <1>1, LogAlways, PTL

\* At every instant, so also after a reset at that instant, last_event on the
\* chip is 0 or leads to an event, up to the one gap that the property names.
THEOREM LoggerPointerNamesEvent == Spec => []PointerNamesEvent
<1>1. ASSUME LogInv
      PROVE  PointerNamesEvent
  <2>1. PICK f, last : f = store.flash /\ last = Last(f)
    OBVIOUS
  <2>2. Sound(f)
    BY <1>1, <2>1 DEF LogInv
  <2>3. LastEvent(f) = last /\ last \in {0} \cup EventStart
    BY <2>1, <2>2 DEF Sound, LastEvent, Last
  <2>4. ASSUME last # 0
        PROVE  EventAt(f, last) \/ EventAt(f, RingCell(last, StorageSize - DataStart - 1, DataStart))
    <3>1. last \in EventStart /\ last >= DataStart
      BY <2>3, <2>4, Sizes DEF EventStart
    <3>2. 0 \in 0 .. RingSize - 1 /\ 1 \in 0 .. RingSize - 1 /\ RingSize - 1 \in 0 .. RingSize - 1
      BY Sizes DEF RingSize
    <3>3. Named(f, last) \/ Replaced(f, last)
      BY <2>1, <2>2, <2>4 DEF Sound
    <3>4. CASE Named(f, last)
      <4>1. CellAt(f, last, 0) = f[At(last, 0)] /\ CellAt(f, last, 1) = f[At(last, 1)]
        BY <3>1, <3>2, CellAtIs
      <4> QED
        BY <3>1, <3>4, <4>1 DEF EventAt, IsEvent, Named
    <3>5. CASE Replaced(f, last)
      <4>1. PICK b : b = At(last, RingSize - 1)
        OBVIOUS
      <4>2. RingCell(last, StorageSize - DataStart - 1, DataStart) = b
        <5>1. DataStart \in 0 .. StorageSize - 1 /\ last \in Buf!Reach(DataStart)
              /\ RingSize - 1 \in 0 .. StorageSize - DataStart - 1
          BY <3>1, Sizes DEF EventStart, RingSize, Buf!Reach
        <5>2. Buf!RingCell(last, RingSize - 1, DataStart) = b
          BY <4>1, <5>1, StorageAssumptions, Buf!PlaceIsRingCell DEF At
        <5> QED
          BY <5>2, SameStore DEF RingSize
      <4>3. b \in EventStart /\ b >= DataStart /\ At(b, 0) = b /\ At(b, 1) = At(last, 0)
        BY <3>1, <4>1, Sizes DEF EventStart, RingSize, At, Buf!Place
      <4>4. CellAt(f, b, 0) = f[At(b, 0)] /\ CellAt(f, b, 1) = f[At(b, 1)]
        BY <3>2, <4>3, CellAtIs
      <4>5. f[b] = Sentinel /\ f[At(last, 0)].kind = "fields"
        BY <3>5, <4>1 DEF Replaced
      <4> QED
        BY <4>2, <4>3, <4>4, <4>5 DEF EventAt, IsEvent
    <3> QED
      BY <3>3, <3>4, <3>5
  <2> QED
    BY <2>1, <2>3, <2>4 DEF PointerNamesEvent
<1> QED
  BY <1>1, LogAlways, PTL

\* As long as no format falls into an open event, its header stays where the
\* event starts, however often the ring comes round.
THEOREM LoggerOwnHeaderSurvives ==
  ASSUME FormatWhileLogging = FALSE
  PROVE  Spec => []OwnHeaderSurvives
<1>1. ASSUME LogInv
      PROVE  OwnHeaderSurvives
  <2> SUFFICES ASSUME pc \in {"idle", "sample"}, ev.header.inProgress
               PROVE  /\ EventAt(View(store), ev.start)
                      /\ HeaderAt(View(store), ev.start).sess = ev.header.sess
    BY DEF OwnHeaderSurvives
  <2>1. TypeOK /\ Buf!Moved /\ Phase
    BY <1>1 DEF LogInv
  <2>2. /\ OwnHeader(View(store)) /\ ev.start \in EventStart
    <3>1. CASE pc = "idle"
      BY <2>1, <3>1 DEF Phase, InIdle, AtRest, Open
    <3>2. CASE pc = "sample"
      <4>1. InSample
        BY <2>1 DEF Phase
      <4>2. OwnHeader(before) /\ ev.start \in EventStart
        BY <3>2, <4>1 DEF InSample, AtRest, Open
      <4> QED
        BY <2>1, <3>2, <4>1, <4>2, SampleView
    <3> QED
      BY <3>1, <3>2
  <2>3. PICK f, a, h : /\ f = View(store) /\ a = ev.start
                       /\ h = [ev.header EXCEPT !.samples = 0, !.inProgress = TRUE]
    OBVIOUS
  <2>4. a \in EventStart /\ a >= DataStart /\ h.sess = ev.header.sess
    <3>1. ev.header \in Fields
      BY <2>1 DEF TypeOK, EventType, HeaderType
    <3> QED
      BY <2>2, <2>3, <3>1, Sizes DEF EventStart, Fields
  <2>5. CellAt(f, a, 0) = f[At(a, 0)] /\ CellAt(f, a, 1) = f[At(a, 1)]
    <3>1. 0 \in 0 .. RingSize - 1 /\ 1 \in 0 .. RingSize - 1
      BY Sizes DEF RingSize
    <3> QED
      BY <2>4, <3>1, CellAtIs
  <2>6. f[At(a, 0)] = Sentinel /\ f[At(a, 1)] = FieldsCell(h)
    BY <2>2, <2>3 DEF OwnHeader
  <2>7. EventAt(f, a) /\ HeaderAt(f, a) = h
    BY <2>4, <2>5, <2>6 DEF EventAt, IsEvent, HeaderAt, FieldsCell
  <2> QED
    BY <2>3, <2>4, <2>7
<1> QED
  BY <1>1, LogAlways, PTL

-----------------------------------------------------------------------------
(* The events that can be listed                                           *)

Fielded(f, a) == f[At(a, 1)].kind = "fields"

Hdr(f, a) == f[At(a, 1)].header

\* The samples that a header counts are there.
Intact(f, a, h) ==
  \A n \in 0 .. h.samples - 1, i \in 1 .. SampleSize :
    f[At(a, HeaderSize + n * SampleSize + i - 1)] = SampleCell(h.sess, n, i)

\* How far behind the newest event the next one goes.
After(f) == IF Named(f, Last(f)) THEN TotalSize(Hdr(f, Last(f))) ELSE HeaderSize

\* Where the next event goes; if that is where the newest one starts, it is not
\* meant.
AtNext(f, a) ==
  Last(f) # 0 /\ At(a, 0) = At(Last(f), After(f)) /\ At(a, 0) # At(Last(f), 0)

\* The fields at an address are of an event begun after the m-th.
Newer(m, f, a) == Fielded(f, a) /\ Hdr(f, a).sess > m

LinkKept(m, f, a) == a # 0 /\ Fielded(f, a) => Newer(m, f, a)

\* The events begun after the m-th have their samples, the fields of old ones
\* that were cut included unless they stand where the next event goes; their
\* links lead to such events, or to no event any more.
Kept(m, f) ==
  /\ \A a \in EventStart : Newer(m, f, a) => LinkKept(m, f, Hdr(f, a).last)
  /\ \A a \in EventStart :
       Named(f, a) /\ Newer(m, f, a) => Intact(f, a, Hdr(f, a)) \/ AtNext(f, a)
  /\ Last(f) # 0 => Newer(m, f, Last(f))

\* All of the events begun after the m-th have their samples.
AllIntact(m, f) ==
  \A a \in EventStart : Named(f, a) /\ Newer(m, f, a) => Intact(f, a, Hdr(f, a))

\* No fields are of an event begun after the m-th.
Old(m, f) == \A a \in EventStart : Fielded(f, a) => Hdr(f, a).sess <= m

\* A log whose listed events have their samples.
Listed(f) == Old(sess, f) /\ \E m \in 0 .. sess : Kept(m, f)

\* A place among the samples of an event is a place in one of them.
LEMMA PlaceInSample ==
  ASSUME NEW n \in Nat, NEW x \in Nat, x < n * SampleSize
  PROVE  \E k \in 0 .. n - 1, i \in 1 .. SampleSize : x = k * SampleSize + i - 1
<1>1. PICK s \in Nat \ {0} : s = SampleSize
  BY Sizes
<1>2. PICK k \in Nat, r \in Nat : x = s * k + r /\ r < s
  <2>1. (x \div s) \in Nat /\ (x % s) \in Nat /\ x = s * (x \div s) + (x % s) /\ x % s < s
    OBVIOUS
  <2> QED
    BY <2>1
<1>3. k < n
  <2>1. ASSUME k >= n PROVE FALSE
    <3>1. PICK d \in Nat : k = n + d
      <4>1. k - n \in Nat
        BY <2>1
      <4> QED
        BY <4>1
    <3>2. s * k = n * s + d * s /\ d * s \in Nat /\ n * s \in Nat
      BY <3>1
    <3> QED
      BY <1>1, <1>2, <3>2
  <2> QED
    BY <2>1
<1>4. r + 1 \in 1 .. s /\ x = k * s + (r + 1) - 1
  <2>1. s * k = k * s /\ s * k \in Nat
    OBVIOUS
  <2> QED
    BY <1>2, <2>1
<1>5. k \in 0 .. n - 1
  BY <1>3
<1> QED
  BY <1>1, <1>4, <1>5

\* The place of a sample is behind the header and within the event.
LEMMA SampleInEvent ==
  ASSUME NEW h, h.samples \in Nat, NEW n \in 0 .. h.samples - 1, NEW i \in 1 .. SampleSize
  PROVE  /\ HeaderSize + n * SampleSize + i - 1 \in Nat
         /\ HeaderSize + n * SampleSize + i - 1 >= HeaderSize
         /\ HeaderSize + n * SampleSize + i - 1 < TotalSize(h)
<1>1. PICK s \in Nat \ {0} : s = SampleSize
  BY Sizes
<1>2. PICK d \in Nat : h.samples = (n + 1) + d
  <2>1. h.samples - (n + 1) \in Nat /\ h.samples = (n + 1) + (h.samples - (n + 1))
    OBVIOUS
  <2> QED
    BY <2>1
<1>3. PICK q \in Nat, r \in Nat : q = n * s /\ r = d * s
  OBVIOUS
<1>4. ((n + 1) + d) * s = q + s + r
  BY <1>3
<1> QED
  BY <1>1, <1>2, <1>3, <1>4, Sizes DEF TotalSize

\* Behind the header of an event that is intact there are only sample cells.
LEMMA OnlySamples ==
  ASSUME NEW f, NEW a, NEW h \in Fields, Intact(f, a, h),
         NEW k \in Nat, k >= HeaderSize, k < TotalSize(h)
  PROVE  f[At(a, k)].kind = "sample"
<1>1. h.samples \in Nat /\ h.sess \in Nat
  BY DEF Fields
<1>2. PICK x \in Nat : k = HeaderSize + x
  <2>1. k - HeaderSize \in Nat
    BY Sizes
  <2> QED
    BY <2>1, Sizes
<1>3. x < h.samples * SampleSize
  <2>1. PICK p \in Nat : p = h.samples * SampleSize
    BY <1>1, Sizes
  <2> QED
    BY <1>2, <2>1, Sizes DEF TotalSize
<1>4. PICK n \in 0 .. h.samples - 1, i \in 1 .. SampleSize : x = n * SampleSize + i - 1
  BY <1>1, <1>3, PlaceInSample
<1>5. k = HeaderSize + n * SampleSize + i - 1
  <2>1. PICK p \in Nat : p = n * SampleSize
    BY <1>1, Sizes
  <2> QED
    BY <1>2, <1>4, <2>1, Sizes
<1>6. f[At(a, k)] = SampleCell(h.sess, n, i)
  BY <1>5 DEF Intact
<1> QED
  BY <1>6 DEF SampleCell

\* An event whose cells are not written over stays intact.
LEMMA IntactCarries ==
  ASSUME NEW f, NEW g, NEW a, NEW h \in Fields, Intact(f, a, h),
         \A k \in Nat : k >= HeaderSize /\ k < TotalSize(h) => g[At(a, k)] = f[At(a, k)]
  PROVE  Intact(g, a, h)
<1> SUFFICES ASSUME NEW n \in 0 .. h.samples - 1, NEW i \in 1 .. SampleSize
             PROVE  g[At(a, HeaderSize + n * SampleSize + i - 1)] = SampleCell(h.sess, n, i)
  BY DEF Intact
<1>1. h.samples \in Nat
  BY DEF Fields
<1>2. /\ HeaderSize + n * SampleSize + i - 1 \in Nat
      /\ HeaderSize + n * SampleSize + i - 1 >= HeaderSize
      /\ HeaderSize + n * SampleSize + i - 1 < TotalSize(h)
  BY <1>1, SampleInEvent
<1> QED
  BY <1>2 DEF Intact

\* Seen from an address, every cell of the ring is some cells further on.
LEMMA Distance ==
  ASSUME NEW a \in EventStart, NEW e \in EventStart
  PROVE  \E j \in 0 .. RingSize - 1 : At(a, 0) = At(e, j)
<1>1. PICK x \in DataStart .. StorageSize - 1, y \in DataStart .. StorageSize - 1 :
        x = At(a, 0) /\ y = At(e, 0)
  BY AtInRing, Sizes DEF EventStart, RingSize
<1>2. e = y \/ (e = StorageSize /\ y = DataStart)
  BY <1>1, Sizes DEF At, Buf!Place, EventStart, RingSize
<1>3. CASE x >= y
  <2>1. x - y \in 0 .. RingSize - 1
    BY <1>1, <1>3, Sizes DEF RingSize
  <2>2. At(e, x - y) = x
    BY <1>1, <1>2, <1>3, Sizes DEF At, Buf!Place, RingSize
  <2> QED
    BY <1>1, <2>1, <2>2
<1>4. CASE x < y
  <2>1. x + RingSize - y \in 0 .. RingSize - 1
    BY <1>1, <1>4, Sizes DEF RingSize
  <2>2. At(e, x + RingSize - y) = x
    BY <1>1, <1>2, <1>4, Sizes DEF At, Buf!Place, RingSize
  <2> QED
    BY <1>1, <2>1, <2>2
<1> QED
  BY <1>1, <1>3, <1>4, Sizes

\* Going on from the cell t cells further on.
LEMMA FurtherOn ==
  ASSUME NEW a \in EventStart, NEW b \in EventStart, NEW t \in 0 .. RingSize,
         At(b, 0) = At(a, t), NEW i \in 0 .. RingSize
  PROVE  At(b, i) = IF t + i <= RingSize THEN At(a, t + i) ELSE At(a, t + i - RingSize)
<1>1. a \in DataStart .. StorageSize + HeaderSize /\ b \in DataStart .. StorageSize + HeaderSize
  BY Sizes DEF EventStart
<1> QED
  BY <1>1, AtFurther

\* What is written behind an event e, u cells behind its start, hits no sample of
\* another event a that is intact: between e and that cell there are only
\* samples and cells that were written over, so a starts further on, and its
\* samples would have gone through the fields of e.
LEMMA NotHit ==
  ASSUME NEW f, NEW a \in EventStart, NEW e \in EventStart,
         Named(f, a), Fielded(f, e), At(a, 0) # At(e, 0),
         Hdr(f, a) \in Fields, HeaderFits(Hdr(f, a)), Intact(f, a, Hdr(f, a)),
         NEW T \in Nat, T >= HeaderSize, NEW u \in T .. RingSize - 1,
         \A i \in HeaderSize .. T - 1 : f[At(e, i)].kind = "sample",
         \A i \in T .. u : At(a, 0) # At(e, i),
         NEW k \in Nat, k >= HeaderSize, k < TotalSize(Hdr(f, a))
  PROVE  At(a, k) # At(e, u)
<1> SUFFICES ASSUME At(a, k) = At(e, u) PROVE FALSE
  OBVIOUS
<1>1. PICK j \in 0 .. RingSize - 1 : At(a, 0) = At(e, j)
  BY Distance
<1>2. /\ RingSize \in Nat /\ HeaderSize = 2 /\ k <= RingSize - 1 /\ RingSize > 5
      /\ u \in 0 .. RingSize - 1
  <2>1. PICK t \in Nat : t = TotalSize(Hdr(f, a))
    BY TotalIs
  <2> QED
    BY <2>1, Sizes DEF HeaderFits, RingSize
<1>3. j > u
  <2>1. j # 0
    BY <1>1
  <2>2. j # 1
    BY <1>1 DEF Fielded, Named, Sentinel
  <2>3. ~(j \in HeaderSize .. T - 1)
    <3>1. Sentinel.kind # "sample"
      BY DEF Sentinel
    <3> QED
      BY <1>1, <3>1 DEF Named
  <2>4. ~(j \in T .. u)
    BY <1>1
  <2> QED
    BY <1>1, <1>2, <2>1, <2>2, <2>3, <2>4
<1>4. j + k = u + RingSize
  <2>1. k \in 0 .. RingSize
    BY <1>2
  <2>2. At(a, k) = IF j + k <= RingSize THEN At(e, j + k) ELSE At(e, j + k - RingSize)
    BY <1>1, <1>2, <2>1, FurtherOn
  <2>3. \A x \in 0 .. RingSize - 1 : At(e, x) = At(e, u) => x = u
    <3>1. e \in DataStart .. StorageSize + HeaderSize
      BY Sizes DEF EventStart
    <3> QED
      BY <1>2, <3>1, AtApart
  <2>4. CASE j + k < RingSize
    BY <1>2, <1>3, <2>2, <2>3, <2>4
  <2>5. CASE j + k = RingSize
    <3>1. At(a, k) = At(e, 0)
      BY <1>2, <2>2, <2>5, AtRound
    <3>2. u = 0
      BY <1>2, <2>3, <3>1
    <3> QED
      BY <1>2, <3>2
  <2>6. CASE j + k > RingSize
    <3>1. j + k - RingSize \in 0 .. RingSize - 1 /\ At(a, k) = At(e, j + k - RingSize)
      BY <1>1, <1>2, <2>2, <2>6
    <3>2. j + k - RingSize = u
      BY <2>3, <3>1
    <3> QED
      BY <1>1, <1>2, <3>2
  <2> QED
    BY <1>1, <1>2, <2>4, <2>5, <2>6
<1>5. PICK d \in Nat : d = RingSize - j + 1 /\ d >= 2 /\ d < k /\ d <= RingSize
  <2>1. RingSize - j + 1 >= 2 /\ RingSize - j + 1 < k
    BY <1>1, <1>2, <1>4
  <2> QED
    BY <1>1, <1>2, <2>1
<1>6. At(a, d) = At(e, 1)
  <2>1. At(a, d) = IF j + d <= RingSize THEN At(e, j + d) ELSE At(e, j + d - RingSize)
    BY <1>1, <1>5, <1>2, FurtherOn
  <2>2. j + d = RingSize + 1 /\ j + d - RingSize = 1
    BY <1>1, <1>2, <1>5
  <2> QED
    BY <1>2, <2>1, <2>2
<1>7. f[At(a, d)].kind = "sample"
  <2>1. PICK t \in Nat : t = TotalSize(Hdr(f, a))
    BY TotalIs
  <2>2. d >= HeaderSize /\ d < TotalSize(Hdr(f, a))
    BY <1>2, <1>5, <2>1
  <2> QED
    BY <2>2, OnlySamples
<1> QED
  BY <1>6, <1>7 DEF Fielded

\* The cells of the ring behind an address all differ.
LEMMA AllApart ==
  ASSUME NEW e \in EventStart, NEW i \in 0 .. RingSize - 1, NEW j \in 0 .. RingSize - 1
  PROVE  (At(e, i) = At(e, j)) <=> (i = j)
<1>1. e \in DataStart .. StorageSize + HeaderSize
  BY Sizes DEF EventStart
<1> QED
  BY <1>1, AtApart

\* They are the same behind two addresses of one cell.
LEMMA SameCells ==
  ASSUME NEW a \in EventStart, NEW b \in EventStart, At(b, 0) = At(a, 0),
         NEW i \in 0 .. RingSize
  PROVE  At(b, i) = At(a, i)
<1>1. 0 \in 0 .. RingSize /\ 0 + i = i /\ 0 + i <= RingSize
  BY Sizes DEF RingSize
<1> QED
  BY <1>1, FurtherOn

\* So headers in the same place have the same sentinel.
LEMMA SameSentinel ==
  ASSUME NEW a \in EventStart, NEW b \in EventStart, At(b, 1) = At(a, 1)
  PROVE  At(b, 0) = At(a, 0)
<1>1. PICK j \in 0 .. RingSize - 1 : At(b, 0) = At(a, j)
  BY Distance
<1>2. RingSize \in Nat /\ RingSize > 5 /\ j \in 0 .. RingSize /\ 1 \in 0 .. RingSize
  BY Sizes DEF RingSize
<1>3. At(b, 1) = IF j + 1 <= RingSize THEN At(a, j + 1) ELSE At(a, j + 1 - RingSize)
  BY <1>1, <1>2, FurtherOn
<1>4. At(b, 1) = At(a, j + 1)
  BY <1>2, <1>3
<1>5. CASE j + 1 = RingSize
  <2>1. At(a, 1) = At(a, 0)
    BY <1>4, <1>5, AtRound
  <2> QED
    BY <1>2, <2>1, AllApart
<1>6. CASE j + 1 < RingSize
  <2>1. j + 1 \in 0 .. RingSize - 1 /\ 1 \in 0 .. RingSize - 1
    BY <1>1, <1>2, <1>6
  <2>2. j + 1 = 1
    BY <1>4, <2>1, AllApart
  <2> QED
    BY <1>1, <1>2, <2>2
<1> QED
  BY <1>1, <1>2, <1>5, <1>6

\* An address of the ring lands on its cells.
LEMMA Lands ==
  ASSUME NEW a \in EventStart, NEW i \in 0 .. RingSize
  PROVE  At(a, i) \in Addr /\ At(a, i) \in DataStart .. StorageSize - 1
<1>1. a \in DataStart .. StorageSize + HeaderSize
  BY Sizes DEF EventStart
<1> QED
  BY <1>1, AtInRing

\* The fields that are found anywhere are those of a header that fits.
LEMMA FieldedFits ==
  ASSUME NEW f \in Image, Sound(f), NEW a \in EventStart, Fielded(f, a)
  PROVE  /\ Hdr(f, a) \in Fields /\ HeaderFits(Hdr(f, a))
         /\ Hdr(f, a).last \in {0} \cup EventStart
         /\ TotalSize(Hdr(f, a)) \in HeaderSize .. RingSize
         /\ f[At(a, 1)] = FieldsCell(Hdr(f, a))
<1>1. At(a, 1) \in Addr
  BY Lands, Sizes DEF RingSize
<1>2. Hdr(f, a) \in Fields /\ HeaderFits(Hdr(f, a))
  BY <1>1, FieldsAre DEF Image, Fielded, Hdr, Sound, CellFits
<1>3. f[At(a, 1)] = FieldsCell(Hdr(f, a))
  BY <1>1 DEF Image, LogCell, Fielded, Hdr, FieldsCell, Erased, ZeroCell, Junk, Sentinel
<1>4. PICK t \in Nat : t = TotalSize(Hdr(f, a)) /\ t >= HeaderSize
  BY <1>2, TotalIs
<1> QED
  BY <1>2, <1>3, <1>4, Sizes DEF HeaderFits, RingSize

\* The next event has its place within one turn of the ring.
LEMMA AfterIs ==
  ASSUME NEW f \in Image, Sound(f), Last(f) # 0
  PROVE  /\ After(f) \in HeaderSize .. RingSize
         /\ ~Named(f, Last(f)) => After(f) = HeaderSize
<1>1. Last(f) \in EventStart
  BY DEF Sound
<1>2. CASE Named(f, Last(f))
  BY <1>1, <1>2, FieldedFits DEF Named, Fielded, After
<1>3. CASE ~Named(f, Last(f))
  BY <1>3, Sizes DEF After, RingSize
<1> QED
  BY <1>2, <1>3

\* The cells of the newest event up to where the next one goes.
LEMMA NewestCells ==
  ASSUME NEW f \in Image, Sound(f), NEW m \in Nat, Kept(m, f), Last(f) # 0,
         NEW i \in HeaderSize .. After(f) - 1
  PROVE  f[At(Last(f), i)].kind = "sample"
<1>1. Last(f) \in EventStart
  BY DEF Sound
<1>2. Named(f, Last(f))
  BY AfterIs, Sizes DEF RingSize
<1>3. Intact(f, Last(f), Hdr(f, Last(f)))
  BY <1>1, <1>2 DEF Kept, AtNext
<1>4. Hdr(f, Last(f)) \in Fields /\ TotalSize(Hdr(f, Last(f))) = After(f)
  BY <1>1, <1>2, FieldedFits DEF Named, Fielded, After
<1>5. i \in Nat /\ i >= HeaderSize /\ i < After(f)
  BY AfterIs, Sizes DEF RingSize
<1> QED
  BY <1>3, <1>4, <1>5, OnlySamples

\* The cells of the newest event, of one that is intact and not at its place: the
\* next header, of which the cells up to the j-th are not its sentinel, hits none
\* of its samples.
LEMMA HeaderMisses ==
  ASSUME NEW f \in Image, Sound(f), NEW m \in Nat, Kept(m, f), Last(f) # 0,
         NEW a \in EventStart, At(a, 0) = At(Last(f), After(f)),
         NEW x \in EventStart, Named(f, x), Intact(f, x, Hdr(f, x)),
         NEW j \in 0 .. 1, \A i \in 0 .. j : At(x, 0) # At(a, i),
         NEW c \in Nat, c >= HeaderSize, c < TotalSize(Hdr(f, x))
  PROVE  At(x, c) # At(a, j)
<1>1. PICK l \in EventStart : l = Last(f)
  BY DEF Sound
<1>2. PICK t \in HeaderSize .. RingSize :
        t = After(f) /\ (~Named(f, l) => t = HeaderSize)
  BY <1>1, AfterIs
<1>3. RingSize \in Nat /\ RingSize > 5 /\ HeaderSize = 2
  BY Sizes DEF RingSize
<1>4. /\ Hdr(f, x) \in Fields /\ HeaderFits(Hdr(f, x))
      /\ TotalSize(Hdr(f, x)) \in HeaderSize .. RingSize
      /\ Fielded(f, x)
  BY FieldedFits DEF Named, Fielded
<1>5. f[At(x, c)].kind = "sample"
  BY <1>4, OnlySamples
<1>6. Fielded(f, l)
  BY <1>1 DEF Kept, Newer
<1>7. At(a, j) = IF t + j <= RingSize THEN At(l, t + j) ELSE At(l, t + j - RingSize)
  BY <1>1, <1>2, <1>3, FurtherOn
<1>8. CASE t + j < RingSize
  <2>1. At(a, j) = At(l, t + j) /\ t + j \in t .. RingSize - 1 /\ t \in Nat
    BY <1>2, <1>3, <1>7, <1>8
  <2>2. CASE At(x, 0) = At(l, 0)
    <3>1. At(x, 1) = At(l, 1) /\ 1 \in 0 .. RingSize
      BY <1>1, <1>3, <2>2, SameCells
    <3>2. Named(f, l) /\ t = TotalSize(Hdr(f, x))
      BY <1>1, <1>2, <2>2, <3>1 DEF Named, After, Hdr
    <3>3. c \in 0 .. RingSize - 1 /\ c \in 0 .. RingSize /\ t + j \in 0 .. RingSize - 1 /\ c # t + j
      BY <1>2, <1>3, <2>1, <3>2
    <3>4. At(x, c) = At(l, c)
      BY <2>2, <3>3, SameCells
    <3> QED
      BY <2>1, <3>3, <3>4, AllApart
  <2>3. CASE At(x, 0) # At(l, 0)
    <3>1. \A i \in HeaderSize .. t - 1 : f[At(l, i)].kind = "sample"
      BY <1>1, <1>2, NewestCells
    <3>2. \A i \in t .. t + j : At(x, 0) # At(l, i)
      <4>1. ASSUME NEW i \in t .. t + j
            PROVE  At(x, 0) # At(l, i)
        <5>1. PICK d \in 0 .. j : i = t + d
          <6>1. i - t \in 0 .. j /\ i = t + (i - t)
            BY <1>2, <1>3
          <6> QED
            BY <6>1
        <5>2. d \in 0 .. RingSize /\ t + d <= RingSize
          BY <1>2, <1>3, <1>8, <5>1
        <5>3. At(a, d) = At(l, i)
          BY <1>1, <1>2, <1>3, <5>1, <5>2, FurtherOn
        <5> QED
          BY <5>1, <5>3
      <4> QED
        BY <4>1
    <3>3. t >= HeaderSize
      BY <1>2, <1>3
    <3> QED
      BY <1>4, <1>6, <2>1, <2>3, <3>1, <3>2, <3>3, NotHit
  <2> QED
    BY <2>2, <2>3
<1>9. CASE t + j >= RingSize
  <2>1. Named(f, l)
    BY <1>2, <1>3, <1>9
  <2>2. At(a, j) = At(l, 0) \/ At(a, j) = At(l, 1)
    <3>1. CASE t + j = RingSize
      BY <1>3, <1>7, <3>1, AtRound
    <3>2. CASE t + j # RingSize
      <4>1. t + j - RingSize = 1 /\ ~(t + j <= RingSize)
        BY <1>2, <1>3, <1>9, <3>2
      <4> QED
        BY <1>7, <4>1
    <3> QED
      BY <3>1, <3>2
  <2>3. Sentinel.kind # "sample"
    BY DEF Sentinel
  <2> QED
    BY <1>5, <2>1, <2>2, <2>3 DEF Named
<1> QED
  BY <1>2, <1>3, <1>8, <1>9

\* What is listed is kept while the header of a new event is written behind the
\* newest one, and from then on all of it is intact.
LEMMA NewHeaderKept ==
  ASSUME NEW f \in Image, NEW g \in Image, Sound(f), NEW m \in Nat, Kept(m, f),
         NEW a \in EventStart, NEW h \in Fields,
         h.samples = 0, h.sess > m, h.last = Last(f),
         NEW k \in 0 .. HeaderSize, Wrote(f, g, a, HeaderCells(h), k),
         Last(f) = 0 => Old(m, f),
         Last(f) # 0 => At(a, 0) = At(Last(f), After(f))
  PROVE  /\ Kept(m, g)
         /\ k = HeaderSize => AllIntact(m, g)
<1>1. /\ k \in {0, 1, 2} /\ HeaderSize = 2 /\ RingSize \in Nat /\ RingSize > 5
      /\ 0 \in 0 .. RingSize /\ 1 \in 0 .. RingSize /\ k \in 0 .. RingSize
      /\ 0 \in 0 .. RingSize - 1 /\ 1 \in 0 .. RingSize - 1
      /\ a \in DataStart .. StorageSize + HeaderSize
  BY Sizes DEF RingSize, EventStart
<1>2. PICK s \in Addr, p \in Addr : s = At(a, 0) /\ p = At(a, 1) /\ s # p
  <2>1. At(a, 0) # At(a, 1)
    BY <1>1, AllApart
  <2> QED
    BY <1>1, <2>1, Lands
<1>3. /\ \A y \in Addr : y # s /\ y # p => g[y] = f[y]
      /\ k < 2 => g[p] = f[p]
      /\ k = 0 => g[s] = f[s]
  <2>1. \A i \in 0 .. k - 1 : i = 0 \/ i = 1
    BY <1>1
  <2>2. k < 2 => \A i \in 0 .. k - 1 : i = 0
    BY <1>1
  <2>3. k = 0 => \A i \in 0 .. k - 1 : FALSE
    BY <1>1
  <2> QED
    BY <1>2, <2>1, <2>2, <2>3 DEF Wrote
<1>4. /\ k > 0 => g[s] = Sentinel
      /\ k = 2 => g[p] = FieldsCell(h)
  <2>1. k > 0 => 0 \in 0 .. k - 1
    BY <1>1
  <2>2. k = 2 => 1 \in 0 .. k - 1
    BY <1>1
  <2> QED
    BY <1>2, <2>1, <2>2, HeaderCellsAre DEF Wrote
<1>5. Last(g) = Last(f)
  BY <1>1, WroteBehind, Sizes DEF Last
<1>6. Sentinel.kind # "fields" /\ FieldsCell(h).kind = "fields" /\ FieldsCell(h).header = h
      /\ FieldsCell(h) # Sentinel
  BY DEF Sentinel, FieldsCell
<1>7. ASSUME NEW x \in EventStart, Fielded(g, x)
      PROVE  \/ Fielded(f, x) /\ Hdr(g, x) = Hdr(f, x)
             \/ k = 2 /\ At(x, 1) = p /\ Hdr(g, x) = h
  <2>1. At(x, 1) \in Addr
    BY <1>1, Lands
  <2>2. CASE At(x, 1) = p
    BY <1>1, <1>3, <1>4, <1>6, <1>7, <2>2 DEF Fielded, Hdr
  <2>3. CASE At(x, 1) = s
    BY <1>1, <1>3, <1>4, <1>6, <1>7, <2>3 DEF Fielded, Hdr
  <2>4. CASE At(x, 1) # p /\ At(x, 1) # s
    BY <1>3, <1>7, <2>1, <2>4 DEF Fielded, Hdr
  <2> QED
    BY <2>2, <2>3, <2>4
<1>8. \A x \in EventStart : Fielded(g, x) /\ (Fielded(f, x) => Newer(m, f, x)) => Newer(m, g, x)
  BY <1>7 DEF Newer
<1>9. ASSUME NEW x \in EventStart, Newer(m, g, x)
      PROVE  LinkKept(m, g, Hdr(g, x).last)
  <2>1. ASSUME NEW y \in EventStart, Fielded(g, y), LinkKept(m, f, y)
        PROVE  Newer(m, g, y)
    <3>1. y # 0
      BY Sizes DEF EventStart
    <3> QED
      BY <1>8, <2>1, <3>1 DEF LinkKept
  <2>2. CASE Fielded(f, x) /\ Hdr(g, x) = Hdr(f, x)
    <3>1. Newer(m, f, x)
      BY <1>9, <2>2 DEF Newer
    <3>2. LinkKept(m, f, Hdr(f, x).last) /\ Hdr(f, x).last \in {0} \cup EventStart
      BY <2>2, <3>1, FieldedFits DEF Kept
    <3> QED
      BY <2>1, <2>2, <3>2 DEF LinkKept
  <2>3. CASE Hdr(g, x) = h
    <3>1. Last(f) \in {0} \cup EventStart
      BY DEF Sound
    <3>2. Last(f) # 0 => LinkKept(m, f, Last(f))
      BY DEF Kept, LinkKept
    <3> QED
      BY <2>1, <2>3, <3>1, <3>2 DEF LinkKept
  <2> QED
    BY <1>7, <1>9, <2>2, <2>3 DEF Newer
<1>10. Last(g) # 0 => Newer(m, g, Last(g))
  <2>1. ASSUME Last(f) # 0
        PROVE  Newer(m, g, Last(f))
    <3>1. PICK l \in EventStart : l = Last(f)
      BY <2>1 DEF Sound
    <3>2. Newer(m, f, l)
      BY <2>1, <3>1 DEF Kept
    <3>3. At(l, 1) # s
      <4>1. PICK t \in HeaderSize .. RingSize : t = After(f)
        BY <2>1, AfterIs
      <4>2. s = At(l, t)
        BY <1>2, <2>1, <3>1, <4>1
      <4>3. CASE t = RingSize
        BY <1>1, <3>1, <4>2, <4>3, AtRound, AllApart
      <4>4. CASE t # RingSize
        <5>1. t \in 0 .. RingSize - 1 /\ t # 1
          BY <1>1, <4>1, <4>4
        <5> QED
          BY <1>1, <3>1, <4>2, <5>1, AllApart
      <4> QED
        BY <4>3, <4>4
    <3>4. Fielded(g, l)
      <4>1. At(l, 1) \in Addr
        BY <1>1, <3>1, Lands
      <4> QED
        BY <1>1, <1>3, <1>4, <1>6, <3>2, <3>3, <4>1 DEF Fielded, Newer
    <3> QED
      BY <1>8, <3>1, <3>2, <3>4
  <2> QED
    BY <1>5, <2>1
<1>11. ASSUME NEW x \in EventStart, Named(g, x), Newer(m, g, x)
       PROVE  Intact(g, x, Hdr(g, x)) \/ (k # 2 /\ AtNext(g, x))
  <2>1. CASE Hdr(g, x) = h
    BY <1>1, <2>1 DEF Intact
  <2>2. CASE Hdr(g, x) # h
    <3>1. Fielded(f, x) /\ Hdr(g, x) = Hdr(f, x) /\ Newer(m, f, x)
      BY <1>7, <1>11, <2>2 DEF Newer
    <3>2. /\ Last(f) # 0
          /\ At(a, 0) = At(Last(f), After(f))
      <4>1. Hdr(f, x).sess \in Nat /\ Hdr(f, x).sess > m
        BY <3>1, FieldedFits DEF Newer, Fields
      <4> QED
        BY <3>1, <4>1 DEF Old
    <3>3. PICK l \in EventStart : l = Last(f)
      BY <3>2 DEF Sound
    <3>4. PICK t \in HeaderSize .. RingSize :
            t = After(f) /\ (~Named(f, l) => t = HeaderSize)
      BY <3>2, <3>3, AfterIs
    <3>5. CASE At(x, 0) = s
      <4>1. At(x, 1) = p
        BY <1>1, <1>2, <3>5, SameCells
      <4>2. k # 2
        BY <1>1, <1>4, <1>6, <2>2, <4>1 DEF Hdr
      <4>3. CASE k = 0 \/ t = RingSize
        <5>1. g[s] = f[s]
          <6>1. CASE k = 0
            BY <1>3, <6>1
          <6>2. CASE t = RingSize
            <7>1. Named(f, l) /\ s = At(l, 0)
              BY <1>1, <1>2, <3>2, <3>3, <3>4, <6>2, AtRound
            <7> QED
              BY <1>1, <1>3, <1>4, <7>1 DEF Named
          <6> QED
            BY <4>3, <6>1, <6>2
        <5>2. \A y \in Addr : g[y] = f[y]
          BY <1>1, <1>3, <4>2, <5>1
        <5>3. g = f
          BY <5>2 DEF Image
        <5> QED
          BY <1>11, <4>2, <5>3 DEF Kept
      <4>4. CASE k = 1 /\ t < RingSize
        <5>1. t \in 0 .. RingSize - 1 /\ t # 0 /\ t # 1
          BY <1>1, <3>4, <4>4
        <5>2. s = At(l, t) /\ s # At(l, 0) /\ s # At(l, 1)
          BY <1>1, <1>2, <3>2, <3>3, <3>4, <5>1, AllApart
        <5>3. At(l, 0) \in Addr /\ At(l, 1) \in Addr
          BY <1>1, Lands
        <5>4. g[At(l, 0)] = f[At(l, 0)] /\ g[At(l, 1)] = f[At(l, 1)]
          BY <1>1, <1>3, <4>4, <5>2, <5>3
        <5>5. After(g) = t
          BY <1>5, <3>3, <3>4, <5>4 DEF After, Named, Hdr
        <5> QED
          BY <1>5, <3>2, <3>3, <3>5, <4>2, <5>2, <5>5 DEF AtNext
      <4> QED
        BY <1>1, <3>4, <4>2, <4>3, <4>4
    <3>6. CASE At(x, 0) # s
      <4>1. At(x, 1) # p
        BY <1>2, <3>6, SameSentinel
      <4>2. k = 2 => At(x, 0) # p
        BY <1>4, <1>6, <1>11 DEF Named
      <4>3. Named(f, x)
        <5>1. At(x, 0) \in Addr
          BY <1>1, Lands
        <5>2. g[At(x, 0)] = f[At(x, 0)]
          BY <1>1, <1>3, <3>6, <4>2, <5>1
        <5> QED
          BY <1>11, <3>1, <5>2 DEF Named, Fielded
      <4>4. Intact(f, x, Hdr(f, x))
        BY <1>2, <3>1, <3>2, <3>6, <4>3 DEF Kept, AtNext
      <4>5. ASSUME NEW c \in Nat, c >= HeaderSize, c < TotalSize(Hdr(f, x))
            PROVE  g[At(x, c)] = f[At(x, c)]
        <5>1. k > 0 => At(x, c) # s
          <6>1. \A i \in 0 .. 0 : At(x, 0) # At(a, i)
            BY <1>2, <3>6
          <6> QED
            BY <1>2, <3>2, <4>3, <4>4, <4>5, <6>1, HeaderMisses
        <5>2. k = 2 => At(x, c) # p
          <6>1. k = 2 => \A i \in 0 .. 1 : At(x, 0) # At(a, i)
            <7>1. \A i \in 0 .. 1 : i = 0 \/ i = 1
              OBVIOUS
            <7> QED
              BY <1>2, <3>6, <4>2, <7>1
          <6> QED
            BY <1>2, <3>2, <4>3, <4>4, <4>5, <6>1, HeaderMisses
        <5>3. At(x, c) \in Addr
          <6>1. TotalSize(Hdr(f, x)) \in HeaderSize .. RingSize
            BY <3>1, FieldedFits
          <6>2. c \in 0 .. RingSize
            BY <1>1, <4>5, <6>1
          <6> QED
            BY <6>2, Lands
        <5> QED
          BY <1>1, <1>3, <5>1, <5>2, <5>3
      <4>6. Hdr(f, x) \in Fields
        BY <3>1, FieldedFits
      <4> QED
        BY <3>1, <4>4, <4>5, <4>6, IntactCarries
    <3> QED
      BY <3>5, <3>6
  <2> QED
    BY <2>1, <2>2
<1> QED
  BY <1>1, <1>9, <1>10, <1>11 DEF Kept, AllIntact

\* What is listed is kept while a sample of the open event is written, the samples
\* of the event with it.
LEMMA SampleKept ==
  ASSUME NEW f \in Image, NEW g \in Image, Sound(f), NEW m \in Nat, Kept(m, f),
         Open(f), Last(f) = ev.start, ev.header \in Fields,
         ev.current \in DataStart .. StorageSize + HeaderSize,
         TotalSize(ev.header) + SampleSize <= RingSize,
         Intact(f, ev.start, ev.header),
         NEW k \in 0 .. SampleSize,
         Wrote(f, g, ev.current, SampleCells(ev.header.sess, ev.header.samples), k)
  PROVE  /\ Kept(m, g) /\ Intact(g, ev.start, ev.header)
         /\ k = SampleSize => Intact(g, ev.start, [ev.header EXCEPT !.samples = @ + 1])
<1>1. PICK e \in EventStart, T \in Nat, n \in Nat, s \in Nat :
        /\ e = ev.start /\ T = TotalSize(ev.header)
        /\ n = ev.header.samples /\ s = ev.header.sess
  BY TotalIs DEF Open, Fields
<1>2. /\ T >= HeaderSize /\ T + SampleSize <= RingSize /\ RingSize \in Nat /\ RingSize > 5
      /\ SampleSize \in Nat /\ SampleSize > 0 /\ HeaderSize = 2
      /\ 0 \in 0 .. RingSize /\ 1 \in 0 .. RingSize
      /\ e \in DataStart .. StorageSize + HeaderSize
  <2>1. T >= HeaderSize /\ T + SampleSize <= RingSize
    BY <1>1, TotalIs
  <2>2. RingSize \in Nat /\ RingSize > 5
    BY Sizes DEF RingSize
  <2>3. e \in DataStart .. StorageSize + HeaderSize
    BY Sizes DEF EventStart
  <2> QED
    BY <2>1, <2>2, <2>3, Sizes
<1>3. /\ Last(g) = e /\ OwnHeader(f) /\ OwnHeader(g)
      /\ \A i \in 0 .. T - 1 : g[At(e, i)] = f[At(e, i)]
  <2>1. OwnHeader(f)
    BY DEF Open
  <2>2. Wrote(f, g, ev.current, SampleCells(s, n), k)
    BY <1>1
  <2>3. /\ Last(g) = Last(f) /\ OwnHeader(g)
        /\ \A i \in 0 .. TotalSize(ev.header) - 1 : g[At(ev.start, i)] = f[At(ev.start, i)]
    BY <2>1, <2>2, SampleWrote
  <2> QED
    BY <1>1, <2>1, <2>3
<1>4. /\ \A y \in Addr : (\A j \in 0 .. k - 1 : At(e, T + j) # y) => g[y] = f[y]
      /\ \A j \in 0 .. k - 1 : g[At(e, T + j)] = SampleCell(s, n, j + 1)
  <2>1. ASSUME NEW j \in 0 .. k - 1
        PROVE  At(ev.current, j) = At(e, T + j)
    <3>1. j \in 0 .. RingSize /\ T \in 0 .. RingSize /\ T + j <= RingSize
      BY <1>2
    <3>2. At(ev.current, 0) = At(e, T)
      BY <1>1 DEF Open
    <3> QED
      BY <1>2, <3>1, <3>2, AtFurther
  <2>2. ASSUME NEW j \in 0 .. k - 1
        PROVE  SampleCells(s, n)[j + 1] = SampleCell(s, n, j + 1)
    <3>1. j + 1 \in 1 .. SampleSize
      BY <1>2
    <3> QED
      BY <3>1, SampleCellsAre
  <2> QED
    BY <1>1, <2>1, <2>2 DEF Wrote
<1>5. \A j \in 0 .. k - 1 : g[At(e, T + j)].kind = "sample" /\ T + j \in T .. RingSize - 1
  <2>1. ASSUME NEW j \in 0 .. k - 1
        PROVE  T + j \in T .. RingSize - 1
    <3>1. j \in Nat /\ j < SampleSize
      BY <1>2
    <3> QED
      BY <1>2, <3>1
  <2>2. \A i : SampleCell(s, n, i).kind = "sample"
    BY DEF SampleCell
  <2> QED
    BY <1>4, <2>1, <2>2
<1>6. ASSUME NEW y \in Addr, g[y].kind # "sample"
      PROVE  g[y] = f[y]
  BY <1>4, <1>5, <1>6
<1>7. ASSUME NEW x \in EventStart, Fielded(g, x)
      PROVE  Fielded(f, x) /\ Hdr(g, x) = Hdr(f, x)
  BY <1>2, <1>6, <1>7, Lands DEF Fielded, Hdr
<1>8. ASSUME NEW x \in EventStart, Newer(m, g, x)
      PROVE  LinkKept(m, g, Hdr(g, x).last)
  <2>1. /\ Newer(m, f, x) /\ Hdr(g, x) = Hdr(f, x)
        /\ Hdr(f, x).last \in {0} \cup EventStart
    BY <1>7, <1>8, FieldedFits DEF Newer
  <2>2. LinkKept(m, f, Hdr(f, x).last)
    BY <2>1 DEF Kept
  <2> QED
    BY <1>7, <2>1, <2>2 DEF LinkKept, Newer
<1>9. /\ Named(f, e) /\ Hdr(f, e).samples = 0
      /\ Named(g, e) /\ Hdr(g, e) = Hdr(f, e)
  <2>1. [ev.header EXCEPT !.samples = 0, !.inProgress = TRUE].samples = 0
    BY DEF Fields
  <2>2. PICK h : /\ h.samples = 0
                 /\ f[At(e, 0)] = Sentinel /\ f[At(e, 1)] = FieldsCell(h)
                 /\ g[At(e, 0)] = Sentinel /\ g[At(e, 1)] = FieldsCell(h)
    BY <1>1, <1>3, <2>1 DEF OwnHeader
  <2> QED
    BY <2>2 DEF Named, FieldsCell, Hdr
<1>10. Newer(m, g, e)
  <2>1. e # 0
    BY Sizes DEF EventStart
  <2>2. Newer(m, f, e)
    BY <1>1, <2>1 DEF Kept
  <2> QED
    BY <1>9, <2>2 DEF Newer, Named, Fielded
<1>11. ASSUME NEW x \in EventStart, Named(g, x), Newer(m, g, x)
       PROVE  Intact(g, x, Hdr(g, x)) \/ AtNext(g, x)
  <2>1. Newer(m, f, x) /\ Hdr(g, x) = Hdr(f, x)
    BY <1>7, <1>11 DEF Newer
  <2>2. Named(f, x)
    <3>1. g[At(x, 0)] = f[At(x, 0)]
      BY <1>2, <1>6, <1>11, Lands DEF Named, Sentinel
    <3> QED
      BY <1>11, <2>1, <3>1 DEF Named, Newer, Fielded
  <2>3. CASE AtNext(f, x)
    <3>1. After(g) = After(f)
      BY <1>1, <1>3, <1>9 DEF After
    <3> QED
      BY <1>1, <1>3, <2>3, <3>1 DEF AtNext
  <2>4. CASE At(x, 0) = At(e, 0)
    <3>1. At(x, 1) = At(e, 1)
      BY <1>2, <2>4, SameCells
    <3>2. Hdr(g, x).samples = 0
      BY <1>9, <3>1 DEF Hdr
    <3> QED
      BY <3>2 DEF Intact
  <2>5. CASE ~AtNext(f, x) /\ At(x, 0) # At(e, 0)
    <3>1. /\ Intact(f, x, Hdr(f, x)) /\ Hdr(f, x) \in Fields /\ HeaderFits(Hdr(f, x))
          /\ TotalSize(Hdr(f, x)) \in HeaderSize .. RingSize
      BY <2>1, <2>2, <2>5, FieldedFits DEF Kept, Newer
    <3>2. \A i \in HeaderSize .. T - 1 : f[At(e, i)].kind = "sample"
      <4>1. ASSUME NEW i \in HeaderSize .. T - 1
            PROVE  f[At(e, i)].kind = "sample"
        <5>1. i \in Nat /\ i >= HeaderSize /\ i < TotalSize(ev.header)
          BY <1>1, <1>2
        <5> QED
          BY <1>1, <5>1, OnlySamples
      <4> QED
        BY <4>1
    <3>3. ASSUME NEW c \in Nat, c >= HeaderSize, c < TotalSize(Hdr(f, x)),
                 NEW j \in 0 .. k - 1
          PROVE  At(e, T + j) # At(x, c)
      <4>1. \A i \in T .. T + j : At(x, 0) # At(e, i)
        <5>1. ASSUME NEW i \in T .. T + j
              PROVE  At(x, 0) # At(e, i)
          <6>1. i - T \in 0 .. k - 1 /\ T + (i - T) = i
            BY <1>1, <1>2
          <6>2. g[At(e, i)].kind = "sample"
            BY <1>5, <6>1
          <6> QED
            BY <1>11, <6>2 DEF Named, Sentinel
        <5> QED
          BY <5>1
      <4>2. T + j \in T .. RingSize - 1
        BY <1>5
      <4>3. Fielded(f, e)
        BY <1>9 DEF Named, Fielded
      <4>4. At(x, c) # At(e, T + j)
        BY <1>2, <2>2, <2>5, <3>1, <3>2, <3>3, <4>1, <4>2, <4>3, NotHit
      <4> QED
        BY <4>4
    <3>4. ASSUME NEW c \in Nat, c >= HeaderSize, c < TotalSize(Hdr(f, x))
          PROVE  g[At(x, c)] = f[At(x, c)]
      <4>1. c \in 0 .. RingSize
        BY <1>2, <3>1, <3>4
      <4>2. At(x, c) \in Addr
        BY <4>1, Lands
      <4> QED
        BY <1>4, <3>3, <3>4, <4>2
    <3> QED
      BY <2>1, <3>1, <3>4, IntactCarries
  <2> QED
    BY <2>3, <2>4, <2>5
<1>12. Kept(m, g)
  BY <1>3, <1>8, <1>10, <1>11 DEF Kept
<1>13. Intact(g, e, ev.header)
  <2>1. ASSUME NEW c \in Nat, c >= HeaderSize, c < TotalSize(ev.header)
        PROVE  g[At(e, c)] = f[At(e, c)]
    <3>1. c \in 0 .. T - 1
      BY <1>1, <2>1
    <3> QED
      BY <1>3, <3>1
  <2> QED
    BY <1>1, <2>1, IntactCarries
<1>14. ASSUME k = SampleSize
       PROVE  Intact(g, e, [ev.header EXCEPT !.samples = @ + 1])
  <2>1. /\ [ev.header EXCEPT !.samples = @ + 1].samples = n + 1
        /\ [ev.header EXCEPT !.samples = @ + 1].sess = s
    BY <1>1 DEF Fields
  <2>2. ASSUME NEW j \in 0 .. n, NEW i \in 1 .. SampleSize
        PROVE  g[At(e, HeaderSize + j * SampleSize + i - 1)] = SampleCell(s, j, i)
    <3>1. CASE j < n
      <4>1. j \in 0 .. n - 1
        BY <3>1
      <4> QED
        BY <1>1, <1>13, <4>1 DEF Intact
    <3>2. CASE j = n
      <4>1. PICK p \in Nat : p = n * SampleSize
        BY <1>2
      <4>2. T = p + HeaderSize
        BY <1>1, <4>1 DEF TotalSize
      <4>3. i - 1 \in 0 .. k - 1 /\ HeaderSize + p + i - 1 = T + (i - 1) /\ (i - 1) + 1 = i
        BY <1>2, <1>14, <4>2
      <4> QED
        BY <1>4, <3>2, <4>1, <4>3
    <3> QED
      BY <3>1, <3>2
  <2> QED
    BY <1>1, <2>1, <2>2 DEF Intact
<1> QED
  BY <1>1, <1>12, <1>13, <1>14

\* What is listed is kept while the final header of the newest event replaces its
\* first one.
LEMMA EndHeaderKept ==
  ASSUME NEW f \in Image, NEW g \in Image, Sound(f), NEW m \in Nat, Kept(m, f),
         NEW e \in EventStart, Last(f) = e, Named(f, e), Hdr(f, e).samples = 0,
         NEW h \in Fields, HeaderFits(h),
         h.sess = Hdr(f, e).sess, h.last = Hdr(f, e).last, Intact(f, e, h),
         NEW k \in 0 .. HeaderSize, Wrote(f, g, e, HeaderCells(h), k)
  PROVE  /\ Kept(m, g) /\ Last(g) = e
         /\ k = HeaderSize => Named(g, e) /\ Hdr(g, e) = h /\ Intact(g, e, h)
<1>1. /\ k \in {0, 1, 2} /\ HeaderSize = 2 /\ RingSize \in Nat /\ RingSize > 5
      /\ 0 \in 0 .. RingSize /\ 1 \in 0 .. RingSize /\ k \in 0 .. RingSize
      /\ 0 \in 0 .. RingSize - 1 /\ 1 \in 0 .. RingSize - 1
      /\ e \in DataStart .. StorageSize + HeaderSize
  BY Sizes DEF RingSize, EventStart
<1>2. PICK s \in Addr, p \in Addr : s = At(e, 0) /\ p = At(e, 1) /\ s # p
  <2>1. At(e, 0) # At(e, 1)
    BY <1>1, AllApart
  <2> QED
    BY <1>1, <2>1, Lands
<1>3. \A y \in Addr : y # p => g[y] = f[y]
  <2>1. \A i \in 0 .. k - 1 : i = 0 \/ i = 1
    BY <1>1
  <2>2. \A y \in Addr : y # s /\ y # p => g[y] = f[y]
    BY <1>2, <2>1 DEF Wrote
  <2>3. k = 0 => \A i \in 0 .. k - 1 : FALSE
    BY <1>1
  <2>4. k > 0 => 0 \in 0 .. k - 1
    BY <1>1
  <2>5. k > 0 => g[s] = HeaderCells(h)[1]
    BY <1>2, <2>4 DEF Wrote
  <2>6. g[s] = f[s]
    BY <1>1, <1>2, <2>3, <2>5, HeaderCellsAre DEF Wrote, Named
  <2> QED
    BY <2>2, <2>6
<1>4. /\ k < 2 => g[p] = f[p]
      /\ k = 2 => g[p] = FieldsCell(h)
  <2>1. k = 2 => 1 \in 0 .. k - 1
    BY <1>1
  <2>2. k < 2 => \A i \in 0 .. k - 1 : i = 0
    BY <1>1
  <2> QED
    BY <1>1, <1>2, <2>1, <2>2, HeaderCellsAre DEF Wrote
<1>5. Last(g) = e
  BY <1>1, WroteBehind, Sizes DEF Last
<1>6. CASE k < 2
  <2>1. \A y \in Addr : g[y] = f[y]
    BY <1>3, <1>4, <1>6
  <2>2. g = f
    BY <2>1 DEF Image
  <2> QED
    BY <1>1, <1>5, <1>6, <2>2
<1>7. CASE k = 2
  <2>1. g[p] = FieldsCell(h) /\ g[p].kind = "fields" /\ g[p].header = h /\ g[p] # Sentinel
    BY <1>4, <1>7 DEF FieldsCell, Sentinel
  <2>2. ASSUME NEW x \in EventStart, Fielded(g, x)
        PROVE  /\ Fielded(f, x)
               /\ Hdr(g, x).sess = Hdr(f, x).sess /\ Hdr(g, x).last = Hdr(f, x).last
               /\ At(x, 1) = p => Hdr(g, x) = h
               /\ At(x, 1) # p => Hdr(g, x) = Hdr(f, x)
    <3>1. At(x, 1) \in Addr
      BY <1>1, Lands
    <3>2. CASE At(x, 1) = p
      BY <1>2, <2>1, <3>2 DEF Fielded, Hdr, Named
    <3>3. CASE At(x, 1) # p
      BY <1>3, <2>2, <3>1, <3>3 DEF Fielded, Hdr
    <3> QED
      BY <3>2, <3>3
  <2>3. Named(g, e) /\ Hdr(g, e) = h
    BY <1>2, <1>3, <2>1 DEF Named, Hdr
  <2>4. Intact(g, e, h)
    <3>1. ASSUME NEW c \in Nat, c >= HeaderSize, c < TotalSize(h)
          PROVE  g[At(e, c)] = f[At(e, c)]
      <4>1. PICK t \in Nat : t = TotalSize(h)
        BY TotalIs
      <4>2. c \in 0 .. RingSize - 1 /\ c \in 0 .. RingSize /\ c # 1
        BY <1>1, <3>1, <4>1, Sizes DEF HeaderFits, RingSize
      <4>3. At(e, c) \in Addr
        BY <4>2, Lands
      <4>4. At(e, c) # p
        BY <1>1, <1>2, <4>2, AllApart
      <4> QED
        BY <1>3, <4>3, <4>4
    <3> QED
      BY <3>1, IntactCarries
  <2>5. ASSUME NEW x \in EventStart, Newer(m, g, x)
        PROVE  LinkKept(m, g, Hdr(g, x).last)
    <3>1. /\ Newer(m, f, x) /\ Hdr(g, x).last = Hdr(f, x).last
          /\ Hdr(f, x).last \in {0} \cup EventStart
      BY <2>2, <2>5, FieldedFits DEF Newer
    <3>2. LinkKept(m, f, Hdr(f, x).last)
      BY <3>1 DEF Kept
    <3> QED
      BY <2>2, <3>1, <3>2 DEF LinkKept, Newer
  <2>6. Newer(m, g, e)
    <3>1. e # 0
      BY Sizes DEF EventStart
    <3>2. Newer(m, f, e)
      BY <3>1 DEF Kept
    <3> QED
      BY <2>2, <2>3, <3>2 DEF Newer, Named, Fielded
  <2>7. ASSUME NEW x \in EventStart, Named(g, x), Newer(m, g, x)
        PROVE  Intact(g, x, Hdr(g, x)) \/ AtNext(g, x)
    <3>1. Newer(m, f, x)
      BY <2>2, <2>7 DEF Newer
    <3>2. Named(f, x)
      <4>1. At(x, 0) \in Addr /\ At(x, 0) # p
        BY <1>1, <2>1, <2>7, Lands DEF Named
      <4> QED
        BY <1>3, <2>7, <3>1, <4>1 DEF Named, Newer, Fielded
    <3>3. CASE At(x, 0) = At(e, 0)
      <4>1. At(x, 1) = p
        BY <1>1, <1>2, <3>3, SameCells
      <4>2. Hdr(g, x) = h
        BY <2>1, <4>1 DEF Hdr
      <4>3. ASSUME NEW n \in 0 .. h.samples - 1, NEW i \in 1 .. SampleSize
            PROVE  g[At(x, HeaderSize + n * SampleSize + i - 1)] = SampleCell(h.sess, n, i)
        <5>1. PICK c \in Nat : c = HeaderSize + n * SampleSize + i - 1 /\ c < TotalSize(h)
          <6>1. h.samples \in Nat
            BY DEF Fields
          <6> QED
            BY <6>1, SampleInEvent
        <5>2. PICK t \in Nat : t = TotalSize(h)
          BY TotalIs
        <5>3. c \in 0 .. RingSize
          BY <1>1, <5>1, <5>2, Sizes DEF HeaderFits, RingSize
        <5>4. At(x, c) = At(e, c)
          BY <3>3, <5>3, SameCells
        <5> QED
          BY <2>4, <5>1, <5>4 DEF Intact
      <4> QED
        BY <4>2, <4>3 DEF Intact
    <3>4. CASE At(x, 0) # At(e, 0)
      <4>1. At(x, 1) # p
        BY <1>2, <3>4, SameSentinel
      <4>2. Hdr(g, x) = Hdr(f, x) /\ Hdr(f, x) \in Fields /\ TotalSize(Hdr(f, x)) \in HeaderSize .. RingSize
        BY <2>2, <2>7, <3>1, <4>1, FieldedFits DEF Newer
      <4>3. CASE AtNext(f, x)
        <5>1. Hdr(f, e) \in Fields
          BY FieldedFits DEF Named, Fielded
        <5>2. At(x, 0) = At(e, HeaderSize)
          BY <4>3, <5>1, TotalIs DEF AtNext, After
        <5>3. h.samples = 0
          <6>1. ASSUME h.samples # 0
                PROVE  FALSE
            <7>1. HeaderSize < TotalSize(h)
              <8>1. 0 \in 0 .. h.samples - 1 /\ 1 \in 1 .. SampleSize /\ h.samples \in Nat
                BY <6>1, Sizes DEF Fields
              <8>2. HeaderSize + 0 * SampleSize + 1 - 1 < TotalSize(h)
                BY <8>1, SampleInEvent
              <8> QED
                BY <1>1, <8>2, Sizes
            <7>2. f[At(e, HeaderSize)].kind = "sample"
              BY <1>1, <7>1, OnlySamples
            <7> QED
              BY <3>2, <5>2, <7>2 DEF Named, Sentinel
          <6> QED
            BY <6>1
        <5>4. After(g) = HeaderSize
          BY <1>5, <2>3, <5>3, TotalIs DEF After
        <5> QED
          BY <1>5, <3>4, <4>3, <5>2, <5>4 DEF AtNext
      <4>4. CASE ~AtNext(f, x)
        <5>1. Intact(f, x, Hdr(f, x))
          BY <3>1, <3>2, <4>4 DEF Kept
        <5>2. ASSUME NEW c \in Nat, c >= HeaderSize, c < TotalSize(Hdr(f, x))
              PROVE  g[At(x, c)] = f[At(x, c)]
          <6>1. c \in 0 .. RingSize
            BY <1>1, <4>2, <5>2
          <6>2. f[At(x, c)].kind = "sample"
            BY <4>2, <5>1, <5>2, OnlySamples
          <6>3. At(x, c) # p
            BY <1>2, <6>2 DEF Named
          <6> QED
            BY <1>3, <6>1, <6>3, Lands
        <5> QED
          BY <4>2, <5>1, <5>2, IntactCarries
      <4> QED
        BY <4>3, <4>4
    <3> QED
      BY <3>3, <3>4
  <2> QED
    BY <1>5, <2>3, <2>4, <2>5, <2>6, <2>7 DEF Kept
<1> QED
  BY <1>1, <1>6, <1>7

\* The fields that were written are the only new ones.
LEMMA WroteOld ==
  ASSUME NEW f, NEW g, NEW a, NEW cells, NEW k \in Nat, Wrote(f, g, a, cells, k),
         NEW m, Old(m, f),
         \A i \in 1 .. k : cells[i].kind = "fields" => cells[i].header.sess <= m
  PROVE  Old(m, g)
<1> SUFFICES ASSUME NEW x \in EventStart, Fielded(g, x)
             PROVE  Hdr(g, x).sess <= m
  BY DEF Old
<1>1. CASE \A i \in 0 .. k - 1 : At(a, i) # At(x, 1)
  <2>1. At(x, 1) \in Addr
    BY Lands, Sizes DEF RingSize
  <2>2. g[At(x, 1)] = f[At(x, 1)]
    BY <1>1, <2>1 DEF Wrote
  <2> QED
    BY <2>2 DEF Old, Fielded, Hdr
<1>2. CASE \E i \in 0 .. k - 1 : At(a, i) = At(x, 1)
  <2>1. PICK i \in 0 .. k - 1 : At(a, i) = At(x, 1)
    BY <1>2
  <2>2. g[At(x, 1)] = cells[i + 1] /\ i + 1 \in 1 .. k
    BY <2>1 DEF Wrote
  <2> QED
    BY <2>2 DEF Fielded, Hdr
<1> QED
  BY <1>1, <1>2

\* A header, as written.
LEMMA HeaderCellsOld ==
  ASSUME NEW h \in Fields, NEW m \in Nat, h.sess <= m, NEW k \in 0 .. HeaderSize,
         NEW i \in 1 .. k, HeaderCells(h)[i].kind = "fields"
  PROVE  HeaderCells(h)[i].header.sess <= m
<1>1. i = 1 \/ i = 2
  BY Sizes
<1>2. Sentinel.kind # "fields" /\ FieldsCell(h).header = h
  BY DEF Sentinel, FieldsCell
<1> QED
  BY <1>1, <1>2, HeaderCellsAre

\* With no event to list, everything is old.
LEMMA OldKept ==
  ASSUME NEW f \in Image, Sound(f), NEW m \in Nat, Old(m, f), Last(f) = 0
  PROVE  Kept(m, f)
<1>1. ASSUME NEW x \in EventStart, Newer(m, f, x)
      PROVE  FALSE
  <2>1. Hdr(f, x).sess \in Nat
    BY <1>1, FieldedFits DEF Newer, Fields
  <2> QED
    BY <1>1, <2>1 DEF Newer, Old
<1> QED
  BY <1>1 DEF Kept

\* Writing below the ring changes nothing on it.
LEMMA SameRing ==
  ASSUME NEW f, NEW g, \A y \in DataStart .. StorageSize - 1 : g[y] = f[y],
         NEW a \in EventStart
  PROVE  /\ Fielded(g, a) <=> Fielded(f, a)
         /\ Named(g, a) <=> Named(f, a)
         /\ Hdr(g, a) = Hdr(f, a)
         /\ \A m : Newer(m, g, a) <=> Newer(m, f, a)
         /\ \A h \in Fields : TotalSize(h) <= RingSize =>
                                (Intact(g, a, h) <=> Intact(f, a, h))
<1>1. \A i \in 0 .. RingSize : g[At(a, i)] = f[At(a, i)]
  BY Lands
<1>2. /\ RingSize \in Nat /\ HeaderSize = 2 /\ 0 \in 0 .. RingSize /\ 1 \in 0 .. RingSize
  BY Sizes DEF RingSize
<1>3. ASSUME NEW h \in Fields, TotalSize(h) <= RingSize
      PROVE  \A c \in Nat : c >= HeaderSize /\ c < TotalSize(h) => g[At(a, c)] = f[At(a, c)]
  <2>1. PICK t \in Nat : t = TotalSize(h)
    BY TotalIs
  <2> QED
    BY <1>1, <1>2, <1>3, <2>1
<1>4. ASSUME NEW h \in Fields, TotalSize(h) <= RingSize
      PROVE  Intact(g, a, h) <=> Intact(f, a, h)
  <2>1. Intact(f, a, h) => Intact(g, a, h)
    BY <1>3, <1>4, IntactCarries
  <2>2. Intact(g, a, h) => Intact(f, a, h)
    BY <1>3, <1>4, IntactCarries
  <2> QED
    BY <2>1, <2>2
<1> QED
  BY <1>1, <1>2, <1>4 DEF Fielded, Named, Hdr, Newer

\* So it changes nothing that is listed, unless it moves the pointer: to none, or
\* to an event, when all of them are intact.
LEMMA RingKept ==
  ASSUME NEW f \in Image, NEW g \in Image, Sound(f), Sound(g),
         \A y \in DataStart .. StorageSize - 1 : g[y] = f[y], NEW m \in Nat
  PROVE  /\ Old(m, f) => Old(m, g)
         /\ Kept(m, f) /\ Last(g) = Last(f) => Kept(m, g)
         /\ Kept(m, f) /\ AllIntact(m, f) /\ Newer(m, f, Last(g)) /\ Last(g) # 0
              => Kept(m, g)
<1>1. Old(m, f) => Old(m, g)
  BY SameRing DEF Old
<1>2. ASSUME Kept(m, f), NEW x \in EventStart, Newer(m, g, x)
      PROVE  LinkKept(m, g, Hdr(g, x).last)
  <2>1. /\ Newer(m, f, x) /\ Hdr(g, x).last = Hdr(f, x).last
        /\ Hdr(f, x).last \in {0} \cup EventStart
    BY <1>2, SameRing, FieldedFits DEF Newer
  <2>2. LinkKept(m, f, Hdr(f, x).last)
    BY <1>2, <2>1 DEF Kept
  <2> QED
    BY <2>1, <2>2, SameRing DEF LinkKept
<1>3. ASSUME NEW x \in EventStart, Named(g, x), Newer(m, g, x)
      PROVE  /\ Named(f, x) /\ Newer(m, f, x) /\ Hdr(g, x) = Hdr(f, x)
             /\ Intact(f, x, Hdr(f, x)) => Intact(g, x, Hdr(g, x))
  <2>1. Named(f, x) /\ Newer(m, f, x) /\ Hdr(g, x) = Hdr(f, x)
    BY <1>3, SameRing
  <2>2. Hdr(f, x) \in Fields /\ TotalSize(Hdr(f, x)) <= RingSize
    BY <2>1, FieldedFits DEF Newer, HeaderFits
  <2> QED
    BY <2>1, <2>2, SameRing
<1>4. ASSUME Kept(m, f), Last(g) = Last(f)
      PROVE  Kept(m, g)
  <2>1. Last(f) # 0 => Last(f) \in EventStart
    BY DEF Sound
  <2>2. Last(g) # 0 => Newer(m, g, Last(g))
    BY <1>4, <2>1, SameRing DEF Kept
  <2>3. ASSUME NEW x \in EventStart, AtNext(f, x)
        PROVE  AtNext(g, x)
    <3>1. After(g) = After(f)
      BY <1>4, <2>1, <2>3, SameRing DEF After, AtNext
    <3> QED
      BY <1>4, <2>3, <3>1 DEF AtNext
  <2> QED
    BY <1>2, <1>3, <1>4, <2>2, <2>3 DEF Kept
<1>5. ASSUME Kept(m, f), AllIntact(m, f), Newer(m, f, Last(g)), Last(g) # 0
      PROVE  Kept(m, g)
  <2>1. Newer(m, g, Last(g))
    BY <1>5, SameRing DEF Sound
  <2> QED
    BY <1>2, <1>3, <1>5, <2>1 DEF Kept, AllIntact
<1> QED
  BY <1>1, <1>4, <1>5

-----------------------------------------------------------------------------
(* What is listed, during a transfer                                       *)

OpenIntact(f) == ev.header.inProgress => Intact(f, ev.start, ev.header)

\* The header of a new event is written behind the newest one.
Begun ==
  /\ ev.header.sess = sess /\ Old(sess - 1, before) /\ ev.header.last = Last(before)
  /\ Last(before) # 0 => At(ev.start, 0) = At(Last(before), After(before))
  /\ \E m \in 0 .. sess - 1 : Kept(m, before)

\* The pointer to it is written, when nothing that is listed is cut.
Linking ==
  /\ ev.header.sess = sess /\ Old(sess, before)
  /\ \E m \in 0 .. sess - 1 : Kept(m, before) /\ AllIntact(m, before)

\* The final header of an event is written, or the zeroes that stand for one.
Ending ==
  /\ Listed(before)
  /\ ev.start # 0 =>
       /\ Last(before) = ev.start /\ Named(before, ev.start)
       /\ Hdr(before, ev.start).samples = 0
       /\ ev.header.sess = Hdr(before, ev.start).sess
       /\ ev.header.last = Hdr(before, ev.start).last
       /\ Intact(before, ev.start, ev.header)

Lists ==
  /\ pc \in {"idle", "format"} => Listed(View(store)) /\ OpenIntact(View(store))
  /\ pc \in {"list", "data_header", "data_sample", "start_read", "sample"} =>
       Listed(before) /\ OpenIntact(before)
  /\ pc = "start_header" => Begun
  /\ pc = "start_flush" => Linking
  /\ pc = "end_header" => Ending
  /\ pc = "end_flush" => Listed(before)
  /\ pc = "data_header" => walk.addr = Last(before)
  /\ pc = "data_sample" => /\ walk.addr = Last(before) /\ Named(before, walk.addr)
                           /\ walk.cur = Hdr(before, walk.addr)

ListInv == LogInv /\ Listed(store.flash) /\ Lists

\* What is old stays old as events are added.
LEMMA OldLater ==
  ASSUME NEW f \in Image, Sound(f), NEW m \in Int, NEW n \in Int, m <= n, Old(m, f)
  PROVE  Old(n, f)
<1> SUFFICES ASSUME NEW x \in EventStart, Fielded(f, x)
             PROVE  Hdr(f, x).sess <= n
  BY DEF Old
<1>1. Hdr(f, x).sess \in Nat /\ Hdr(f, x).sess <= m
  BY FieldedFits DEF Fields, Old
<1> QED
  BY <1>1

\* The header of a new event, or a part of it, is on the storage: nothing leads there.
LEMMA BegunView ==
  ASSUME LogInv, pc = "start_header", Begun
  PROVE  /\ Listed(View(store)) /\ Old(sess, View(store))
         /\ XferDone => \E m \in 0 .. sess - 1 :
                          Kept(m, View(store)) /\ AllIntact(m, View(store))
<1>1. PICK f \in Image, g \in Image, h \in Fields, n \in Nat :
        f = before /\ g = View(store) /\ h = ev.header /\ n = sess
  BY Images DEF LogInv, TypeOK, EventType, HeaderType
<1>2. /\ Sound(f) /\ Fresh /\ Writing(ev.start, HeaderCells(h), DataStart)
      /\ StoreTypeOK /\ Buf!Moved /\ ev.start \in EventStart
  BY <1>1 DEF LogInv, TypeOK, Phase, InStartHeader, Fresh
<1>3. /\ h.samples = 0 /\ h.sess = n /\ h.last = Last(f) /\ Old(n - 1, f)
      /\ Last(f) # 0 => At(ev.start, 0) = At(Last(f), After(f))
      /\ \E m \in 0 .. n - 1 : Kept(m, f)
  BY <1>1, <1>2 DEF Begun, Fresh
<1>4. PICK k \in 0 .. HeaderSize : k = xfer.moved
  BY <1>1, <1>2, HeaderCellsAre, Progress DEF Writing
<1>5. Wrote(f, g, ev.start, HeaderCells(h), k)
  BY <1>1, <1>2, <1>4, WrittenOnRing DEF Writing
<1>6. PICK m \in 0 .. n - 1 : Kept(m, f) /\ (Last(f) = 0 => Old(m, f))
  <2>1. CASE Last(f) = 0
    <3>1. n - 1 \in Nat /\ n - 1 \in 0 .. n - 1
      BY <1>3
    <3> QED
      BY <1>2, <1>3, <2>1, <3>1, OldKept
  <2>2. CASE Last(f) # 0
    BY <1>3, <2>2
  <2> QED
    BY <2>1, <2>2
<1>7. /\ Kept(m, g)
      /\ k = HeaderSize => AllIntact(m, g)
  <2>1. m \in Nat /\ h.sess > m
    BY <1>3, <1>6
  <2> QED
    BY <1>2, <1>3, <1>5, <1>6, <2>1, NewHeaderKept
<1>8. Old(n, g)
  <2>1. Old(n, f)
    BY <1>2, <1>3, OldLater
  <2>2. \A i \in 1 .. k : HeaderCells(h)[i].kind = "fields" =>
                            HeaderCells(h)[i].header.sess <= n
    BY <1>3, HeaderCellsOld
  <2>3. k \in Nat
    BY Sizes
  <2> QED
    BY <1>5, <2>1, <2>2, <2>3, WroteOld
<1>9. XferDone => k = HeaderSize
  BY <1>2, <1>4, DoneOnRing, HeaderCellsAre DEF Writing
<1>10. Listed(g)
  BY <1>1, <1>7, <1>8 DEF Listed
<1> QED
  BY <1>1, <1>6, <1>7, <1>8, <1>9, <1>10

\* The pointer to it is on the storage, or not yet.
LEMMA LinkingView ==
  ASSUME LogInv, pc = "start_flush", Linking
  PROVE  Listed(View(store))
<1>1. PICK f \in Image, g \in Image, n \in Nat : f = before /\ g = View(store) /\ n = sess
  BY Images DEF LogInv, TypeOK
<1>2. /\ Sound(f) /\ Fresh /\ OwnHeader(f) /\ Writing(0, PointerCells, 0)
      /\ TypeOK /\ StoreTypeOK /\ Buf!Moved /\ ev.start \in EventStart /\ Sound(g)
  BY <1>1, ViewSound DEF LogInv, TypeOK, Phase, InStartFlush, Fresh
<1>3. PICK m \in 0 .. n - 1 : Kept(m, f) /\ AllIntact(m, f)
  BY <1>1 DEF Linking
<1>4. ev.header.sess = n /\ Old(n, f)
  BY <1>1 DEF Linking
<1>5. /\ xfer.moved \in 0 .. DataStart
      /\ \A x \in Addr : g[x] = IF x < xfer.moved THEN PointerCells[x + 1] ELSE f[x]
  <2>1. /\ xfer.start = 0 /\ xfer.margin = 0 /\ xfer.dir = "write"
        /\ xfer.moved \in 0 .. DataStart /\ xfer.cells = PointerCells
    BY <1>2, Progress, Sizes DEF Writing, PointerCells
  <2> QED
    BY <1>1, <1>2, <2>1, WrittenAtZero
<1>6. \A x \in DataStart .. StorageSize - 1 : g[x] = f[x]
  BY <1>5, Sizes DEF Addr
<1>7. Last(g) = Last(f) \/ Last(g) = ev.start
  <2>1. DataStart - 1 \in Addr /\ DataStart \in 1 .. DataStart /\ (DataStart - 1) + 1 = DataStart
    BY Sizes DEF Addr
  <2>2. PointerCells[DataStart] = LastCell(ev.start)
    BY <2>1 DEF PointerCells
  <2> QED
    BY <1>5, <2>1, <2>2 DEF Last, LastCell
<1>8. Newer(m, f, ev.start) /\ ev.start # 0
  <2>1. ev.header \in Fields
    BY <1>2 DEF TypeOK, EventType, HeaderType
  <2>2. [ev.header EXCEPT !.samples = 0, !.inProgress = TRUE].sess = n
    BY <1>4, <2>1 DEF Fields
  <2>3. PICK h : f[At(ev.start, 1)] = FieldsCell(h) /\ h.sess = n
    BY <1>2, <2>2 DEF OwnHeader
  <2>4. f[At(ev.start, 1)].kind = "fields" /\ f[At(ev.start, 1)].header.sess = n
    BY <2>3 DEF FieldsCell
  <2> QED
    BY <1>2, <1>3, <2>4, Sizes DEF Newer, Fielded, Hdr, EventStart
<1>9. Kept(m, g) /\ Old(n, g)
  <2>1. m \in Nat
    BY <1>3
  <2> QED
    BY <1>2, <1>3, <1>4, <1>6, <1>7, <1>8, <2>1, RingKept
<1> QED
  BY <1>1, <1>9 DEF Listed

\* A sample, or a part of it, is behind those of the open event.
LEMMA SampleListed ==
  ASSUME LogInv, FormatWhileLogging = FALSE, pc = "sample",
         Listed(before), OpenIntact(before)
  PROVE  /\ Listed(View(store))
         /\ XferDone => Intact(View(store), ev.start, [ev.header EXCEPT !.samples = @ + 1])
<1>1. PICK f \in Image, g \in Image, h \in Fields, n \in Nat :
        f = before /\ g = View(store) /\ h = ev.header /\ n = sess
  BY Images DEF LogInv, TypeOK, EventType, HeaderType
<1>2. /\ Sound(f) /\ Open(f) /\ Last(f) = ev.start /\ ev.start \in EventStart
      /\ TotalSize(h) + SampleSize <= RingSize
      /\ ev.header.inProgress
      /\ Writing(ev.current, SampleCells(h.sess, h.samples), DataStart)
      /\ TypeOK /\ StoreTypeOK /\ Buf!Moved
  BY <1>1 DEF LogInv, TypeOK, Phase, InSample, AtRest, Open
<1>3. /\ h.sess \in Nat /\ h.samples \in Nat
      /\ ev.current \in DataStart .. StorageSize + HeaderSize
  BY <1>1, <1>2, Sizes DEF TypeOK, EventType, Open, Fields
<1>4. PICK k \in 0 .. SampleSize : k = xfer.moved
  BY <1>2, <1>3, SampleCellsAre, Progress DEF Writing
<1>5. Wrote(f, g, ev.current, SampleCells(h.sess, h.samples), k)
  BY <1>1, <1>2, <1>4, WrittenOnRing DEF Writing
<1>6. PICK m \in 0 .. n : Kept(m, f)
  BY <1>1 DEF Listed
<1>7. /\ Kept(m, g)
      /\ k = SampleSize => Intact(g, ev.start, [ev.header EXCEPT !.samples = @ + 1])
  <2>1. m \in Nat /\ Intact(f, ev.start, ev.header)
    BY <1>1, <1>2, <1>6 DEF OpenIntact
  <2> QED
    BY <1>1, <1>2, <1>3, <1>5, <1>6, <2>1, SampleKept
<1>8. Old(n, g)
  <2>1. \A i \in 1 .. k : SampleCells(h.sess, h.samples)[i].kind # "fields"
    <3>1. \A i : SampleCell(h.sess, h.samples, i).kind # "fields"
      BY DEF SampleCell
    <3>2. \A i \in 1 .. k : i \in 1 .. SampleSize
      BY Sizes
    <3> QED
      BY <1>3, <3>1, <3>2, SampleCellsAre
  <2>2. Old(n, f) /\ k \in Nat
    BY <1>1 DEF Listed
  <2> QED
    BY <1>5, <2>1, <2>2, WroteOld
<1>9. XferDone => k = SampleSize
  BY <1>2, <1>3, <1>4, DoneOnRing, SampleCellsAre DEF Writing
<1> QED
  BY <1>1, <1>7, <1>8, <1>9 DEF Listed

\* The final header, or a part of it, is over the first one.
LEMMA EndingView ==
  ASSUME LogInv, pc = "end_header", Ending
  PROVE  /\ Listed(View(store))
         /\ ev.start # 0 =>
              /\ Last(View(store)) = ev.start
              /\ XferDone => /\ Named(View(store), ev.start)
                             /\ Hdr(View(store), ev.start) = ev.header
                             /\ Intact(View(store), ev.start, ev.header)
<1>1. PICK f \in Image, g \in Image, h \in Fields, n \in Nat :
        f = before /\ g = View(store) /\ h = ev.header /\ n = sess
  BY Images DEF LogInv, TypeOK, EventType, HeaderType
<1>2. /\ Sound(f) /\ Sound(g) /\ HeaderFits(h) /\ StoreTypeOK /\ Buf!Moved
      /\ Writing(ev.start, HeaderCells(h), DataStart)
      /\ ev.start # 0 => ev.start \in DataStart .. StorageSize - 1
  BY <1>1, ViewSound DEF LogInv, TypeOK, Phase, InEndHeader
<1>3. PICK k \in 0 .. HeaderSize : k = xfer.moved
  BY <1>1, <1>2, HeaderCellsAre, Progress DEF Writing
<1>4. Wrote(f, g, ev.start, HeaderCells(h), k)
  BY <1>1, <1>2, <1>3, WrittenOnRing DEF Writing
<1>5. PICK m \in 0 .. n : Kept(m, f) /\ Old(n, f)
  BY <1>1 DEF Ending, Listed
<1>6. XferDone => k = HeaderSize
  BY <1>2, <1>3, DoneOnRing, HeaderCellsAre DEF Writing
<1>7. CASE ev.start # 0
  <2>1. PICK e \in EventStart : e = ev.start
    BY <1>2, <1>7, Sizes DEF EventStart
  <2>2. /\ Last(f) = e /\ Named(f, e) /\ Hdr(f, e).samples = 0
        /\ h.sess = Hdr(f, e).sess /\ h.last = Hdr(f, e).last /\ Intact(f, e, h)
    BY <1>1, <1>7, <2>1 DEF Ending
  <2>3. /\ Kept(m, g) /\ Last(g) = e
        /\ k = HeaderSize => Named(g, e) /\ Hdr(g, e) = h /\ Intact(g, e, h)
    <3>1. m \in Nat /\ Wrote(f, g, e, HeaderCells(h), k)
      BY <1>4, <1>5, <2>1
    <3> QED
      BY <1>2, <1>5, <2>2, <3>1, EndHeaderKept
  <2>4. Old(n, g)
    <3>1. h.sess <= n
      BY <1>5, <2>2 DEF Old, Named, Fielded
    <3>2. \A i \in 1 .. k : HeaderCells(h)[i].kind = "fields" =>
                              HeaderCells(h)[i].header.sess <= n
      BY <3>1, HeaderCellsOld
    <3>3. k \in Nat
      BY Sizes
    <3> QED
      BY <1>4, <1>5, <3>2, <3>3, WroteOld
  <2> QED
    BY <1>1, <1>6, <2>1, <2>3, <2>4 DEF Listed
<1>8. CASE ev.start = 0
  <2>1. \A i \in 0 .. k - 1 : At(ev.start, i) < DataStart - 1
    BY <1>8, Sizes DEF At, Buf!Place
  <2>2. \A x \in DataStart - 1 .. StorageSize - 1 : g[x] = f[x]
    BY <1>4, <2>1, Sizes DEF Wrote, Addr
  <2>3. Last(g) = Last(f) /\ \A x \in DataStart .. StorageSize - 1 : g[x] = f[x]
    BY <2>2, Sizes DEF Last
  <2>4. Kept(m, g) /\ Old(n, g)
    <3>1. m \in Nat
      BY <1>5
    <3> QED
      BY <1>2, <1>5, <2>3, <3>1, RingKept
  <2> QED
    BY <1>1, <1>8, <2>4 DEF Listed
<1> QED
  BY <1>7, <1>8

\* So whatever is under way, what is read through the cache lists nothing cut.
LEMMA ViewListed ==
  ASSUME ListInv, FormatWhileLogging = FALSE, pc \notin Halted
  PROVE  Listed(View(store))
<1>1. LogInv /\ Lists /\ TypeOK /\ Phase /\ Buf!Moved
  BY DEF ListInv, LogInv
<1>2. CASE pc \in {"idle", "format"}
  BY <1>1, <1>2 DEF Lists
<1>3. CASE pc \in {"list", "data_header", "data_sample", "start_read"}
  <2>1. xfer.dir = "read"
    BY <1>1, <1>3 DEF Phase, InWalk, InStartRead, Reading
  <2> QED
    BY <1>1, <1>3, <2>1, SameStore DEF Buf!Moved, Lists
<1>4. CASE pc = "start_header"
  BY <1>1, <1>4, BegunView DEF Lists
<1>5. CASE pc = "start_flush"
  BY <1>1, <1>5, LinkingView DEF Lists
<1>6. CASE pc = "sample"
  BY <1>1, <1>6, SampleListed DEF Lists
<1>7. CASE pc = "end_header"
  BY <1>1, <1>7, EndingView DEF Lists
<1>8. CASE pc = "end_flush"
  BY <1>1, <1>8 DEF Lists, Phase, InEndFlush
<1> QED
  BY <1>1, <1>2, <1>3, <1>4, <1>5, <1>6, <1>7, <1>8 DEF TypeOK, Busy

-----------------------------------------------------------------------------
(* What is listed, step by step                                            *)

\* Where the next step leaves the logger, one part of Lists is about it.
LEMMA ListsNext ==
  /\ pc' \in {"idle", "format"} /\ Listed(View(store))' /\ OpenIntact(View(store))' => Lists'
  /\ pc' \in {"list", "start_read", "sample"} /\ Listed(before)' /\ OpenIntact(before)' => Lists'
  /\ /\ pc' = "data_header" /\ Listed(before)' /\ OpenIntact(before)'
     /\ walk'.addr = Last(before')
     => Lists'
  /\ /\ pc' = "data_sample" /\ Listed(before)' /\ OpenIntact(before)'
     /\ walk'.addr = Last(before') /\ Named(before', walk'.addr)
     /\ walk'.cur = Hdr(before', walk'.addr)
     => Lists'
  /\ pc' = "start_header" /\ Begun' => Lists'
  /\ pc' = "start_flush" /\ Linking' => Lists'
  /\ pc' = "end_header" /\ Ending' => Lists'
  /\ pc' = "end_flush" /\ Listed(before)' => Lists'
  /\ pc' \in Halted => Lists'
BY DEF Lists, Halted

\* What is listed in an image is listed in it after the step.
LEMMA ListedNext ==
  ASSUME sess' = sess, NEW f, Listed(f)
  PROVE  /\ store'.flash = f => Listed(store.flash)'
         /\ before' = f => Listed(before)'
         /\ View(store') = f => Listed(View(store))'
BY DEF Listed

\* So are the samples of the open event.
LEMMA OpenNext ==
  ASSUME ev' = ev, NEW f, OpenIntact(f)
  PROVE  /\ before' = f => OpenIntact(before)'
         /\ View(store') = f => OpenIntact(View(store))'
BY DEF OpenIntact

\* An idle logger, and the page it loads.
LEMMA IdleListed ==
  ASSUME ListInv, pc = "idle"
  PROVE  LET s == GetPage(store, 0)
         IN  /\ TypeOK /\ s \in StoreType /\ Coherent(s) /\ View(s) = View(store)
             /\ Sound(View(s)) /\ AtRest(View(s))
             /\ LastEvent(s.data) = Last(View(s))
             /\ Listed(View(s)) /\ OpenIntact(View(s)) /\ Listed(s.flash)
             /\ store \in StoreType /\ Coherent(store) /\ xfer = NoXfer
<1>1. LogInv /\ Listed(store.flash) /\ Listed(View(store)) /\ OpenIntact(View(store))
  BY DEF ListInv, Lists
<1>2. TypeOK /\ store \in StoreType /\ Coherent(store)
  BY <1>1 DEF LogInv, TypeOK, StoreTypeOK, CacheCoherent
<1> QED
  BY <1>1, <1>2, IdleLoad

\* A pass of the transfer loop, whoever it runs for.
LEMMA TransferLists ==
  ASSUME ListInv, FormatWhileLogging = FALSE, Transfer
  PROVE  Listed(store.flash)' /\ Lists'
<1>1. /\ TypeOK /\ StoreTypeOK /\ Buf!On /\ Buf!Moved /\ Phase /\ XferChunk /\ ~XferDone
      /\ pc' = pc /\ ev' = ev /\ walk' = walk /\ sess' = sess /\ done' = done
      /\ Listed(store.flash) /\ Lists
  BY DEF ListInv, LogInv, TypeOK, Transfer, XferChunk
<1>2. before' = before
  BY <1>1, ChunkKeeps
<1>3. pc # "idle" /\ pc # "format" /\ pc \notin Halted
  BY <1>1 DEF Phase, InIdle, InFormat, InHalt, XferDone, NoXfer
<1>4. store'.flash \in {store.flash, View(store)}
  <2>1. CASE pc = "end_flush"
    <3>1. store' = [store EXCEPT !.dirty = TRUE] /\ store \in StoreType
      BY <1>1, <2>1, SelfWrite DEF Phase, StoreTypeOK
    <3> QED
      BY <3>1 DEF StoreType
  <2>2. CASE pc # "end_flush"
    <3>1. CacheCoherent
      BY <2>2 DEF ListInv, LogInv
    <3> QED
      BY <1>1, <3>1, ChunkFacts
  <2> QED
    BY <2>1, <2>2
<1>5. Listed(store.flash)'
  <2>1. Listed(View(store))
    BY <1>3, ViewListed
  <2>2. PICK f : f = store'.flash /\ Listed(f)
    BY <1>1, <1>4, <2>1
  <2> QED
    BY <1>1, <2>2, ListedNext
<1>6. Lists'
  BY <1>1, <1>2, <1>3 DEF Lists, Listed, OpenIntact, Begun, Linking, Ending
<1> QED
  BY <1>5, <1>6

\* A halted logger does not take part any more.
LEMMA HaltLists ==
  ASSUME pc' \in Halted, sess' = sess, NEW f, store'.flash = f, Listed(f)
  PROVE  Listed(store.flash)' /\ Lists'
BY ListedNext, ListsNext

\* A new event is begun behind the last one.
LEMMA NewEventLists ==
  ASSUME TypeOK, NEW s \in StoreType, Coherent(s), Sound(View(s)), Listed(View(s)),
         NEW addr \in EventStart, NEW id \in Nat, NEW last, last = Last(View(s)),
         last # 0 => At(addr, 0) = At(last, After(View(s))),
         WriteNewEvent(s, addr, id, last)
  PROVE  Listed(store.flash)' /\ Lists'
<1>0. PICK header : header = NewHeader(id, last)
  OBVIOUS
<1>1. /\ sess' = sess + 1 /\ sess \in Nat
      /\ ev' = [header |-> header, start |-> addr, current |-> addr + HeaderSize,
                written |-> FALSE]
      /\ BeginWrite(s, addr, HeaderCells(header), DataStart)
      /\ pc' = "start_header"
  BY <1>0 DEF WriteNewEvent, TypeOK
<1>2. last \in {0} \cup EventStart
  BY DEF Sound
<1>3. header \in Fields /\ header.sess = sess + 1 /\ header.last = last
  BY <1>0, <1>1, <1>2, Sizes DEF NewHeader, Fields, EventStart
<1>4. store'.flash = View(s) /\ before' = View(s)
  <2>1. HeaderCells(header) \in Seq(LogCell) /\ Len(HeaderCells(header)) = HeaderSize
    BY <1>3, HeaderCellsAre
  <2>2. /\ addr \in 0 .. StorageSize + HeaderSize /\ HeaderSize <= StorageSize - DataStart
        /\ DataStart # 0
    BY Sizes DEF EventStart
  <2> QED
    BY <1>1, <2>1, <2>2, BeginWriteFacts
<1>5. PICK f : f = View(s)
  OBVIOUS
<1>51. PICK n \in Nat : n = sess /\ n + 1 \in Nat /\ n <= n + 1
  BY <1>1
<1>6. PICK m \in 0 .. n : Old(n, f) /\ Kept(m, f)
  BY <1>5, <1>51 DEF Listed
<1>7. f \in Image
  BY <1>5, CacheFacts DEF Image
<1>8. Old(n + 1, f) /\ m \in 0 .. n + 1
  BY <1>5, <1>51, <1>6, <1>7, OldLater
<1>9. Listed(store.flash)'
  BY <1>1, <1>4, <1>5, <1>51, <1>6, <1>8 DEF Listed
<1>10. Begun'
  <2>1. ev'.header.sess = sess' /\ ev'.header.last = Last(before') /\ ev'.start = addr
    BY <1>1, <1>3, <1>4
  <2>2. sess' = n + 1 /\ sess' - 1 = n /\ before' = f
    BY <1>1, <1>4, <1>5, <1>51
  <2>3. Last(before') # 0 => At(ev'.start, 0) = At(Last(before'), After(before'))
    BY <1>4, <2>1
  <2> QED
    BY <1>6, <2>1, <2>2, <2>3 DEF Begun
<1> QED
  BY <1>1, <1>9, <1>10, ListsNext

\* START: the first event, or the reading of the header of the last one.
LEMMA StartEventLists ==
  ASSUME ListInv, StartEvent
  PROVE  Listed(store.flash)' /\ Lists'
<1>0. PICK s, last : s = GetPage(store, 0) /\ last = LastEvent(s.data)
  OBVIOUS
<1>1. pc = "idle"
  BY DEF StartEvent
<1>2. /\ TypeOK /\ s \in StoreType /\ Coherent(s) /\ Sound(View(s)) /\ Listed(View(s))
      /\ OpenIntact(View(s)) /\ Listed(s.flash) /\ last = Last(View(s))
  BY <1>0, <1>1, IdleListed
<1>3. last \in {0} \cup EventStart
  BY <1>2 DEF Sound
<1>4. \/ pc' = "halt_last_event" /\ store' = s
         /\ UNCHANGED <<xfer, before, ev, walk, sess, done>>
      \/ last = 0 /\ WriteNewEvent(s, DataStart, 0, 0)
      \/ last \in 1 .. DataStart - 1
      \/ /\ last \in DataStart .. StorageSize - 1
         /\ BeginRead(s, last, HeaderSize, DataStart)
         /\ pc' = "start_read"
         /\ UNCHANGED <<ev, walk, sess, done>>
  BY <1>0 DEF StartEvent
<1>5. CASE pc' = "halt_last_event" /\ store' = s
           /\ UNCHANGED <<xfer, before, ev, walk, sess, done>>
  BY <1>2, <1>5, HaltLists DEF Halted
<1>6. CASE last = 0 /\ WriteNewEvent(s, DataStart, 0, 0)
  <2>1. PICK addr \in EventStart, id \in Nat : addr = DataStart /\ id = 0
    BY Sizes DEF EventStart
  <2> QED
    BY <1>2, <1>6, <2>1, NewEventLists
<1>7. last \notin 1 .. DataStart - 1
  BY <1>3, Sizes DEF EventStart
<1>8. CASE /\ last \in DataStart .. StorageSize - 1
           /\ BeginRead(s, last, HeaderSize, DataStart)
           /\ pc' = "start_read"
           /\ UNCHANGED <<ev, walk, sess, done>>
  <2>1. last \in EventStart
    BY <1>8, Sizes DEF EventStart
  <2>2. store'.flash = View(s) /\ before' = View(s)
    BY <1>2, <1>8, <2>1, BeginReadFacts
  <2>3. PICK f : f = View(s)
    OBVIOUS
  <2> QED
    BY <1>2, <1>8, <2>2, <2>3, ListedNext, OpenNext, ListsNext
<1> QED
  BY <1>4, <1>5, <1>6, <1>7, <1>8

\* START: the last header was read.
LEMMA StartAfterLastLists ==
  ASSUME ListInv, StartAfterLast
  PROVE  Listed(store.flash)' /\ Lists'
<1>0. PICK header, last :
        /\ header = IF IsEvent(xfer.cells) THEN xfer.cells[2].header ELSE NoHeader
        /\ last = Last(before)
  OBVIOUS
<1>1. /\ TypeOK /\ StoreTypeOK /\ Buf!Moved /\ XferDone
      /\ store \in StoreType /\ Coherent(store) /\ Listed(before)
      /\ Sound(before) /\ last \in DataStart .. StorageSize - 1
      /\ Reading(last, HeaderSize)
  BY <1>0 DEF ListInv, LogInv, TypeOK, StoreTypeOK, CacheCoherent, StartAfterLast, Phase,
    InStartRead, Lists
<1>2. last \in EventStart
  BY <1>1, Sizes DEF EventStart
<1>3. /\ View(store) = before
      /\ IsEvent(xfer.cells) <=> Named(before, last)
      /\ IsEvent(xfer.cells) => /\ xfer.cells[2].header = Hdr(before, last)
                                /\ xfer.cells[2].header \in Fields
  BY <1>1, <1>2, HeaderRead DEF Hdr
<1>4. header \in Fields
  BY <1>0, <1>3, NoHeaderFits
<1>5. PICK t \in HeaderSize .. RingSize : t = TotalSize(header) /\ t = After(before)
  <2>1. TotalSize(header) = After(before)
    BY <1>0, <1>3, <1>4, TotalIs DEF After, NoHeader
  <2>2. After(before) \in HeaderSize .. RingSize
    BY <1>0, <1>1, <1>2, AfterIs, Images, Sizes DEF EventStart
  <2> QED
    BY <2>1, <2>2
<1>6. PICK addr, id : addr = WrapAddr(last + t, DataStart) /\ id = header.id + 1
  OBVIOUS
<1>7. WriteNewEvent(store, addr, id, last)
  BY <1>0, <1>1, <1>5, <1>6 DEF StartAfterLast, Reading
<1>8. id \in Nat
  BY <1>4, <1>6 DEF Fields
<1>9. addr \in EventStart /\ At(addr, 0) = At(last, t)
  <2>1. /\ last \in DataStart .. StorageSize + HeaderSize /\ t \in 0 .. RingSize
        /\ last + t <= StorageSize + RingSize - 1
    BY <1>1, Sizes DEF RingSize
  <2> QED
    BY <1>6, <2>1, AtWrapped
<1> QED
  BY <1>0, <1>1, <1>3, <1>5, <1>7, <1>8, <1>9, NewEventLists

\* START: the event is written, the pointer to it comes next.
LEMMA StartPointerLists ==
  ASSUME ListInv, StartPointer
  PROVE  Listed(store.flash)' /\ Lists'
<1>1. /\ LogInv /\ TypeOK /\ Phase /\ pc = "start_header" /\ XferDone /\ Begun
      /\ store \in StoreType /\ Coherent(store) /\ Fresh
      /\ BeginWrite(store, 0, PointerCells, 0)
      /\ pc' = "start_flush" /\ UNCHANGED <<ev, walk, sess, done>>
  BY DEF ListInv, LogInv, TypeOK, StoreTypeOK, CacheCoherent, StartPointer, Phase,
    InStartHeader, Lists, PointerCells
<1>2. store'.flash = View(store) /\ before' = View(store)
  <2>1. PointerCells \in Seq(LogCell) /\ Len(PointerCells) = DataStart
    <3>1. ev.start \in Nat
      BY <1>1, Sizes DEF Fresh, EventStart
    <3>2. \A i \in 1 .. DataStart : PointerCells[i] \in LogCell
      BY <3>1 DEF PointerCells, LastCell, Junk, LogCell
    <3>3. PointerCells \in [1 .. DataStart -> LogCell]
      BY <3>2 DEF PointerCells
    <3> QED
      BY <3>3, Sizes
  <2>2. PICK s \in StoreType, addr \in 0 .. StorageSize + HeaderSize, margin \in {0, DataStart} :
          s = store /\ addr = 0 /\ margin = 0
    BY <1>1, Sizes
  <2>3. /\ Coherent(s) /\ BeginWrite(s, addr, PointerCells, margin)
        /\ Len(PointerCells) <= StorageSize - margin
    BY <1>1, <2>1, <2>2, Sizes
  <2>4. store'.flash = View(s) /\ before' = View(s)
    BY <2>1, <2>2, <2>3, BeginWriteFacts
  <2> QED
    BY <2>2, <2>4
<1>3. PICK f : f = View(store)
  OBVIOUS
<1>4. /\ Listed(f) /\ Old(sess, f)
      /\ \E m \in 0 .. sess - 1 : Kept(m, f) /\ AllIntact(m, f)
  BY <1>1, <1>3, BegunView
<1>5. Linking'
  BY <1>1, <1>2, <1>3, <1>4 DEF Linking, Begun
<1> QED
  BY <1>1, <1>2, <1>3, <1>4, <1>5, ListedNext, ListsNext

\* START: the pointer reaches the chip.
LEMMA StartFlushLists ==
  ASSUME ListInv, StartFlush
  PROVE  Listed(store.flash)' /\ Lists'
<1>1. /\ LogInv /\ TypeOK /\ Phase /\ pc = "start_flush" /\ Linking
      /\ store \in StoreType /\ Coherent(store) /\ Fresh
      /\ store' = Flush(store) /\ pc' = "idle" /\ UNCHANGED <<ev, sess>>
  BY DEF ListInv, LogInv, TypeOK, StoreTypeOK, CacheCoherent, StartFlush, Phase,
    InStartFlush, Lists
<1>2. store'.flash = View(store) /\ View(store') = View(store)
  BY <1>1, CacheFacts
<1>3. PICK f : f = View(store) /\ Listed(f)
  BY <1>1, LinkingView
<1>4. OpenIntact(f)
  BY <1>1 DEF OpenIntact, Intact, Fresh
<1> QED
  BY <1>1, <1>2, <1>3, <1>4, ListedNext, OpenNext, ListsNext

\* An event is ended: its final header is written over the first one.
LEMMA EndHeaderLists ==
  ASSUME ListInv, FormatWhileLogging = FALSE, pc = "idle",
         ev.header.inProgress \/ ~Finished, EndHeader
  PROVE  Listed(store.flash)' /\ Lists'
<1>1. /\ LogInv /\ TypeOK /\ store \in StoreType /\ Coherent(store)
      /\ AtRest(View(store)) /\ Sound(View(store)) /\ Listed(View(store))
      /\ OpenIntact(View(store)) /\ Listed(store.flash) /\ ev \in EventType
  BY DEF ListInv, LogInv, TypeOK, StoreTypeOK, CacheCoherent, Phase, InIdle, AtRest, Lists
<1>2. CASE ev.start >= StorageSize
  <2>1. /\ pc' = "halt_end_event"
        /\ UNCHANGED <<store, xfer, before, ev, walk, sess, done>>
    BY <1>2 DEF EndHeader
  <2> QED
    BY <1>1, <2>1, HaltLists DEF Halted
<1>3. CASE ~(ev.start >= StorageSize)
  <2>1. /\ ev' = [ev EXCEPT !.header.inProgress = FALSE]
        /\ BeginWrite(store, ev.start, HeaderCells(ev'.header), DataStart)
        /\ pc' = "end_header" /\ sess' = sess
    BY <1>3 DEF EndHeader
  <2>2. PICK f, h, a : /\ f = View(store) /\ a = ev.start
                       /\ h = [ev.header EXCEPT !.inProgress = FALSE]
    OBVIOUS
  <2>3. /\ h \in Fields /\ h.sess = ev.header.sess /\ h.last = ev.header.last
        /\ h.samples = ev.header.samples
        /\ ev'.header = h /\ ev'.start = a
    BY <1>1, <2>1, <2>2 DEF EventType, HeaderType, Fields
  <2>4. store'.flash = f /\ before' = f
    <3>1. PICK s \in StoreType, margin \in {0, DataStart}, cells \in Seq(LogCell) :
            /\ s = store /\ margin = DataStart /\ cells = HeaderCells(h)
            /\ Len(cells) = HeaderSize
      BY <1>1, <2>3, HeaderCellsAre
    <3>2. Coherent(s) /\ BeginWrite(s, a, cells, margin)
      BY <1>1, <2>1, <2>2, <2>3, <3>1
    <3>3. a \in 0 .. StorageSize + HeaderSize
      BY <1>1, <2>2, Sizes DEF EventType
    <3>4. Len(cells) <= StorageSize - margin /\ margin # 0
      BY <3>1, Sizes
    <3>5. store'.flash = View(s) /\ before' = View(s)
      BY <3>2, <3>3, <3>4, BeginWriteFacts
    <3> QED
      BY <2>2, <3>1, <3>5
  <2>5. a # 0 => /\ Last(f) = a /\ Named(f, a) /\ Hdr(f, a).samples = 0
                 /\ h.sess = Hdr(f, a).sess /\ h.last = Hdr(f, a).last
                 /\ Intact(f, a, h)
    <3> SUFFICES ASSUME a # 0
                 PROVE  /\ Last(f) = a /\ Named(f, a) /\ Hdr(f, a).samples = 0
                        /\ h.sess = Hdr(f, a).sess /\ h.last = Hdr(f, a).last
                        /\ Intact(f, a, h)
      OBVIOUS
    <3>1. ev.header.inProgress /\ Open(f)
      BY <1>1, <2>2 DEF AtRest, Finished, NoEvent
    <3>2. Last(f) = a /\ OwnHeader(f)
      BY <2>2, <3>1 DEF Open
    <3>3. PICK g : g = [ev.header EXCEPT !.samples = 0, !.inProgress = TRUE]
      OBVIOUS
    <3>4. f[At(a, 0)] = Sentinel /\ f[At(a, 1)] = FieldsCell(g)
      BY <2>2, <3>2, <3>3 DEF OwnHeader
    <3>5. Named(f, a) /\ Hdr(f, a) = g
      BY <3>4 DEF Named, Hdr, FieldsCell
    <3>6. g.samples = 0 /\ g.sess = h.sess /\ g.last = h.last
      BY <1>1, <2>3, <3>3 DEF EventType, HeaderType, Fields
    <3>7. Intact(f, a, h)
      BY <1>1, <2>2, <2>3, <3>1 DEF OpenIntact, Intact
    <3> QED
      BY <3>2, <3>5, <3>6, <3>7
  <2>6. Listed(f) /\ Listed(f)'
    BY <1>1, <2>1, <2>2 DEF Listed
  <2>7. Ending'
    BY <2>3, <2>4, <2>5, <2>6 DEF Ending, Listed
  <2> QED
    BY <2>1, <2>4, <2>6, <2>7, ListsNext, ListedNext
<1> QED
  BY <1>2, <1>3

\* STOP: the pointer is stored, and what the chip holds then is one of two logs.
LEMMA EndPointerLists ==
  ASSUME ListInv, EndPointer
  PROVE  Listed(store.flash)' /\ Lists'
<1>1. /\ LogInv /\ TypeOK /\ InEndHeader /\ pc = "end_header" /\ XferDone /\ Ending
      /\ store \in StoreType /\ Coherent(store) /\ Sound(store.flash)
      /\ Listed(store.flash) /\ Buf!Moved
      /\ ev.start = 0 \/ ev.start \in EventStart
  <2>1. StorageSize - 1 < StorageSize
    BY Sizes
  <2> QED
    BY <2>1, Sizes DEF ListInv, LogInv, TypeOK, StoreTypeOK, CacheCoherent, EndPointer,
      Phase, InEndHeader, EventStart, Lists
<1>2. /\ Sound(View(store)) /\ Listed(View(store))
      /\ ev.start # 0 => Last(View(store)) = ev.start /\ Named(View(store), ev.start)
  BY <1>1, ViewSound, EndingView
<1>3. PICK s, k, a : s = GetPage(store, 0) /\ a = ev.start /\ k = Link(s, a)
  OBVIOUS
<1>4. /\ s \in StoreType /\ Coherent(s) /\ s.page = 0
      /\ View(s) = View(store) /\ s.flash \in {store.flash, View(store)}
  BY <1>1, <1>3, CacheFacts
<1>5. a = 0 \/ (a \in EventStart /\ Named(View(s), a))
  BY <1>1, <1>2, <1>3, <1>4
<1>6. /\ k \in StoreType /\ Sound(View(k))
      /\ Flush(k).flash \in {s.flash, View(k)}
      /\ \A x \in DataStart .. StorageSize - 1 : View(k)[x] = View(s)[x]
      /\ Last(View(k)) = a
  <2>1. Sound(View(s)) /\ Sound(s.flash)
    BY <1>1, <1>2, <1>4
  <2> QED
    BY <1>3, <1>4, <1>5, <2>1, Linked
<1>7. /\ store' = Flush(k) /\ before' = View(k) /\ pc' = "end_flush" /\ sess' = sess
  BY <1>3 DEF EndPointer, Link, BeginWrite, Begin
<1>8. PICK f \in Image, g \in Image : f = View(s) /\ g = View(k)
  <2>1. k \in Buf!StoreType /\ s \in Buf!StoreType
    BY <1>4, <1>6, SameStore
  <2>2. Buf!View(k) \in [Buf!Addr -> LogCell] /\ Buf!View(s) \in [Buf!Addr -> LogCell]
    BY <2>1, StorageAssumptions, Buf!ViewType
  <2> QED
    BY <2>2, SameStore DEF Image
<1>9. Listed(g)
  <2>1. PICK n \in Nat : n = sess
    BY <1>1 DEF TypeOK
  <2>2. PICK m \in 0 .. n : Kept(m, f) /\ Old(n, f)
    BY <1>2, <1>4, <1>8, <2>1 DEF Listed
  <2>3. Sound(f) /\ Sound(g) /\ m \in Nat /\ \A x \in DataStart .. StorageSize - 1 : g[x] = f[x]
    BY <1>2, <1>4, <1>6, <1>8, <2>2
  <2>4. Old(n, g)
    BY <2>2, <2>3, RingKept
  <2>5. CASE a # 0
    <3>1. Last(g) = Last(f)
      BY <1>2, <1>3, <1>4, <1>6, <1>8, <2>5
    <3>2. Kept(m, g)
      BY <2>2, <2>3, <3>1, RingKept
    <3> QED
      BY <2>1, <2>2, <2>4, <3>2 DEF Listed
  <2>6. CASE a = 0
    <3>1. Last(g) = 0
      BY <1>6, <1>8, <2>6
    <3>2. Kept(n, g) /\ n \in 0 .. n
      BY <2>1, <2>3, <2>4, <3>1, OldKept
    <3> QED
      BY <2>1, <2>4, <3>2 DEF Listed
  <2> QED
    BY <2>5, <2>6
<1>10. Listed(s.flash)
  BY <1>1, <1>2, <1>4
<1>11. PICK e : e = store'.flash /\ Listed(e)
  BY <1>6, <1>7, <1>8, <1>9, <1>10
<1> QED
  BY <1>7, <1>8, <1>9, <1>11, ListedNext, ListsNext

\* STOP: that page reaches the chip.
LEMMA EndFlushLists ==
  ASSUME ListInv, EndFlush
  PROVE  Listed(store.flash)' /\ Lists'
<1>1. /\ TypeOK /\ StoreTypeOK /\ InEndFlush /\ pc = "end_flush" /\ XferDone
      /\ store \in StoreType /\ ~ev.header.inProgress /\ store.page = 0
      /\ store' = Flush(store) /\ pc' = "idle" /\ sess' = sess
      /\ ev' = [ev EXCEPT !.written = TRUE]
      /\ View(store) = before /\ Listed(before) /\ ev \in EventType
  BY DEF ListInv, LogInv, TypeOK, StoreTypeOK, EndFlush, Phase, InEndFlush, Lists
<1>2. store.dirty
  BY <1>1, DirtyByThen
<1>3. Coherent(store)
  BY <1>1, <1>2 DEF Coherent, NoPage
<1>4. PICK f : f = before
  OBVIOUS
<1>5. store'.flash = f /\ View(store') = f
  BY <1>1, <1>3, <1>4, CacheFacts
<1>6. ~ev'.header.inProgress
  BY <1>1 DEF EventType
<1>7. OpenIntact(View(store))'
  BY <1>6 DEF OpenIntact
<1> QED
  BY <1>1, <1>4, <1>5, <1>7, ListedNext, ListsNext

\* A sample is logged, or the storage is full.
LEMMA WriteSampleLists ==
  ASSUME ListInv, FormatWhileLogging = FALSE, WriteSample
  PROVE  Listed(store.flash)' /\ Lists'
<1>1. /\ TypeOK /\ pc = "idle" /\ ev.header.inProgress /\ ev \in EventType
      /\ store \in StoreType /\ Coherent(store)
      /\ Listed(View(store)) /\ OpenIntact(View(store))
  BY DEF ListInv, LogInv, TypeOK, StoreTypeOK, CacheCoherent, Lists, WriteSample
<1>2. CASE RangesOverlap(ev.start, HeaderSize, ev.current, SampleSize, DataStart)
  BY <1>1, <1>2, EndHeaderLists DEF WriteSample
<1>3. CASE ~RangesOverlap(ev.start, HeaderSize, ev.current, SampleSize, DataStart)
  <2>1. PICK s, addr, cells, f :
          /\ s = store /\ addr = ev.current /\ f = View(s)
          /\ cells = SampleCells(ev.header.sess, ev.header.samples)
    OBVIOUS
  <2>2. /\ BeginWrite(s, addr, cells, DataStart)
        /\ pc' = "sample" /\ ev' = ev /\ sess' = sess
    BY <1>3, <2>1 DEF WriteSample
  <2>3. ev.header.sess \in Nat /\ ev.header.samples \in Nat
    BY <1>1 DEF EventType, HeaderType, Fields
  <2>4. cells \in Seq(LogCell) /\ Len(cells) = SampleSize
    BY <2>1, <2>3, SampleCellsAre
  <2>5. /\ s \in StoreType /\ Coherent(s) /\ DataStart \in {0, DataStart}
        /\ addr \in 0 .. StorageSize + HeaderSize /\ DataStart # 0
        /\ Len(cells) <= StorageSize - DataStart
    BY <1>1, <2>1, <2>4, Sizes DEF EventType
  <2>6. store'.flash = f /\ before' = f
    BY <2>1, <2>2, <2>4, <2>5, BeginWriteFacts
  <2>7. Listed(f) /\ OpenIntact(f)
    BY <1>1, <2>1
  <2> QED
    BY <2>2, <2>6, <2>7, ListedNext, OpenNext, ListsNext
<1> QED
  BY <1>2, <1>3

\* The sample is counted.
LEMMA SampleWrittenLists ==
  ASSUME ListInv, FormatWhileLogging = FALSE, SampleWritten
  PROVE  Listed(store.flash)' /\ Lists'
<1>1. /\ LogInv /\ pc = "sample" /\ XferDone /\ Listed(store.flash)
      /\ Listed(before) /\ OpenIntact(before) /\ ev \in EventType
      /\ ev' = [ev EXCEPT !.current = WrapAddr(ev.current + SampleSize, DataStart),
                          !.header.samples = @ + 1]
      /\ pc' = "idle" /\ store' = store /\ sess' = sess
  BY DEF ListInv, LogInv, TypeOK, Lists, SampleWritten
<1>2. /\ Listed(View(store))
      /\ Intact(View(store), ev.start, [ev.header EXCEPT !.samples = @ + 1])
  BY <1>1, SampleListed
<1>3. PICK f, h, a : f = View(store) /\ h = [ev.header EXCEPT !.samples = @ + 1] /\ a = ev.start
  OBVIOUS
<1>4. ev'.header = h /\ ev'.start = a /\ View(store)' = f
  BY <1>1, <1>3 DEF EventType
<1>5. OpenIntact(View(store))'
  <2>1. Intact(f, a, h)
    BY <1>2, <1>3
  <2> QED
    BY <1>4, <2>1 DEF OpenIntact
<1> QED
  BY <1>1, <1>2, <1>5, ListsNext DEF Listed

\* FORMAT: page 0 is loaded.
LEMMA FormatLists ==
  ASSUME ListInv, Format
  PROVE  Listed(store.flash)' /\ Lists'
<1>1. PICK s, f, e : s = GetPage(store, 0) /\ f = View(s) /\ e = s.flash
  OBVIOUS
<1>2. pc = "idle" /\ store' = s /\ pc' = "format" /\ ev' = ev /\ sess' = sess
  BY <1>1 DEF Format
<1>3. Listed(f) /\ OpenIntact(f) /\ Listed(e)
  BY <1>1, <1>2, IdleListed
<1> QED
  BY <1>1, <1>2, <1>3, ListedNext, OpenNext, ListsNext

\* FORMAT: page 0 is cleared and written out: no event is listed, and what is left
\* of them is old.
LEMMA FormatFlushLists ==
  ASSUME ListInv, FormatWhileLogging = FALSE, FormatFlush
  PROVE  Listed(store.flash)' /\ Lists'
<1>1. /\ pc = "format" /\ store \in StoreType /\ Coherent(store) /\ store.page = 0
      /\ Sound(View(store)) /\ ~ev.header.inProgress /\ Listed(View(store)) /\ TypeOK
  BY DEF ListInv, LogInv, TypeOK, StoreTypeOK, CacheCoherent, FormatFlush, Phase, InFormat,
    AtRest, Lists
<1>2. PICK d, s :
        /\ d = [i \in Offset |-> IF i = DataStart - 1 THEN LastCell(0) ELSE ZeroCell]
        /\ s = [store EXCEPT !.data = d, !.dirty = TRUE]
  OBVIOUS
<1>3. store' = Flush(s) /\ pc' = "idle" /\ ev' = ev /\ sess' = sess
  BY <1>2 DEF FormatFlush
<1>4. PICK f, g : f = View(store) /\ g = View(s)
  OBVIOUS
<1>5. /\ g \in Image /\ Sound(g) /\ Last(g) = 0
      /\ \A x \in Addr : g[x] = IF x = DataStart - 1 THEN LastCell(0)
                                ELSE IF x < PageSize THEN ZeroCell ELSE f[x]
      /\ store'.flash = g /\ View(store') = g
  BY <1>1, <1>2, <1>3, <1>4, Formatted
<1>6. PICK n \in Nat : n = sess
  BY <1>1 DEF TypeOK
<1>7. Old(n, g)
  <2> SUFFICES ASSUME NEW x \in EventStart, Fielded(g, x)
               PROVE  Hdr(g, x).sess <= n
    BY DEF Old
  <2>1. At(x, 1) \in Addr
    <3>1. x \in DataStart .. StorageSize + HeaderSize /\ 1 \in 0 .. RingSize
      BY Sizes DEF EventStart, RingSize
    <3> QED
      BY <3>1, AtInRing
  <2>2. g[At(x, 1)].kind = "fields"
    BY DEF Fielded
  <2>3. g[At(x, 1)] # LastCell(0) /\ g[At(x, 1)] # ZeroCell
    BY <2>2 DEF LastCell, ZeroCell
  <2>4. g[At(x, 1)] = f[At(x, 1)]
    BY <1>5, <2>1, <2>3
  <2>5. Fielded(f, x) /\ Hdr(f, x) = Hdr(g, x)
    BY <2>2, <2>4 DEF Fielded, Hdr
  <2> QED
    BY <1>1, <1>4, <1>6, <2>5 DEF Listed, Old
<1>8. Kept(n, g) /\ n \in 0 .. n
  BY <1>5, <1>6, <1>7, OldKept
<1>9. Listed(g)
  BY <1>6, <1>7, <1>8 DEF Listed
<1>10. OpenIntact(g)
  BY <1>1 DEF OpenIntact
<1> QED
  BY <1>3, <1>5, <1>9, <1>10, ListedNext, OpenNext, ListsNext

\* A loop over the events returns.
LEMMA ReturnLists ==
  ASSUME NEW s, Listed(s.flash), Listed(View(s)), OpenIntact(View(s)), Return(s)
  PROVE  Listed(store.flash)' /\ Lists'
<1>1. PICK e, f : e = s.flash /\ f = View(s)
  OBVIOUS
<1>2. store' = s /\ pc' = "idle" /\ ev' = ev /\ sess' = sess
  BY DEF Return
<1> QED
  BY <1>1, <1>2, ListedNext, OpenNext, ListsNext

\* The header of an event is read by a loop over the events.
LEMMA WalkOnLists ==
  ASSUME NEW s \in StoreType, Coherent(s), Listed(View(s)), OpenIntact(View(s)),
         NEW addr \in EventStart, NEW loop \in {"list", "data_header"},
         loop = "data_header" => addr = Last(View(s)),
         BeginRead(s, addr, HeaderSize, DataStart), walk'.addr = addr,
         pc' = loop, UNCHANGED <<ev, sess, done>>
  PROVE  Listed(store.flash)' /\ Lists'
<1>1. PICK f : f = View(s)
  OBVIOUS
<1>2. store'.flash = f /\ before' = f
  BY <1>1, BeginReadFacts
<1>3. /\ Listed(store.flash)' /\ Listed(before)' /\ OpenIntact(before)'
      /\ pc' = "data_header" => walk'.addr = Last(before')
  BY <1>1, <1>2, ListedNext, OpenNext
<1> QED
  BY <1>3, ListsNext

\* The newest event, on behalf of either loop.
LEMMA GetNewestLists ==
  ASSUME ListInv, NEW loop \in {"list", "data_header"}, GetNewest(loop)
  PROVE  Listed(store.flash)' /\ Lists'
<1>1. PICK s, last, e : s = GetPage(store, 0) /\ last = LastEvent(s.data) /\ e = s.flash
  OBVIOUS
<1>2. pc = "idle"
  BY DEF GetNewest
<1>3. /\ s \in StoreType /\ Coherent(s) /\ Sound(View(s)) /\ Listed(View(s))
      /\ OpenIntact(View(s)) /\ Listed(e) /\ last = Last(View(s))
  BY <1>1, <1>2, IdleListed
<1>4. last \in {0} \cup EventStart
  BY <1>3 DEF Sound
<1>5. \/ pc' \in Halted /\ store' = s /\ sess' = sess
      \/ Return(s)
      \/ /\ ~(last < DataStart)
         /\ BeginRead(s, last, HeaderSize, DataStart)
         /\ walk' = [prev |-> NoHeader, cur |-> NoHeader, addr |-> last, n |-> 0]
         /\ pc' = loop
         /\ UNCHANGED <<ev, sess, done>>
  BY <1>1 DEF GetNewest, ReadEvent, NoMoreEvents, NoWalk, Halted
<1>6. CASE pc' \in Halted /\ store' = s /\ sess' = sess
  BY <1>1, <1>3, <1>6, HaltLists
<1>7. CASE Return(s)
  BY <1>1, <1>3, <1>7, ReturnLists
<1>8. CASE /\ ~(last < DataStart)
           /\ BeginRead(s, last, HeaderSize, DataStart)
           /\ walk' = [prev |-> NoHeader, cur |-> NoHeader, addr |-> last, n |-> 0]
           /\ pc' = loop
           /\ UNCHANGED <<ev, sess, done>>
  <2>1. last \in EventStart
    BY <1>4, <1>8, Sizes
  <2>2. walk'.addr = last
    BY <1>8
  <2> QED
    BY <1>3, <1>8, <2>1, <2>2, WalkOnLists
<1> QED
  BY <1>5, <1>6, <1>7, <1>8

\* What a loop that has read something leaves as it is.
LEMMA WalkListed ==
  ASSUME ListInv, pc \in {"list", "data_header", "data_sample"}, XferDone
  PROVE  Listed(View(store)) /\ OpenIntact(View(store)) /\ Listed(store.flash)
<1>1. LogInv /\ Listed(before) /\ OpenIntact(before) /\ Listed(store.flash)
  BY DEF ListInv, Lists
<1>2. View(store) = before
  BY <1>1, WalkDone
<1> QED
  BY <1>1, <1>2

\* A turn of the loop that lists the events.
LEMMA ListNextLists ==
  ASSUME ListInv, ListNext
  PROVE  Listed(store.flash)' /\ Lists'
<1>1. pc = "list" /\ XferDone /\ LogInv
  BY DEF ListNext, ListInv
<1>2. PICK s : s = store
  OBVIOUS
<1>3. /\ TypeOK /\ StoreTypeOK /\ Buf!Moved /\ s \in StoreType /\ Coherent(s)
      /\ Sound(before) /\ Listed(View(s)) /\ OpenIntact(View(s)) /\ Listed(s.flash)
      /\ walk.addr \in EventStart /\ Reading(walk.addr, HeaderSize)
  BY <1>1, <1>2, WalkDone, WalkListed DEF Walking
<1>4. ASSUME NEW h, NEW a \in {0} \cup EventStart \cup Addr, ReadEvent(s, a, "list", h)
      PROVE  Listed(store.flash)' /\ Lists'
  <2>1. CASE a < DataStart
    <3>1. Return(s)
      BY <1>4, <2>1 DEF ReadEvent, NoMoreEvents
    <3> QED
      BY <1>3, <3>1, ReturnLists
  <2>2. CASE ~(a < DataStart)
    <3>1. PICK addr, loop : addr = a /\ loop = "list"
      OBVIOUS
    <3>2. /\ BeginRead(s, addr, HeaderSize, DataStart)
          /\ walk' = [prev |-> h, cur |-> NoHeader, addr |-> addr, n |-> 0]
          /\ pc' = loop
          /\ UNCHANGED <<ev, sess, done>>
      BY <1>4, <2>2, <3>1 DEF ReadEvent, NoWalk
    <3>3. addr \in EventStart /\ loop \in {"list", "data_header"}
      BY <2>2, <3>1, Sizes DEF Addr, EventStart
    <3>4. walk'.addr = addr /\ loop # "data_header"
      BY <3>1, <3>2
    <3> QED
      BY <1>3, <3>2, <3>3, <3>4, WalkOnLists
  <2> QED
    BY <2>1, <2>2
<1>5. CASE IsEvent(xfer.cells) /\ ReadEvent(store, xfer.cells[2].header.last, "list",
                                            xfer.cells[2].header)
  <2>1. HeaderFits(xfer.cells[2].header)
    BY <1>1, <1>3, <1>5, HeaderRead
  <2> QED
    BY <1>2, <1>4, <1>5, <2>1 DEF HeaderFits
<1>6. CASE \E addr \in Addr : ReadEvent(store, addr, "list", NoHeader)
  BY <1>2, <1>4, <1>6
<1>7. CASE NoMoreEvents(store, "list")
  <2>1. Return(s)
    BY <1>2, <1>7 DEF NoMoreEvents
  <2> QED
    BY <1>3, <2>1, ReturnLists
<1> QED
  BY <1>5, <1>6, <1>7 DEF ListNext

\* A sample of the newest event is read, or the loop over them ends.
LEMMA ReadSampleLists ==
  ASSUME ListInv, pc \in {"data_header", "data_sample"}, XferDone,
         NEW h \in Fields, HeaderFits(h), NEW n \in Nat,
         walk.addr = Last(before), Named(before, walk.addr), h = Hdr(before, walk.addr),
         ReadSample(h, walk.addr, n)
  PROVE  Listed(store.flash)' /\ Lists'
<1>1. PICK s, addr, source, f :
        s = store /\ addr = walk.addr /\ source = SampleSource(addr, n) /\ f = before
  OBVIOUS
<1>2. /\ LogInv /\ s \in StoreType /\ Coherent(s) /\ View(s) = f
      /\ Listed(f) /\ OpenIntact(f) /\ Listed(s.flash) /\ addr \in EventStart
  BY <1>1, WalkDone, WalkListed DEF Walking, ListInv
<1>3. \/ Return(s)
      \/ pc' \in Halted /\ store' = s /\ sess' = sess
      \/ /\ n < h.samples
         /\ BeginRead(s, source, SampleSize, DataStart)
         /\ walk' = [prev |-> walk.prev, cur |-> h, addr |-> addr, n |-> n]
         /\ pc' = "data_sample"
         /\ UNCHANGED <<ev, sess, done>>
  <2>1. n >= h.samples \/ n < h.samples
    BY DEF Fields
  <2> QED
    BY <1>1, <2>1 DEF ReadSample, Halted
<1>4. CASE Return(s)
  BY <1>2, <1>4, ReturnLists
<1>5. CASE pc' \in Halted /\ store' = s /\ sess' = sess
  BY <1>2, <1>5, HaltLists
<1>6. CASE /\ n < h.samples
           /\ BeginRead(s, source, SampleSize, DataStart)
           /\ walk' = [prev |-> walk.prev, cur |-> h, addr |-> addr, n |-> n]
           /\ pc' = "data_sample"
           /\ UNCHANGED <<ev, sess, done>>
  <2>1. source \in EventStart
    BY <1>1, <1>2, <1>6, SourceInRing
  <2>2. store'.flash = View(s) /\ before' = View(s)
    BY <1>2, <1>6, <2>1, BeginReadFacts
  <2>3. walk'.addr = addr /\ walk'.cur = h
    BY <1>6
  <2>4. /\ Listed(store.flash)' /\ Listed(before)' /\ OpenIntact(before)'
        /\ walk'.addr = Last(before') /\ Named(before', walk'.addr)
        /\ walk'.cur = Hdr(before', walk'.addr)
    BY <1>1, <1>2, <1>6, <2>2, <2>3, ListedNext, OpenNext
  <2> QED
    BY <1>6, <2>4, ListsNext
<1> QED
  BY <1>3, <1>4, <1>5, <1>6

\* The first sample of an event.
LEMMA DataFirstLists ==
  ASSUME ListInv, DataFirst
  PROVE  Listed(store.flash)' /\ Lists'
<1>1. pc = "data_header" /\ XferDone /\ LogInv /\ walk.addr = Last(before)
  BY DEF DataFirst, ListInv, Lists
<1>2. PICK s : s = store
  OBVIOUS
<1>3. /\ StoreTypeOK /\ Buf!Moved /\ Sound(before)
      /\ Listed(View(s)) /\ OpenIntact(View(s)) /\ Listed(s.flash)
      /\ walk.addr \in EventStart /\ Reading(walk.addr, HeaderSize)
  BY <1>1, <1>2, WalkDone, WalkListed DEF Walking
<1>4. CASE IsEvent(xfer.cells)
  <2>1. PICK h, n : h = xfer.cells[2].header /\ n = 0
    OBVIOUS
  <2>2. /\ h \in Fields /\ HeaderFits(h) /\ Named(before, walk.addr)
        /\ h = Hdr(before, walk.addr)
    BY <1>1, <1>3, <1>4, <2>1, HeaderRead DEF Hdr
  <2>3. ReadSample(h, walk.addr, n)
    BY <1>4, <2>1 DEF DataFirst
  <2> QED
    BY <1>1, <2>1, <2>2, <2>3, ReadSampleLists
<1>5. CASE ~IsEvent(xfer.cells)
  <2>1. Return(s) \/ (pc' \in Halted /\ store' = s /\ sess' = sess)
    BY <1>2, <1>5 DEF DataFirst, NoMoreEvents, Halted
  <2> QED
    BY <1>3, <2>1, ReturnLists, HaltLists
<1> QED
  BY <1>4, <1>5

\* The next sample.
LEMMA DataNextLists ==
  ASSUME ListInv, DataNext
  PROVE  Listed(store.flash)' /\ Lists'
<1>1. /\ pc = "data_sample" /\ XferDone /\ LogInv
      /\ ReadSample(walk.cur, walk.addr, walk.n + 1)
      /\ walk.addr = Last(before) /\ Named(before, walk.addr)
      /\ walk.cur = Hdr(before, walk.addr)
  BY DEF DataNext, ListInv, Lists
<1>2. PICK h, n : h = walk.cur /\ n = walk.n + 1
  OBVIOUS
<1>3. h \in Fields /\ HeaderFits(h) /\ n \in Nat
  BY <1>1, <1>2, WalkDone DEF Walking
<1> QED
  BY <1>1, <1>2, <1>3, ReadSampleLists

\* A reset leaves the log that is on the chip, and no open event.
LEMMA PowerLossLists ==
  ASSUME ListInv, PowerLoss
  PROVE  Listed(store.flash)' /\ Lists'
<1>1. PICK f : f = store.flash
  OBVIOUS
<1>2. /\ StoreTypeOK /\ Listed(f) /\ Reset /\ pc' = "idle" /\ ev' = NoEvent /\ sess' = sess
  BY <1>1 DEF ListInv, LogInv, TypeOK, PowerLoss
<1>3. View(store') = f /\ store'.flash = f
  BY <1>1, <1>2, ResetFacts
<1>4. ~ev'.header.inProgress
  BY <1>2 DEF NoEvent, NoHeader
<1>5. OpenIntact(View(store))'
  BY <1>4 DEF OpenIntact
<1> QED
  BY <1>2, <1>3, <1>5, ListedNext, ListsNext

\* A chip on which nothing was logged lists nothing.
LEMMA InitLists ==
  ASSUME Init
  PROVE  ListInv
<1>1. PICK f : /\ f = [a \in Addr |-> IF a = DataStart - 1 THEN LastCell(0)
                                      ELSE IF a < PageSize THEN ZeroCell ELSE Erased]
               /\ store = PowerUp(f)
  BY DEF Init
<1>2. /\ LogInv /\ pc = "idle" /\ ev = NoEvent /\ sess = 0
      /\ store \in StoreType /\ Coherent(store) /\ store.flash = f /\ Sound(f)
  BY <1>1, InitHolds DEF Init, PowerUp, LogInv, TypeOK, StoreTypeOK, CacheCoherent
<1>3. f \in Image /\ View(store) = f
  <2>1. store.page = NoPage
    BY <1>1 DEF PowerUp
  <2>2. f \in Image
    BY <1>2 DEF StoreType, Image
  <2>3. View(store) = [a \in Addr |-> f[a]]
    BY <1>2, <2>1 DEF View
  <2> QED
    BY <2>2, <2>3 DEF Image
<1>4. \A x \in Addr : f[x].kind # "fields"
  BY <1>1 DEF LastCell, ZeroCell, Erased
<1>5. Old(0, f)
  BY <1>4, Lands, Sizes DEF Old, Fielded, RingSize
<1>6. Last(f) = 0
  <2>1. f[DataStart - 1] = LastCell(0)
    BY <1>1, Sizes DEF Addr
  <2> QED
    BY <2>1 DEF Last, LastCell
<1>7. Kept(0, f)
  BY <1>2, <1>3, <1>5, <1>6, OldKept
<1>8. Listed(f)
  BY <1>2, <1>5, <1>7 DEF Listed
<1>9. OpenIntact(f)
  BY <1>2 DEF OpenIntact, NoEvent, NoHeader
<1> QED
  BY <1>2, <1>3, <1>8, <1>9 DEF ListInv, Lists

\* Every step keeps the invariant.
LEMMA ListStep ==
  ASSUME FormatWhileLogging = FALSE, ListInv, [Next]_vars
  PROVE  ListInv'
<1>1. LogInv'
  BY LogStep DEF ListInv
<1>2. CASE UNCHANGED vars
  <2>1. /\ store' = store /\ before' = before /\ pc' = pc
        /\ ev' = ev /\ walk' = walk /\ sess' = sess
    BY <1>2 DEF vars
  <2>2. Listed(store.flash)' /\ Lists'
    BY <2>1 DEF ListInv, Lists, Listed, OpenIntact, Begun, Linking, Ending
  <2> QED
    BY <1>1, <2>2 DEF ListInv
<1>3. CASE Next
  <2>1. ASSUME EndEvent
        PROVE  Listed(store.flash)' /\ Lists'
    BY <2>1, EndHeaderLists DEF EndEvent
  <2>2. ASSUME ListEvents \/ GetEventData
        PROVE  Listed(store.flash)' /\ Lists'
    BY <2>2, GetNewestLists DEF ListEvents, GetEventData
  <2>3. Listed(store.flash)' /\ Lists'
    BY <1>3, <2>1, <2>2, StartEventLists, StartAfterLastLists, StartPointerLists,
      StartFlushLists, EndPointerLists, EndFlushLists, WriteSampleLists, SampleWrittenLists,
      FormatLists, FormatFlushLists, ListNextLists, DataFirstLists, DataNextLists,
      TransferLists, PowerLossLists DEF Next
  <2> QED
    BY <1>1, <2>3 DEF ListInv
<1> QED
  BY <1>2, <1>3

\* So, as long as no format falls into an open event, it holds throughout.
LEMMA ListAlways ==
  ASSUME FormatWhileLogging = FALSE
  PROVE  Spec => []ListInv
<1>1. Init => ListInv
  BY InitLists
<1>2. ListInv /\ [Next]_vars => ListInv'
  BY FormatWhileLogging = FALSE, ListStep
<1> QED
  BY <1>1, <1>2, PTL DEF Spec

-----------------------------------------------------------------------------
(* The walk along the links                                                *)

\* Induction over the natural numbers, for a set of them.
LEMMA SetInduction ==
  ASSUME NEW S, 0 \in S, \A n \in Nat : n \in S => n + 1 \in S
  PROVE  Nat \subseteq S
<1> SUFFICES ASSUME Nat \ S # {} PROVE FALSE
  OBVIOUS
<1>1. PICK m \in Nat \ S : \A k \in Nat \ S : <<k, m>> \notin OpToRel(<, Nat)
  BY WFMin, NatLessThanWellFounded, Zenon
<1>2. \A k \in Nat \ S : ~(k < m)
  BY <1>1 DEF OpToRel
<1>3. m # 0 /\ m - 1 \in Nat /\ m - 1 < m
  OBVIOUS
<1>4. m - 1 \in S
  BY <1>2, <1>3
<1> QED
  BY <1>3, <1>4

\* From an address, the walk goes on to the event before.
Back(f, a) == IF EventAt(f, a) THEN HeaderAt(f, a).last ELSE a

\* The addresses of the first k steps of a walk within a set of addresses.
WalksTo(f, P, k, g) ==
  /\ g \in [0 .. k -> P]
  /\ g[0] = LastEvent(f)
  /\ \A i \in 1 .. k : g[i] = Back(f, g[i - 1])

\* There is such a walk of any length, if no link leaves the set.
LEMMA WalkExists ==
  ASSUME NEW f, NEW P, LastEvent(f) \in P, \A a \in P : Back(f, a) \in P, NEW k \in Nat
  PROVE  \E g : WalksTo(f, P, k, g)
<1> DEFINE S == {n \in Nat : \E g : WalksTo(f, P, n, g)}
<1>1. 0 \in S
  <2>1. WalksTo(f, P, 0, [i \in 0 .. 0 |-> LastEvent(f)])
    BY DEF WalksTo
  <2> QED
    BY <2>1
<1>2. ASSUME NEW n \in Nat, n \in S
      PROVE  n + 1 \in S
  <2>1. PICK g : WalksTo(f, P, n, g)
    BY <1>2
  <2>2. PICK next \in P : next = Back(f, g[n])
    BY <2>1 DEF WalksTo
  <2> DEFINE h == [i \in 0 .. n + 1 |-> IF i = n + 1 THEN next ELSE g[i]]
  <2>3. h \in [0 .. n + 1 -> P] /\ h[0] = LastEvent(f)
    BY <2>1 DEF WalksTo
  <2>4. ASSUME NEW i \in 1 .. n + 1
        PROVE  h[i] = Back(f, h[i - 1])
    <3>1. CASE i = n + 1
      BY <2>2, <3>1
    <3>2. CASE i # n + 1
      <4>1. i \in 1 .. n /\ h[i] = g[i] /\ h[i - 1] = g[i - 1]
        BY <3>2
      <4> QED
        BY <2>1, <4>1 DEF WalksTo
    <3> QED
      BY <3>1, <3>2
  <2>5. WalksTo(f, P, n + 1, h)
    BY <2>3, <2>4 DEF WalksTo
  <2> QED
    BY <2>5
<1>3. Nat \subseteq S
  <2> HIDE DEF S
  <2> QED
    BY <1>1, <1>2, SetInduction
<1> QED
  BY <1>3

\* What the walk meets is in every set that no link leaves.
LEMMA ChainWithin ==
  ASSUME NEW f, NEW P, LastEvent(f) \in P, \A a \in P : Back(f, a) \in P
  PROVE  \A a \in Chain(f) : a \in P /\ EventAt(f, a)
<1> DEFINE n == MaxSessions
           Met(h) == [i \in 0 .. n |->
                        IF i = 0 THEN LastEvent(f)
                        ELSE LET a == h[i - 1]
                             IN  IF EventAt(f, a) THEN HeaderAt(f, a).last ELSE a]
           met == CHOOSE h : h = Met(h)
<1>1. n \in Nat
  BY LayoutAssumption
<1>2. PICK g : WalksTo(f, P, n, g)
  BY <1>1, WalkExists
<1>3. g = Met(g)
  <2>1. g = [i \in 0 .. n |-> g[i]]
    BY <1>2 DEF WalksTo
  <2>2. ASSUME NEW i \in 0 .. n
        PROVE  g[i] = IF i = 0 THEN LastEvent(f)
                      ELSE LET a == g[i - 1]
                           IN  IF EventAt(f, a) THEN HeaderAt(f, a).last ELSE a
    <3>1. i = 0 \/ i \in 1 .. n
      OBVIOUS
    <3> QED
      BY <1>2, <3>1 DEF WalksTo, Back
  <2> QED
    BY <2>1, <2>2
<1>4. met = Met(met)
  <2> HIDE DEF Met
  <2> QED
    BY <1>3
<1>5. ASSUME NEW a \in Chain(f)
      PROVE  EventAt(f, a) /\ \E i \in 0 .. n : a = met[i]
  BY DEF Chain
<1> HIDE DEF met
<1>6. \A i \in Nat : i <= n => met[i] \in P
  <2> DEFINE T == {i \in Nat : i <= n => met[i] \in P}
  <2>1. 0 \in T
    <3>1. met[0] = LastEvent(f)
      BY <1>1, <1>4
    <3> QED
      BY <3>1
  <2>2. ASSUME NEW i \in Nat, i \in T
        PROVE  i + 1 \in T
    <3>1. CASE i + 1 <= n
      <4>1. met[i + 1] = Back(f, met[i])
        BY <1>1, <1>4, <3>1 DEF Back
      <4> QED
        BY <1>1, <2>2, <3>1, <4>1
    <3>2. CASE ~(i + 1 <= n)
      BY <3>2
    <3> QED
      BY <3>1, <3>2
  <2>3. Nat \subseteq T
    <3> HIDE DEF T
    <3> QED
      BY <2>1, <2>2, SetInduction
  <2> QED
    BY <2>3
<1> QED
  BY <1>1, <1>5, <1>6

\* Of an address where an event may start, the places of the model are those of
\* the proofs.
LEMMA Places ==
  ASSUME NEW f \in Image, Sound(f), NEW a \in EventStart
  PROVE  /\ EventAt(f, a) <=> Named(f, a)
         /\ HeaderAt(f, a) = Hdr(f, a)
         /\ RingCell(a, 0, DataStart) = At(a, 0)
         /\ \A i \in 0 .. RingSize - 1 : RingCell(a, i, DataStart) = At(a, i)
<1>1. 0 \in 0 .. RingSize - 1 /\ 1 \in 0 .. RingSize - 1 /\ a >= DataStart
  BY Sizes DEF RingSize, EventStart
<1>2. CellAt(f, a, 0) = f[At(a, 0)] /\ CellAt(f, a, 1) = f[At(a, 1)]
  BY <1>1, CellAtIs
<1>3. ASSUME NEW i \in 0 .. RingSize - 1
      PROVE  RingCell(a, i, DataStart) = At(a, i)
  <2>1. DataStart \in 0 .. StorageSize - 1 /\ a \in Buf!Reach(DataStart)
        /\ i \in 0 .. StorageSize - DataStart - 1
    BY Sizes DEF EventStart, RingSize, Buf!Reach
  <2>2. Buf!RingCell(a, i, DataStart) = At(a, i)
    BY <2>1, StorageAssumptions, Buf!PlaceIsRingCell DEF At
  <2> QED
    BY <2>2, SameStore
<1> QED
  BY <1>1, <1>2, <1>3 DEF EventAt, IsEvent, HeaderAt, Named, Hdr

\* The same of the samples of an event that has room on the ring.
LEMMA SamplePlaces ==
  ASSUME NEW f \in Image, NEW a \in EventStart, NEW h \in Fields, HeaderFits(h),
         Intact(f, a, h)
  PROVE  SamplesIntact(f, a, h)
<1> SUFFICES ASSUME NEW n \in 0 .. h.samples - 1, NEW i \in 1 .. SampleSize
             PROVE  CellAt(f, a, HeaderSize + n * SampleSize + i - 1)
                      = SampleCell(h.sess, n, i)
  BY DEF SamplesIntact
<1>1. PICK c : c = HeaderSize + n * SampleSize + i - 1
  OBVIOUS
<1>2. c \in Nat /\ c < TotalSize(h)
  <2>1. h.samples \in Nat
    BY DEF Fields
  <2> QED
    BY <1>1, <2>1, SampleInEvent
<1>3. c \in 0 .. RingSize - 1
  <2>1. PICK t \in Nat : t = TotalSize(h)
    BY TotalIs
  <2>2. t <= RingSize /\ RingSize \in Nat
    BY <2>1, Sizes DEF HeaderFits, RingSize
  <2> QED
    BY <1>2, <2>1, <2>2
<1>4. CellAt(f, a, c) = f[At(a, c)]
  BY <1>3, CellAtIs
<1> QED
  BY <1>1, <1>4 DEF Intact

-----------------------------------------------------------------------------
(* The event that was ended                                                *)

\* It is what the pointer names, as it was ended, and it has its samples.
Committed(f) ==
  /\ ev.start # 0 /\ Last(f) = ev.start /\ Named(f, ev.start)
  /\ Hdr(f, ev.start) = ev.header /\ Intact(f, ev.start, ev.header)

\* Where nothing is written.
Still == {"idle", "format", "list", "data_header", "data_sample", "start_read"}

Commits ==
  /\ pc = "end_header" => ev.start # 0
  /\ pc = "end_flush" => Committed(before)
  /\ pc \in Still /\ Finished /\ done # {} => Committed(store.flash) /\ Committed(View(store))

EndInv == ListInv /\ Commits

\* It stays so as long as the log is only looked at.
LEMMA LookedAt ==
  ASSUME LogInv, Commits, pc \in Still, ev' = ev, done' = done,
         pc' \notin {"end_header", "end_flush"},
         store' \in {store, Flush(store), GetPage(store, 0), Flush(GetPage(store, 0))}
  PROVE  Commits'
<1>1. store \in StoreType /\ Coherent(store)
  BY DEF LogInv, TypeOK, StoreTypeOK, CacheCoherent, Still
<1>2. /\ GetPage(store, 0) \in StoreType /\ Coherent(GetPage(store, 0))
      /\ View(GetPage(store, 0)) = View(store)
      /\ GetPage(store, 0).flash \in {store.flash, View(store)}
      /\ Flush(store).flash = View(store) /\ View(Flush(store)) = View(store)
  BY <1>1, CacheFacts
<1>3. /\ Flush(GetPage(store, 0)).flash = View(store)
      /\ View(Flush(GetPage(store, 0))) = View(store)
  BY <1>2, CacheFacts
<1>4. store'.flash \in {store.flash, View(store)} /\ View(store') = View(store)
  BY <1>2, <1>3
<1>5. PICK f, e : f = View(store) /\ e = store'.flash
  OBVIOUS
<1>6. Finished /\ done # {} => Committed(e) /\ Committed(f)
  BY <1>4, <1>5 DEF Commits
<1>7. Finished' /\ done' # {} => Committed(store.flash)' /\ Committed(View(store))'
  BY <1>4, <1>5, <1>6 DEF Committed, Finished
<1> QED
  BY <1>7 DEF Commits

\* A write that begins leaves nothing to say, but that of a final header.
LEMMA NotStill ==
  ASSUME pc' \notin Still \cup {"end_header", "end_flush"}
  PROVE  Commits'
BY DEF Commits

\* STOP, of an open event.
LEMMA EndHeaderCommits ==
  ASSUME LogInv, pc = "idle", ev.header.inProgress, EndHeader
  PROVE  Commits'
<1>1. ev.start # 0 /\ ev \in EventType
  BY Sizes DEF LogInv, TypeOK, Phase, InIdle, AtRest, Open, EventStart
<1>2. pc' = "halt_end_event" \/ (pc' = "end_header" /\ ev'.start = ev.start)
  BY <1>1 DEF EndHeader, EventType
<1> QED
  BY <1>1, <1>2 DEF Commits, Still

\* STOP: the pointer is stored.
LEMMA EndPointerCommits ==
  ASSUME EndInv, EndPointer
  PROVE  Commits'
<1>1. /\ LogInv /\ pc = "end_header" /\ XferDone /\ Ending /\ ev.start # 0
      /\ store \in StoreType /\ Coherent(store) /\ Sound(store.flash)
  BY DEF EndInv, Commits, ListInv, LogInv, TypeOK, StoreTypeOK, CacheCoherent, EndPointer,
    Lists
<1>2. PICK s, k, a, h : s = GetPage(store, 0) /\ a = ev.start /\ k = Link(s, a) /\ h = ev.header
  OBVIOUS
<1>3. /\ s \in StoreType /\ Coherent(s) /\ s.page = 0
      /\ View(s) = View(store) /\ s.flash \in {store.flash, View(store)}
  BY <1>1, <1>2, CacheFacts
<1>4. PICK f, g : f \in Image /\ f = View(s) /\ g = View(k)
  BY <1>3, CacheFacts DEF Image
<1>5. /\ Sound(f) /\ Sound(s.flash) /\ a \in EventStart
      /\ Named(f, a) /\ Hdr(f, a) = h /\ Intact(f, a, h)
  <2>1. /\ Sound(f) /\ Named(f, a) /\ Last(f) = a /\ Hdr(f, a) = h /\ Intact(f, a, h)
    BY <1>1, <1>2, <1>3, <1>4, ViewSound, EndingView
  <2> QED
    BY <1>1, <1>2, <1>3, <1>4, <2>1 DEF Sound
<1>6. Last(g) = a /\ \A x \in DataStart .. StorageSize - 1 : g[x] = f[x]
  BY <1>2, <1>3, <1>4, <1>5, Linked
<1>7. Hdr(f, a) \in Fields /\ TotalSize(Hdr(f, a)) <= RingSize
  BY <1>4, <1>5, FieldedFits DEF Named, Fielded, HeaderFits
<1>8. Named(g, a) /\ Hdr(g, a) = h /\ Intact(g, a, h)
  BY <1>5, <1>6, <1>7, SameRing
<1>9. before' = g /\ pc' = "end_flush" /\ ev' = ev
  BY <1>2, <1>4 DEF EndPointer, Link, BeginWrite, Begin
<1>10. Committed(before)'
  BY <1>1, <1>2, <1>6, <1>8, <1>9 DEF Committed
<1> QED
  BY <1>9, <1>10 DEF Commits, Still

\* STOP: the page with the pointer reaches the chip.
LEMMA EndFlushCommits ==
  ASSUME EndInv, EndFlush
  PROVE  Commits'
<1>1. /\ LogInv /\ ListInv /\ pc = "end_flush" /\ Committed(before) /\ InEndFlush /\ XferDone
      /\ store \in StoreType /\ View(store) = before /\ store.page = 0
      /\ store' = Flush(store) /\ pc' = "idle" /\ ev \in EventType
      /\ ev' = [ev EXCEPT !.written = TRUE]
  BY DEF EndInv, Commits, ListInv, LogInv, TypeOK, StoreTypeOK, EndFlush, Phase, InEndFlush
<1>2. store.dirty
  BY <1>1, DirtyByThen DEF LogInv, TypeOK
<1>3. Coherent(store)
  BY <1>1, <1>2 DEF Coherent, NoPage
<1>4. PICK f : f = before
  OBVIOUS
<1>5. store'.flash = f /\ View(store') = f
  BY <1>1, <1>3, <1>4, CacheFacts
<1>6. ev'.start = ev.start /\ ev'.header = ev.header
  BY <1>1 DEF EventType
<1>7. Committed(store.flash)' /\ Committed(View(store))'
  BY <1>1, <1>4, <1>5, <1>6 DEF Committed
<1> QED
  BY <1>1, <1>7 DEF Commits

\* A pass of the transfer loop, whoever it runs for.
LEMMA TransferCommits ==
  ASSUME EndInv, Transfer
  PROVE  Commits'
<1>1. /\ LogInv /\ TypeOK /\ StoreTypeOK /\ Buf!On /\ Buf!Moved /\ Phase /\ XferChunk
      /\ ~XferDone /\ Commits
      /\ pc' = pc /\ ev' = ev /\ walk' = walk /\ sess' = sess /\ done' = done
  BY DEF EndInv, ListInv, LogInv, TypeOK, Transfer, XferChunk
<1>2. before' = before /\ xfer'.dir = xfer.dir
  BY <1>1, ChunkKeeps
<1>3. CASE pc \in Still
  <2>1. pc \in {"list", "data_header", "data_sample", "start_read"} /\ xfer.dir = "read"
    BY <1>1, <1>3 DEF Still, Phase, InIdle, InFormat, InWalk, InStartRead, XferDone, NoXfer,
      Reading
  <2>2. CacheCoherent
    BY <1>1, <2>1 DEF LogInv
  <2>3. Buf!Moved' /\ store'.flash \in {store.flash, View(store)}
    BY <1>1, <2>2, ChunkFacts
  <2>4. View(store) = before /\ View(store') = before
    BY <1>1, <1>2, <2>1, <2>3, SameStore DEF Buf!Moved
  <2>5. PICK f, e : f = View(store) /\ e = store'.flash
    OBVIOUS
  <2>6. Finished /\ done # {} => Committed(e) /\ Committed(f)
    BY <1>1, <1>3, <2>3, <2>5 DEF Commits
  <2>7. Finished' /\ done' # {} => Committed(store.flash)' /\ Committed(View(store))'
    BY <1>1, <2>4, <2>5, <2>6 DEF Committed, Finished
  <2>8. pc' \notin {"end_header", "end_flush"}
    BY <1>1, <2>1
  <2> QED
    BY <2>7, <2>8 DEF Commits
<1>4. CASE pc \notin Still
  BY <1>1, <1>2, <1>4 DEF Commits, Committed
<1> QED
  BY <1>3, <1>4

\* Every step keeps the invariant.
LEMMA EndStep ==
  ASSUME FormatWhileLogging = FALSE, UnmatchedStop = FALSE, EndInv, [Next]_vars
  PROVE  EndInv'
<1>1. ListInv'
  BY FormatWhileLogging = FALSE, ListStep DEF EndInv
<1> SUFFICES Commits'
  BY <1>1 DEF EndInv
<1>2. ListInv /\ LogInv /\ Commits /\ TypeOK
  BY DEF EndInv, ListInv, LogInv
<1>3. CASE UNCHANGED vars
  BY <1>2, <1>3 DEF vars, Commits, Committed, Finished, Still
<1>4. CASE Next
  <2>1. CASE StartEvent
    <3>1. pc = "idle" /\ (pc' \in {"start_header", "start_read"} \cup Halted)
      BY <2>1 DEF StartEvent, WriteNewEvent, Halted
    <3>2. CASE pc' = "start_read"
      <4>1. /\ ev' = ev /\ done' = done
            /\ store' = Flush(GetPage(store, 0))
        BY <2>1, <3>2 DEF StartEvent, WriteNewEvent, BeginRead, Begin
      <4> QED
        BY <1>2, <3>1, <3>2, <4>1, LookedAt DEF Still
    <3>3. CASE pc' # "start_read"
      BY <3>1, <3>3, NotStill DEF Still, Halted
    <3> QED
      BY <3>2, <3>3
  <2>2. CASE StartAfterLast \/ StartPointer \/ (WriteSample /\ pc' = "sample")
    BY <2>2, NotStill DEF StartAfterLast, WriteNewEvent, StartPointer, Still
  <2>3. CASE StartFlush
    <3>1. pc' = "idle" /\ ev' = ev /\ ev.header.inProgress
      BY <1>2, <2>3 DEF StartFlush, LogInv, Phase, InStartFlush, Fresh
    <3> QED
      BY <3>1 DEF Commits, Finished
  <2>4. CASE EndEvent
    BY <1>2, <2>4, EndHeaderCommits DEF EndEvent
  <2>5. CASE EndPointer
    BY <2>5, EndPointerCommits
  <2>6. CASE EndFlush
    BY <2>6, EndFlushCommits
  <2>7. CASE WriteSample /\ pc' # "sample"
    BY <1>2, <2>7, EndHeaderCommits DEF WriteSample
  <2>8. CASE SampleWritten
    <3>1. /\ pc' = "idle" /\ ev.header.inProgress /\ ev.header \in Fields /\ ev \in EventType
          /\ ev' = [ev EXCEPT !.current = WrapAddr(ev.current + SampleSize, DataStart),
                              !.header.samples = @ + 1]
      BY <1>2, <2>8 DEF SampleWritten, LogInv, Phase, InSample, TypeOK, EventType, HeaderType
    <3>2. ev'.header.inProgress
      BY <3>1 DEF EventType, Fields
    <3> QED
      BY <3>1, <3>2 DEF Commits, Finished
  <2>9. CASE Format
    BY <1>2, <2>9, LookedAt DEF Format, Still
  <2>10. CASE FormatFlush
    BY <2>10 DEF FormatFlush, Commits
  <2>11. CASE ListEvents \/ GetEventData
    <3>1. /\ pc = "idle" /\ ev' = ev /\ done' = done
          /\ store' \in {GetPage(store, 0), Flush(GetPage(store, 0))}
          /\ pc' \in {"idle", "list", "data_header"} \cup Halted
      BY <2>11 DEF ListEvents, GetEventData, GetNewest, ReadEvent, NoMoreEvents, Return,
        BeginRead, Begin, Halted
    <3> QED
      BY <1>2, <3>1, LookedAt DEF Still, Halted
  <2>12. CASE ListNext
    <3>1. /\ pc = "list" /\ ev' = ev /\ done' = done
          /\ store' \in {store, Flush(store)}
          /\ pc' \in {"idle", "list"}
      BY <2>12 DEF ListNext, ReadEvent, NoMoreEvents, Return, BeginRead, Begin
    <3> QED
      BY <1>2, <3>1, LookedAt DEF Still
  <2>13. CASE DataFirst \/ DataNext
    <3>1. /\ pc \in {"data_header", "data_sample"} /\ ev' = ev /\ done' = done
          /\ store' \in {store, Flush(store)}
          /\ pc' \in {"idle", "data_sample"} \cup Halted
      BY <2>13 DEF DataFirst, DataNext, ReadSample, NoMoreEvents, Return, BeginRead, Begin,
        Halted
    <3> QED
      BY <1>2, <3>1, LookedAt DEF Still, Halted
  <2>14. CASE Transfer
    BY <2>14, TransferCommits
  <2>15. CASE PowerLoss
    BY <2>15 DEF PowerLoss, NoEvent, Commits, Finished
  <2> QED
    BY <1>1, <1>4, <2>1, <2>2, <2>3, <2>4, <2>5, <2>6, <2>7, <2>8, <2>9, <2>10, <2>11,
      <2>12, <2>13, <2>14, <2>15 DEF Next, EndInv
<1> QED
  BY <1>1, <1>3, <1>4 DEF EndInv

-----------------------------------------------------------------------------
(* Theorems about what is listed                                           *)

\* As long as no format falls into an open event, every event that can be listed
\* from the chip has all of its samples, at every instant and so after a reset at
\* that instant, however often the ring came round; but for a header at the place
\* of the next event, which StartPointer hides before it moves the pointer.
THEOREM LoggerListedIntact ==
  ASSUME FormatWhileLogging = FALSE
  PROVE  Spec => []ListedEventsIntact
<1>1. ASSUME ListInv
      PROVE  ListedEventsIntact
  <2>1. PICK f \in Image : f = store.flash
    BY <1>1 DEF ListInv, LogInv, TypeOK, StoreTypeOK, StoreType, Image
  <2>2. Sound(f) /\ TypeOK
    BY <1>1, <2>1 DEF ListInv, LogInv
  <2>3. PICK m \in 0 .. sess : Kept(m, f)
    BY <1>1, <2>1 DEF ListInv, Listed
  <2>4. PICK last \in {0} \cup EventStart : last = Last(f) /\ LastEvent(f) = last
    BY <2>2 DEF Sound, LastEvent, Last
  <2> DEFINE P == {a \in {0} \cup EventStart : LinkKept(m, f, a)}
  <2>5. last \in P
    <3>1. last # 0 => Newer(m, f, last)
      BY <2>3, <2>4 DEF Kept
    <3> QED
      BY <2>4, <3>1 DEF LinkKept
  <2>6. ASSUME NEW a \in P
        PROVE  Back(f, a) \in P
    <3>1. CASE EventAt(f, a)
      <4>1. a # 0 /\ a \in EventStart
        BY <2>6, <3>1, Sizes DEF EventAt
      <4>2. Named(f, a) /\ Back(f, a) = Hdr(f, a).last
        BY <2>2, <3>1, <4>1, Places DEF Back
      <4>3. Fielded(f, a) /\ Newer(m, f, a)
        BY <2>6, <4>1, <4>2 DEF Named, Fielded, LinkKept
      <4>4. Hdr(f, a).last \in {0} \cup EventStart
        BY <2>2, <4>1, <4>3, FieldedFits
      <4>5. LinkKept(m, f, Hdr(f, a).last)
        BY <2>3, <4>1, <4>3 DEF Kept
      <4> QED
        BY <4>2, <4>4, <4>5
    <3>2. CASE ~EventAt(f, a)
      BY <2>6, <3>2 DEF Back
    <3> QED
      BY <3>1, <3>2
  <2>7. ASSUME NEW a \in Chain(f)
        PROVE  \/ SamplesIntact(f, a, HeaderAt(f, a))
               \/ RingCell(a, 0, DataStart) = NextPlace(f) /\ a # LastEvent(f)
    <3>1. a \in P /\ EventAt(f, a)
      <4> HIDE DEF P
      <4> QED
        BY <2>4, <2>5, <2>6, <2>7, ChainWithin
    <3>2. a \in EventStart /\ a # 0
      BY <3>1, Sizes DEF EventAt
    <3>3. Named(f, a) /\ HeaderAt(f, a) = Hdr(f, a) /\ RingCell(a, 0, DataStart) = At(a, 0)
      BY <2>2, <3>1, <3>2, Places
    <3>4. Fielded(f, a) /\ Newer(m, f, a)
      BY <3>1, <3>2, <3>3 DEF Named, Fielded, LinkKept
    <3>5. Intact(f, a, Hdr(f, a)) \/ AtNext(f, a)
      BY <2>3, <3>2, <3>3, <3>4 DEF Kept
    <3>6. CASE Intact(f, a, Hdr(f, a))
      <4>1. Hdr(f, a) \in Fields /\ HeaderFits(Hdr(f, a))
        BY <2>2, <3>2, <3>4, FieldedFits
      <4> QED
        BY <3>2, <3>3, <3>6, <4>1, SamplePlaces
    <3>7. CASE AtNext(f, a)
      <4>1. /\ last # 0 /\ last \in EventStart /\ At(a, 0) = At(last, After(f))
            /\ At(a, 0) # At(last, 0) /\ After(f) \in HeaderSize .. RingSize
        BY <2>2, <2>4, <3>7, AfterIs DEF AtNext
      <4>2. After(f) # RingSize
        BY <4>1, AtRound
      <4>3. After(f) \in 0 .. RingSize - 1
        BY <4>1, <4>2, Sizes DEF RingSize
      <4>4. NextPlace(f) = RingCell(last, After(f), DataStart)
        BY <2>2, <2>4, <4>1, Places DEF NextPlace, After
      <4>5. RingCell(last, After(f), DataStart) = At(last, After(f))
        BY <2>2, <4>1, <4>3, Places
      <4> QED
        BY <2>4, <3>3, <4>1, <4>4, <4>5
    <3> QED
      BY <3>5, <3>6, <3>7
  <2> QED
    BY <2>1, <2>7 DEF ListedEventsIntact
<1>2. Spec => []ListInv
  BY FormatWhileLogging = FALSE, ListAlways
<1> QED
  BY <1>1, <1>2, PTL

\* As long as no format falls into an open event, what is read back as the n-th
\* sample of the newest event is the n-th one that was logged for it.
THEOREM LoggerSampleReadBack ==
  ASSUME FormatWhileLogging = FALSE
  PROVE  Spec => []SampleReadBack
<1>1. ASSUME ListInv
      PROVE  SampleReadBack
  <2> SUFFICES ASSUME pc = "data_sample", XferDone
               PROVE  xfer.cells = SampleCells(walk.cur.sess, walk.n)
    BY DEF SampleReadBack
  <2>1. PICK f, a, h, n : f = before /\ a = walk.addr /\ h = walk.cur /\ n = walk.n
    OBVIOUS
  <2>2. /\ StoreTypeOK /\ Buf!Moved /\ Sound(f) /\ f \in Image
        /\ a \in EventStart /\ h \in Fields /\ HeaderFits(h) /\ n \in Nat
    BY <1>1, <2>1, WalkDone DEF ListInv, Walking, StoreTypeOK, Image
  <2>3. /\ n < h.samples /\ Reading(SampleSource(a, n), SampleSize)
        /\ a = Last(f) /\ Named(f, a) /\ h = Hdr(f, a) /\ Listed(f)
    BY <1>1, <2>1 DEF ListInv, LogInv, Phase, InWalk, Lists
  <2>4. Intact(f, a, h)
    <3>1. PICK m : Kept(m, f)
      BY <2>3 DEF Listed
    <3>2. a # 0
      BY <2>2, Sizes DEF EventStart
    <3>3. Newer(m, f, a) /\ ~AtNext(f, a)
      BY <2>3, <3>1, <3>2 DEF Kept, AtNext
    <3> QED
      BY <2>2, <2>3, <3>1, <3>3 DEF Kept
  <2>5. xfer.moved = SampleSize
    BY <2>2, <2>3, DoneOnRing, Sizes DEF Reading
  <2>6. PICK q \in Nat : q = SampleSize * n /\ q = n * SampleSize
    BY <2>2, Sizes
  <2>7. HeaderSize + q + SampleSize <= RingSize
    <3>1. PICK t \in Nat : t = TotalSize(h)
      BY <2>2, TotalIs
    <3>2. HeaderSize + q + SampleSize <= t
      BY <2>2, <2>3, <2>6, <3>1, SampleInside
    <3> QED
      BY <2>2, <3>1, <3>2, Sizes DEF HeaderFits, RingSize
  <2>8. PICK t \in 0 .. RingSize : t = HeaderSize + q
    BY <2>7, Sizes DEF RingSize
  <2>9. PICK src \in EventStart : src = SampleSource(a, n) /\ At(src, 0) = At(a, t)
    <3>1. a \in DataStart .. StorageSize + HeaderSize /\ a + t <= StorageSize + RingSize - 1
      BY <2>2, <2>7, <2>8, Sizes DEF EventStart, RingSize
    <3>2. SampleSource(a, n) = WrapAddr(a + t, DataStart)
      <4>1. a + HeaderSize + q = a + t
        BY <2>2, <2>8, Sizes DEF EventStart
      <4> QED
        BY <2>6, <4>1 DEF SampleSource
    <3> QED
      BY <3>1, <3>2, AtWrapped
  <2>10. ASSUME NEW i \in 1 .. SampleSize
         PROVE  xfer.cells[i] = SampleCell(h.sess, n, i)
    <3>1. i - 1 \in 0 .. xfer.moved - 1 /\ (i - 1) + 1 = i
      BY <2>5, Sizes
    <3>2. xfer.cells[i] = f[At(src, i - 1)]
      BY <2>1, <2>2, <2>3, <2>9, <3>1 DEF Buf!Moved, Buf!Lands, At, Reading
    <3>3. At(src, i - 1) = At(a, t + (i - 1))
      <4>1. /\ i - 1 \in 0 .. RingSize /\ t + (i - 1) <= RingSize
            /\ a \in DataStart .. StorageSize + HeaderSize
            /\ src \in DataStart .. StorageSize + HeaderSize
        BY <2>2, <2>7, <2>8, Sizes DEF EventStart, RingSize
      <4> QED
        BY <2>9, <4>1, AtFurther
    <3>4. t + (i - 1) = HeaderSize + n * SampleSize + i - 1
      BY <2>6, <2>8, Sizes
    <3>5. n \in 0 .. h.samples - 1
      BY <2>2, <2>3 DEF Fields
    <3>6. f[At(a, HeaderSize + n * SampleSize + i - 1)] = SampleCell(h.sess, n, i)
      BY <2>4, <3>5 DEF Intact
    <3> QED
      BY <3>2, <3>3, <3>4, <3>6
  <2>11. xfer.cells \in Seq(LogCell) /\ Len(xfer.cells) = SampleSize
    BY <2>2, <2>3, <2>5 DEF StoreTypeOK, XferType, Reading
  <2>12. xfer.cells = [i \in 1 .. SampleSize |-> SampleCell(h.sess, n, i)]
    BY <2>10, <2>11
  <2> QED
    BY <2>1, <2>12 DEF SampleCells
<1>2. Spec => []ListInv
  BY FormatWhileLogging = FALSE, ListAlways
<1> QED
  BY <1>1, <1>2, PTL

\* As long as no format falls into an open event and no STOP comes without one, an
\* event is whole on the chip when logger_end_event returns, with the number of
\* samples that were written to it, and stays so until the next START or format.
THEOREM LoggerEndCommits ==
  ASSUME FormatWhileLogging = FALSE, UnmatchedStop = FALSE
  PROVE  Spec => []EndCommits
<1>1. ASSUME EndInv
      PROVE  EndCommits
  <2> SUFFICES ASSUME pc = "idle", Finished, done # {}
               PROVE  /\ LastEvent(store.flash) = ev.start
                      /\ EventAt(store.flash, ev.start)
                      /\ HeaderAt(store.flash, ev.start) = ev.header
                      /\ SamplesIntact(store.flash, ev.start, ev.header)
    BY DEF EndCommits
  <2>1. PICK f, a, h : f \in Image /\ f = store.flash /\ a = ev.start /\ h = ev.header
    BY <1>1 DEF EndInv, ListInv, LogInv, TypeOK, StoreTypeOK, StoreType, Image
  <2>2. Sound(f) /\ Committed(f)
    BY <1>1, <2>1 DEF EndInv, ListInv, LogInv, Commits, Still
  <2>3. /\ a # 0 /\ Last(f) = a /\ Named(f, a) /\ Hdr(f, a) = h /\ Intact(f, a, h)
    BY <2>1, <2>2 DEF Committed
  <2>4. a \in EventStart /\ LastEvent(f) = a
    BY <2>2, <2>3 DEF Sound, LastEvent, Last
  <2>5. EventAt(f, a) /\ HeaderAt(f, a) = h
    BY <2>1, <2>2, <2>3, <2>4, Places
  <2>6. h \in Fields /\ HeaderFits(h)
    BY <2>1, <2>2, <2>3, <2>4, FieldedFits DEF Named, Fielded
  <2>7. SamplesIntact(f, a, h)
    BY <2>1, <2>3, <2>4, <2>6, SamplePlaces
  <2> QED
    BY <2>1, <2>4, <2>5, <2>7
<1>2. Init => EndInv
  BY InitLists DEF EndInv, Commits, Init, NoEvent
<1>3. EndInv /\ [Next]_vars => EndInv'
  BY FormatWhileLogging = FALSE, UnmatchedStop = FALSE, EndStep
<1> QED
  BY <1>1, <1>2, <1>3, PTL DEF Spec

-----------------------------------------------------------------------------
(* The links to the events that were ended                                 *)

\* The events C are linked: each that does not start at l is named by an event of
\* C begun after it, and which starts at least a header's size further on.  j is
\* how far behind l an event of C starts; l itself is one turn of the ring away.
Joined(f, l, C, j) ==
  /\ C \subseteq EventStart /\ j \in [C -> 1 .. RingSize]
  /\ \A c \in C : At(c, 0) = At(l, j[c]) /\ Fielded(f, c)
  /\ \A c \in C \ {l} : \E y \in C :
       /\ Named(f, y) /\ Hdr(f, y).last = c /\ Hdr(f, c).sess < Hdr(f, y).sess
       /\ j[c] + HeaderSize <= j[y]

\* The fields of this event are where it was written.
Stands(f, d) == Fielded(f, d.start) /\ Hdr(f, d.start).sess = d.sess

\* From l, the links lead to every event of D whose fields were not written over.
Chained(D, f, l) ==
  D # {} =>
    /\ l \in EventStart
    /\ \E C, j : Joined(f, l, C, j) /\ \A d \in D : Stands(f, d) => d.start \in C

\* The events of D are among the first n.
Ended(D, n) == \A d \in D : d.start \in EventStart /\ d.sess \in Nat /\ d.sess <= n

\* Only the event at l is the whole turn away; the others leave room for a header.
LEMMA JoinedApart ==
  ASSUME NEW f, NEW l \in EventStart, NEW C, NEW j, Joined(f, l, C, j), NEW c \in C \ {l}
  PROVE  j[c] \in 1 .. RingSize - HeaderSize
BY Sizes DEF Joined, RingSize

\* The fields of such an event are not among what follows the event at l.
LEMMA JoinedBehind ==
  ASSUME NEW f, NEW l \in EventStart, NEW C, NEW j, Joined(f, l, C, j), NEW c \in C \ {l},
         NEW T \in HeaderSize .. RingSize,
         \A i \in HeaderSize .. T - 1 : f[At(l, i)].kind # "fields"
  PROVE  /\ At(c, 1) = At(l, j[c] + 1) /\ At(c, 0) = At(l, j[c])
         /\ j[c] + 1 >= T
<1>1. /\ RingSize \in Nat /\ RingSize > 5 /\ HeaderSize = 2 /\ 1 \in 0 .. RingSize
      /\ j[c] \in 1 .. RingSize - 2
  BY JoinedApart, Sizes DEF RingSize
<1>2. c \in EventStart /\ At(c, 0) = At(l, j[c]) /\ Fielded(f, c)
  BY DEF Joined
<1>3. At(c, 1) = At(l, j[c] + 1)
  <2>1. j[c] \in 0 .. RingSize /\ j[c] + 1 <= RingSize
    BY <1>1
  <2> QED
    BY <1>1, <1>2, <2>1, FurtherOn
<1>4. ~(j[c] + 1 \in HeaderSize .. T - 1)
  BY <1>2, <1>3 DEF Fielded
<1> QED
  BY <1>1, <1>2, <1>3, <1>4

\* What is written behind the event at l, over cells that are no fields of events
\* of D, cuts no link to one whose fields are left.
LEMMA SpanChained ==
  ASSUME NEW D, NEW f \in Image, NEW g \in Image, NEW l \in EventStart, Chained(D, f, l),
         NEW T \in HeaderSize .. RingSize,
         \A i \in HeaderSize .. T - 1 : f[At(l, i)].kind # "fields",
         NEW a \in DataStart .. StorageSize + HeaderSize, At(a, 0) = At(l, T),
         NEW k \in Nat, T + k <= RingSize + HeaderSize, NEW cells,
         Wrote(f, g, a, cells, k),
         \A i \in 1 .. k : cells[i].kind = "fields" =>
           \A d \in D : d.sess # cells[i].header.sess,
         \A d \in D : d.start \in EventStart,
         Fielded(g, l)
  PROVE  Chained(D, g, l)
<1> SUFFICES ASSUME D # {}
             PROVE  \E C, j : Joined(g, l, C, j) /\ \A d \in D : Stands(g, d) => d.start \in C
  BY DEF Chained
<1>1. /\ RingSize \in Nat /\ RingSize > 5 /\ HeaderSize = 2 /\ 1 \in 0 .. RingSize
      /\ 0 \in 0 .. RingSize /\ T \in 2 .. RingSize
      /\ 0 \in 0 .. RingSize - 1 /\ 1 \in 0 .. RingSize - 1
  BY Sizes DEF RingSize
<1>2. PICK C, j : Joined(f, l, C, j) /\ \A d \in D : Stands(f, d) => d.start \in C
  BY DEF Chained
<1>3. ASSUME NEW i \in 0 .. k - 1
      PROVE  At(a, i) = IF T + i <= RingSize THEN At(l, T + i) ELSE At(l, T + i - RingSize)
  <2>1. i \in 0 .. RingSize /\ l \in DataStart .. StorageSize + HeaderSize /\ T \in 0 .. RingSize
    BY <1>1, Sizes DEF EventStart
  <2> QED
    BY <2>1, AtFurther
<1>4. ASSUME NEW x \in 0 .. RingSize - 1, x >= T + k, T + k <= RingSize
      PROVE  g[At(l, x)] = f[At(l, x)]
  <2>1. ASSUME NEW i \in 0 .. k - 1
        PROVE  At(a, i) # At(l, x)
    <3>1. T + i \in 0 .. RingSize - 1 /\ T + i # x /\ T + i <= RingSize
      BY <1>1, <1>4
    <3>2. At(a, i) = At(l, T + i)
      BY <1>3, <3>1
    <3> QED
      BY <3>1, <3>2, AllApart
  <2>2. At(l, x) \in Addr
    <3>1. x \in 0 .. RingSize
      BY <1>1
    <3> QED
      BY <3>1, Lands
  <2> QED
    BY <2>1, <2>2 DEF Wrote
<1>5. ASSUME T + k <= RingSize, NEW x \in {0, 1}
      PROVE  g[At(l, x)] = f[At(l, x)]
  <2>1. ASSUME NEW i \in 0 .. k - 1
        PROVE  At(a, i) # At(l, x)
    <3>1. T + i \in 0 .. RingSize - 1 /\ T + i # x
      BY <1>1, <1>5
    <3>2. At(a, i) = At(l, T + i) /\ x \in 0 .. RingSize - 1
      BY <1>1, <1>3, <3>1
    <3> QED
      BY <3>1, <3>2, AllApart
  <2>2. At(l, x) \in Addr
    <3>1. x \in 0 .. RingSize
      BY <1>1
    <3> QED
      BY <3>1, Lands
  <2> QED
    BY <2>1, <2>2 DEF Wrote
<1> DEFINE E == {c \in C : c = l \/ j[c] + 1 >= T + k}
           h == [c \in E |-> j[c]]
<1>6. ASSUME NEW c \in E, c # l
      PROVE  /\ T + k <= RingSize - 1
             /\ Fielded(g, c) /\ Hdr(g, c) = Hdr(f, c)
             /\ j[c] >= T + k => (Named(f, c) => Named(g, c))
  <2>0. c \in C \ {l}
    BY <1>6
  <2>1. /\ At(c, 1) = At(l, j[c] + 1) /\ At(c, 0) = At(l, j[c])
        /\ j[c] \in 1 .. RingSize - 2
    BY <1>1, <1>2, <2>0, JoinedApart, JoinedBehind
  <2>2. T + k <= RingSize - 1 /\ j[c] + 1 \in 0 .. RingSize - 1 /\ j[c] \in 0 .. RingSize - 1
        /\ j[c] + 1 >= T + k
    BY <1>1, <1>6, <2>1
  <2>3. g[At(c, 1)] = f[At(c, 1)]
    BY <1>1, <1>4, <2>1, <2>2
  <2>4. j[c] >= T + k => g[At(c, 0)] = f[At(c, 0)]
    BY <1>1, <1>4, <2>1, <2>2
  <2> QED
    BY <1>2, <1>6, <2>2, <2>3, <2>4 DEF Joined, Fielded, Hdr, Named
<1>7. T + k <= RingSize => (Named(f, l) => Named(g, l)) /\ Hdr(g, l) = Hdr(f, l)
  BY <1>5 DEF Named, Hdr
<1>8. Joined(g, l, E, h)
  <2>1. E \subseteq EventStart /\ h \in [E -> 1 .. RingSize]
    BY <1>2 DEF Joined
  <2>2. ASSUME NEW c \in E
        PROVE  At(c, 0) = At(l, h[c]) /\ Fielded(g, c)
    BY <1>2, <1>6, <2>2 DEF Joined
  <2>3. ASSUME NEW c \in E \ {l}
        PROVE  \E y \in E : /\ Named(g, y) /\ Hdr(g, y).last = c
                            /\ Hdr(g, c).sess < Hdr(g, y).sess
                            /\ h[c] + HeaderSize <= h[y]
    <3>1. PICK y \in C : /\ Named(f, y) /\ Hdr(f, y).last = c /\ Hdr(f, c).sess < Hdr(f, y).sess
                         /\ j[c] + HeaderSize <= j[y]
      BY <1>2, <2>3 DEF Joined
    <3>2. /\ T + k <= RingSize - 1 /\ Hdr(g, c) = Hdr(f, c) /\ j[c] + 1 >= T + k
          /\ j[c] \in 1 .. RingSize /\ j[y] \in 1 .. RingSize
      BY <1>2, <1>6, <2>3 DEF Joined
    <3>3. y \in E /\ j[y] >= T + k
      BY <1>1, <3>1, <3>2
    <3>4. Named(g, y) /\ Hdr(g, y) = Hdr(f, y)
      <4>1. CASE y = l
        BY <1>1, <1>7, <3>1, <3>2, <4>1
      <4>2. CASE y # l
        BY <1>6, <3>1, <3>3, <4>2
      <4> QED
        BY <4>1, <4>2
    <3>5. h[c] = j[c] /\ h[y] = j[y]
      BY <2>3, <3>3
    <3> QED
      BY <3>1, <3>2, <3>3, <3>4, <3>5
  <2> QED
    BY <2>1, <2>2, <2>3 DEF Joined
<1>9. ASSUME NEW d \in D, Stands(g, d)
      PROVE  d.start \in E
  <2>1. PICK c \in EventStart : c = d.start
    OBVIOUS
  <2>2. Fielded(g, c) /\ Hdr(g, c).sess = d.sess
    BY <1>9, <2>1 DEF Stands
  <2>3. ASSUME NEW i \in 0 .. k - 1
        PROVE  At(a, i) # At(c, 1)
    <3>1. i + 1 \in 1 .. k
      OBVIOUS
    <3> QED
      BY <2>2, <3>1 DEF Wrote, Fielded, Hdr
  <2>4. g[At(c, 1)] = f[At(c, 1)]
    BY <1>1, <2>3, Lands DEF Wrote
  <2>5. c \in C
    BY <1>2, <2>1, <2>2, <2>4 DEF Stands, Fielded, Hdr
  <2>6. CASE c # l
    <3>1. /\ At(c, 1) = At(l, j[c] + 1) /\ j[c] \in 1 .. RingSize - 2 /\ j[c] + 1 >= T
      BY <1>1, <1>2, <2>5, <2>6, JoinedApart, JoinedBehind
    <3>2. ASSUME ~(j[c] + 1 >= T + k)
          PROVE  FALSE
      <4>1. PICK i \in 0 .. k - 1 : j[c] + 1 = T + i
        <5>1. j[c] + 1 - T \in 0 .. k - 1 /\ j[c] + 1 = T + (j[c] + 1 - T)
          BY <1>1, <3>1, <3>2
        <5> QED
          BY <5>1
      <4>2. At(a, i) = At(c, 1)
        BY <1>1, <1>3, <3>1, <4>1
      <4> QED
        BY <2>3, <4>2
    <3> QED
      BY <2>1, <2>5, <3>2
  <2> QED
    BY <2>1, <2>5, <2>6
<1> QED
  BY <1>8, <1>9

\* When the header of a new event stands behind the event at l and links to it, the
\* links lead on from the new one.
LEMMA NewChained ==
  ASSUME NEW D, NEW f \in Image, NEW l \in EventStart, Chained(D, f, l),
         NEW T \in HeaderSize .. RingSize,
         \A i \in HeaderSize .. T - 1 : f[At(l, i)].kind # "fields",
         NEW a \in EventStart, At(a, 0) = At(l, T),
         Named(f, a), Hdr(f, a).last = l, T < RingSize => Hdr(f, l).sess < Hdr(f, a).sess,
         \A d \in D : d.start \in EventStart /\ d.sess # Hdr(f, a).sess
  PROVE  Chained(D, f, a)
<1> SUFFICES ASSUME D # {}
             PROVE  \E C, j : Joined(f, a, C, j) /\ \A d \in D : Stands(f, d) => d.start \in C
  BY DEF Chained
<1>1. /\ RingSize \in Nat /\ RingSize > 5 /\ HeaderSize = 2 /\ 1 \in 0 .. RingSize
      /\ 0 \in 0 .. RingSize /\ T \in 2 .. RingSize /\ T \in 0 .. RingSize
      /\ 0 \in 0 .. RingSize - 1 /\ 1 \in 0 .. RingSize - 1
  BY Sizes DEF RingSize
<1>2. PICK C, j : Joined(f, l, C, j) /\ \A d \in D : Stands(f, d) => d.start \in C
  BY DEF Chained
<1> DEFINE E == {c \in C : IF c = l THEN T < RingSize ELSE j[c] > T} \cup {a}
           h == [c \in E |-> IF c = a THEN RingSize ELSE j[c] - T]
<1>3. At(a, 1) = At(l, 1) <=> T = RingSize
  <2>1. At(a, 1) = IF T + 1 <= RingSize THEN At(l, T + 1) ELSE At(l, T + 1 - RingSize)
    BY <1>1, FurtherOn
  <2>2. CASE T = RingSize
    BY <1>1, <2>1, <2>2
  <2>3. CASE T = RingSize - 1
    <3>1. At(a, 1) = At(l, 0)
      BY <1>1, <2>1, <2>3, AtRound
    <3> QED
      BY <1>1, <2>3, <3>1, AllApart
  <2>4. CASE T < RingSize - 1
    <3>1. T + 1 \in 0 .. RingSize - 1 /\ T + 1 # 1 /\ At(a, 1) = At(l, T + 1)
      BY <1>1, <2>1, <2>4
    <3> QED
      BY <1>1, <2>4, <3>1, AllApart
  <2> QED
    BY <1>1, <2>2, <2>3, <2>4
<1>4. T < RingSize => l # a
  <2>1. T < RingSize => At(a, 0) # At(l, 0)
    BY <1>1, AllApart
  <2> QED
    BY <2>1
<1>5. ASSUME NEW c \in C, c # l
      PROVE  /\ j[c] \in 1 .. RingSize - 2 /\ j[c] + 1 >= T
             /\ At(c, 1) = At(l, j[c] + 1) /\ At(c, 0) = At(l, j[c])
  BY <1>1, <1>2, <1>5, JoinedApart, JoinedBehind
<1>6. ASSUME NEW c \in E, c # a
      PROVE  /\ c \in C /\ T < RingSize /\ j[c] \in T + 1 .. RingSize
             /\ h[c] = j[c] - T /\ At(c, 0) = At(a, h[c])
  <2>1. c \in C /\ T < RingSize /\ j[c] \in T + 1 .. RingSize
    <3>1. c \in C /\ j[c] \in 1 .. RingSize
      BY <1>2, <1>6 DEF Joined
    <3>2. CASE c = l
      <4>1. T < RingSize
        BY <1>6, <3>2
      <4>2. At(l, j[l]) = At(l, 0)
        BY <1>2, <3>1, <3>2 DEF Joined
      <4>3. j[l] = RingSize
        <5>1. CASE j[l] \in 0 .. RingSize - 1
          BY <1>1, <3>1, <3>2, <4>2, <5>1, AllApart
        <5> QED
          BY <3>1, <3>2, <5>1, <1>1
      <4> QED
        BY <1>1, <3>1, <3>2, <4>1, <4>3
    <3>3. CASE c # l
      BY <1>1, <1>5, <1>6, <3>1, <3>3
    <3> QED
      BY <3>2, <3>3
  <2>2. h[c] = j[c] - T
    BY <1>6
  <2>3. j[c] - T \in 0 .. RingSize /\ T + (j[c] - T) = j[c] /\ j[c] <= RingSize
    BY <1>1, <2>1
  <2>4. At(a, j[c] - T) = At(l, j[c])
    BY <1>1, <2>3, FurtherOn
  <2> QED
    BY <1>2, <2>1, <2>2, <2>4 DEF Joined
<1>7. h[a] = RingSize /\ a \in E
  OBVIOUS
<1>8. Joined(f, a, E, h)
  <2>1. E \subseteq EventStart
    BY <1>2 DEF Joined
  <2>2. h \in [E -> 1 .. RingSize]
    <3>1. ASSUME NEW c \in E
          PROVE  h[c] \in 1 .. RingSize
      <4>1. CASE c = a
        BY <1>1, <1>7, <4>1
      <4>2. CASE c # a
        <5>1. j[c] \in T + 1 .. RingSize /\ h[c] = j[c] - T
          BY <1>6, <4>2
        <5> QED
          BY <1>1, <5>1
      <4> QED
        BY <4>1, <4>2
    <3> QED
      BY <3>1
  <2>3. ASSUME NEW c \in E
        PROVE  At(c, 0) = At(a, h[c]) /\ Fielded(f, c)
    <3>1. CASE c = a
      BY <1>7, <3>1, AtRound DEF Named, Fielded
    <3>2. CASE c # a
      BY <1>2, <1>6, <3>2 DEF Joined
    <3> QED
      BY <3>1, <3>2
  <2>4. ASSUME NEW c \in E \ {a}
        PROVE  \E y \in E : /\ Named(f, y) /\ Hdr(f, y).last = c
                            /\ Hdr(f, c).sess < Hdr(f, y).sess
                            /\ h[c] + HeaderSize <= h[y]
    <3>1. /\ c \in C /\ T < RingSize /\ j[c] \in T + 1 .. RingSize /\ h[c] = j[c] - T
      BY <1>6
    <3>2. CASE c = l
      <4>1. h[c] + HeaderSize <= h[a]
        BY <1>1, <1>7, <3>1
      <4> QED
        BY <1>7, <3>1, <3>2, <4>1
    <3>3. CASE c # l
      <4>1. PICK y \in C : /\ Named(f, y) /\ Hdr(f, y).last = c /\ Hdr(f, c).sess < Hdr(f, y).sess
                           /\ j[c] + HeaderSize <= j[y]
        BY <1>2, <3>1, <3>3 DEF Joined
      <4>2. j[y] \in 1 .. RingSize /\ j[y] > T
        BY <1>1, <1>2, <3>1, <4>1 DEF Joined
      <4>3. y \in E
        BY <3>1, <4>2
      <4>4. CASE y = a
        BY <1>1, <1>7, <3>1, <4>1, <4>2, <4>3, <4>4
      <4>5. CASE y # a
        <5>1. h[y] = j[y] - T
          BY <1>6, <4>3, <4>5
        <5>2. h[c] + HeaderSize <= h[y]
          BY <1>1, <3>1, <4>1, <4>2, <5>1
        <5> QED
          BY <4>1, <4>3, <5>2
      <4> QED
        BY <4>4, <4>5
    <3> QED
      BY <3>2, <3>3
  <2> QED
    BY <2>1, <2>2, <2>3, <2>4 DEF Joined
<1>9. ASSUME NEW d \in D, Stands(f, d)
      PROVE  d.start \in E
  <2>1. PICK c \in EventStart : c = d.start
    OBVIOUS
  <2>2. c \in C /\ Fielded(f, c) /\ Hdr(f, c).sess = d.sess /\ d.sess # Hdr(f, a).sess
    BY <1>2, <1>9, <2>1 DEF Stands
  <2>3. At(c, 1) # At(a, 1)
    BY <2>2 DEF Hdr
  <2>4. CASE c = l
    BY <1>1, <1>3, <2>1, <2>2, <2>3, <2>4
  <2>5. CASE c # l
    <3>1. /\ j[c] \in 1 .. RingSize - 2 /\ j[c] + 1 >= T
          /\ At(c, 1) = At(l, j[c] + 1) /\ At(c, 0) = At(l, j[c])
      BY <1>5, <2>2, <2>5
    <3>2. j[c] + 1 # T
      BY <2>2, <3>1 DEF Named, Fielded, Sentinel
    <3>3. j[c] # T
      <4>1. ASSUME j[c] = T
            PROVE  FALSE
        <5>1. At(c, 0) = At(a, 0)
          BY <3>1, <4>1
        <5> QED
          BY <1>1, <2>3, <5>1, SameCells
      <4> QED
        BY <4>1
    <3>4. j[c] > T
      BY <1>1, <3>1, <3>2, <3>3
    <3> QED
      BY <2>1, <2>2, <2>5, <3>4
  <2> QED
    BY <2>4, <2>5
<1> QED
  BY <1>8, <1>9

\* Where headers keep their places, their links and their events, nothing is cut.
LEMMA SameChained ==
  ASSUME NEW D, NEW f, NEW g, NEW l, Chained(D, f, l),
         \A d \in D : d.start \in EventStart,
         \A x \in EventStart :
           /\ Fielded(g, x) <=> Fielded(f, x)
           /\ Named(f, x) => Named(g, x)
           /\ Fielded(f, x) => /\ Hdr(g, x).sess = Hdr(f, x).sess
                               /\ Hdr(g, x).last = Hdr(f, x).last
  PROVE  Chained(D, g, l)
<1> SUFFICES ASSUME D # {}
             PROVE  \E C, j : Joined(g, l, C, j) /\ \A d \in D : Stands(g, d) => d.start \in C
  BY DEF Chained
<1>1. PICK C, j : Joined(f, l, C, j) /\ \A d \in D : Stands(f, d) => d.start \in C
  BY DEF Chained
<1>2. Joined(g, l, C, j)
  <2>1. ASSUME NEW c \in C \ {l}
        PROVE  \E y \in C : /\ Named(g, y) /\ Hdr(g, y).last = c
                            /\ Hdr(g, c).sess < Hdr(g, y).sess
                            /\ j[c] + HeaderSize <= j[y]
    <3>1. PICK y \in C : /\ Named(f, y) /\ Hdr(f, y).last = c /\ Hdr(f, c).sess < Hdr(f, y).sess
                         /\ j[c] + HeaderSize <= j[y]
      BY <1>1 DEF Joined
    <3>2. c \in EventStart /\ y \in EventStart /\ Fielded(f, c) /\ Fielded(f, y)
      BY <1>1, <3>1 DEF Joined, Named, Fielded
    <3> QED
      BY <3>1, <3>2
  <2> QED
    BY <1>1, <2>1 DEF Joined
<1>3. \A d \in D : Stands(g, d) => d.start \in C
  BY <1>1 DEF Stands
<1> QED
  BY <1>2, <1>3

\* So it is when only cells below the ring are written.
LEMMA RingChained ==
  ASSUME NEW D, NEW f, NEW g, NEW l, Chained(D, f, l),
         \A d \in D : d.start \in EventStart,
         \A y \in DataStart .. StorageSize - 1 : g[y] = f[y]
  PROVE  Chained(D, g, l)
BY SameRing, SameChained

\* The event at l, once ended, is linked.
LEMMA AddChained ==
  ASSUME NEW D, NEW f, NEW l \in EventStart, Chained(D, f, l), Fielded(f, l),
         NEW e, e.start = l
  PROVE  Chained(D \cup {e}, f, l)
<1>1. PICK C, j : Joined(f, l, C, j) /\ \A d \in D : Stands(f, d) => d.start \in C
  <2>1. CASE D = {}
    <3>1. Joined(f, l, {}, [c \in {} |-> 1])
      BY DEF Joined
    <3> QED
      BY <2>1, <3>1
  <2>2. CASE D # {}
    BY <2>2 DEF Chained
  <2> QED
    BY <2>1, <2>2
<1> DEFINE E == C \cup {l}
           h == [c \in E |-> IF c = l THEN RingSize ELSE j[c]]
<1>2. RingSize \in 1 .. RingSize /\ HeaderSize = 2
  BY Sizes DEF RingSize
<1>3. Joined(f, l, E, h)
  <2>1. E \subseteq EventStart /\ h \in [E -> 1 .. RingSize]
    BY <1>1, <1>2 DEF Joined
  <2>2. \A c \in E : At(c, 0) = At(l, h[c]) /\ Fielded(f, c)
    BY <1>1, AtRound DEF Joined
  <2>3. ASSUME NEW c \in E \ {l}
        PROVE  \E y \in E : /\ Named(f, y) /\ Hdr(f, y).last = c
                            /\ Hdr(f, c).sess < Hdr(f, y).sess
                            /\ h[c] + HeaderSize <= h[y]
    <3>1. PICK y \in C : /\ Named(f, y) /\ Hdr(f, y).last = c /\ Hdr(f, c).sess < Hdr(f, y).sess
                         /\ j[c] + HeaderSize <= j[y]
      BY <1>1 DEF Joined
    <3>2. h[c] = j[c] /\ j[y] <= h[y] /\ j[y] \in 1 .. RingSize /\ h[y] \in 1 .. RingSize
          /\ j[c] \in 1 .. RingSize
      BY <1>1, <2>1, <2>3, <3>1 DEF Joined
    <3> QED
      BY <1>2, <3>1, <3>2
  <2> QED
    BY <2>1, <2>2, <2>3 DEF Joined
<1>4. \A d \in D \cup {e} : Stands(f, d) => d.start \in E
  BY <1>1
<1> QED
  BY <1>3, <1>4 DEF Chained
-----------------------------------------------------------------------------
(* The links, during a transfer                                            *)

LinkedTo(f) == Chained(done, f, Last(f))

\* What the links lead to in what is read, where nothing is written, and in what
\* was there when the write under way began; when the pointer to a new event is
\* written, they lead on from it too.
Links ==
  /\ pc \in Still => LinkedTo(View(store))
  /\ pc \in {"sample", "start_header", "start_flush", "end_header", "end_flush"} =>
       LinkedTo(before)
  /\ pc = "start_flush" => Chained(done, before, ev.start)
  /\ pc = "start_header" => Ended(done, sess - 1)
  /\ Ended(done, sess)

LinkInv == EndInv /\ LinkedTo(store.flash) /\ Links

\* The header of a new event, or a part of it, is on the storage.
LEMMA BegunLinks ==
  ASSUME LinkInv, pc = "start_header"
  PROVE  /\ LinkedTo(View(store))
         /\ XferDone => Chained(done, View(store), ev.start)
<1> SUFFICES ASSUME done # {}
             PROVE  /\ LinkedTo(View(store))
                    /\ XferDone => Chained(done, View(store), ev.start)
  BY DEF LinkedTo, Chained
<1>0. LogInv /\ Begun /\ LinkedTo(before) /\ Ended(done, sess - 1)
  BY DEF LinkInv, EndInv, ListInv, Lists, Links
<1>1. PICK f \in Image, g \in Image, h \in Fields, n \in Nat :
        f = before /\ g = View(store) /\ h = ev.header /\ n = sess
  BY <1>0, Images DEF LogInv, TypeOK, EventType, HeaderType
<1>2. /\ Sound(f) /\ Fresh /\ Writing(ev.start, HeaderCells(h), DataStart)
      /\ StoreTypeOK /\ Buf!Moved /\ ev.start \in EventStart
  BY <1>0, <1>1 DEF LogInv, TypeOK, Phase, InStartHeader, Fresh
<1>3. PICK l \in EventStart, a \in EventStart :
        /\ l = Last(f) /\ a = ev.start /\ Chained(done, f, l) /\ l # 0
  BY <1>0, <1>1, <1>2, Sizes DEF LinkedTo, Chained, EventStart
<1>4. /\ h.samples = 0 /\ h.sess = n /\ h.last = l /\ Old(n - 1, f)
      /\ At(a, 0) = At(l, After(f))
      /\ \E m \in 0 .. n - 1 : Kept(m, f)
  BY <1>0, <1>1, <1>2, <1>3 DEF Begun, Fresh
<1>5. PICK T \in HeaderSize .. RingSize : T = After(f)
  BY <1>2, <1>3, AfterIs
<1>6. PICK k \in 0 .. HeaderSize : k = xfer.moved
  BY <1>1, <1>2, HeaderCellsAre, Progress DEF Writing
<1>7. Wrote(f, g, a, HeaderCells(h), k)
  BY <1>1, <1>2, <1>3, <1>6, WrittenOnRing DEF Writing
<1>8. PICK m \in 0 .. n - 1 : Kept(m, f)
  BY <1>4
<1>9. Kept(m, g)
  <2>1. m \in Nat /\ h.sess > m
    BY <1>4, <1>8
  <2> QED
    BY <1>2, <1>3, <1>4, <1>7, <1>8, <2>1, NewHeaderKept
<1>10. \A i \in HeaderSize .. T - 1 : f[At(l, i)].kind # "fields"
  BY <1>2, <1>3, <1>5, <1>8, NewestCells
<1>11. /\ RingSize \in Nat /\ HeaderSize = 2 /\ RingSize > 5 /\ k \in Nat
       /\ a \in DataStart .. StorageSize + HeaderSize /\ T + k <= RingSize + HeaderSize
       /\ T \in 2 .. RingSize /\ k <= 2
  BY <1>3, Sizes DEF RingSize, EventStart
<1>12. /\ \A x \in 0 .. DataStart - 1 : g[x] = f[x]
       /\ Last(g) = l
  <2>1. k \in 0 .. RingSize
    BY <1>11
  <2>2. \A x \in 0 .. DataStart - 1 : g[x] = f[x]
    BY <1>7, <1>11, <2>1, WroteBehind
  <2> QED
    BY <1>3, <2>2, Sizes DEF Last
<1>13. Fielded(g, l)
  BY <1>3, <1>9, <1>12 DEF Kept, Newer
<1>14. \A d \in done : d.start \in EventStart /\ d.sess \in Nat /\ d.sess <= n - 1 /\ d.sess # n
  BY <1>0, <1>1 DEF Ended
<1>15. \A i \in 1 .. k : HeaderCells(h)[i].kind = "fields" =>
         \A d \in done : d.sess # HeaderCells(h)[i].header.sess
  <2>1. \A i \in 1 .. k : i = 1 \/ i = 2
    BY <1>11
  <2>2. Sentinel.kind # "fields" /\ FieldsCell(h).header = h
    BY DEF Sentinel, FieldsCell
  <2> QED
    BY <1>4, <1>14, <2>1, <2>2, HeaderCellsAre
<1>16. Chained(done, g, l)
  <2>1. At(a, 0) = At(l, T) /\ \A d \in done : d.start \in EventStart
    BY <1>4, <1>5, <1>14
  <2> QED
    BY <1>3, <1>7, <1>10, <1>11, <1>13, <1>15, <2>1, SpanChained
<1>17. ASSUME k = HeaderSize
       PROVE  Chained(done, g, a)
  <2>1. 0 \in 0 .. k - 1 /\ 1 \in 0 .. k - 1
    BY <1>11, <1>17
  <2>2. g[At(a, 0)] = Sentinel /\ g[At(a, 1)] = FieldsCell(h)
    BY <1>7, <2>1, HeaderCellsAre, SMTT(30) DEF Wrote
  <2>3. Named(g, a) /\ Hdr(g, a) = h
    BY <2>2 DEF Named, Hdr, FieldsCell
  <2>4. ASSUME NEW x \in 1 .. T - 1, x # 1 \/ T < RingSize
        PROVE  g[At(l, x)] = f[At(l, x)]
    <3>1. x \in 0 .. RingSize - 1 /\ x \in 0 .. RingSize
      BY <1>11
    <3>2. ASSUME NEW i \in 0 .. k - 1
          PROVE  At(a, i) # At(l, x)
      <4>1. /\ i \in 0 .. RingSize /\ T \in 0 .. RingSize
            /\ At(a, 0) = At(l, T)
        BY <1>4, <1>5, <1>11
      <4>2. At(a, i) = IF T + i <= RingSize THEN At(l, T + i) ELSE At(l, T + i - RingSize)
        BY <4>1, FurtherOn
      <4>3. CASE T + i < RingSize
        <5>1. T + i \in 0 .. RingSize - 1 /\ T + i # x /\ T + i <= RingSize
          BY <1>11, <4>3
        <5> QED
          BY <3>1, <4>2, <5>1, AllApart
      <4>4. CASE T + i = RingSize
        <5>1. At(a, i) = At(l, 0) /\ 0 \in 0 .. RingSize - 1 /\ x # 0
          BY <1>11, <4>2, <4>4, AtRound
        <5> QED
          BY <3>1, <5>1, AllApart
      <4>5. CASE T + i > RingSize
        <5>1. T = RingSize /\ i = 1 /\ T + i - RingSize = 1 /\ ~(T + i <= RingSize)
          BY <1>11, <4>5
        <5>2. At(a, i) = At(l, 1)
          BY <4>2, <5>1
        <5>3. x # 1 /\ 1 \in 0 .. RingSize - 1
          BY <1>11, <2>4, <5>1
        <5> QED
          BY <3>1, <5>2, <5>3, AllApart
      <4> QED
        BY <1>11, <4>1, <4>3, <4>4, <4>5
    <3>3. At(l, x) \in Addr
      BY <3>1, Lands
    <3> QED
      BY <1>7, <3>2, <3>3 DEF Wrote
  <2>5. \A i \in HeaderSize .. T - 1 : g[At(l, i)].kind # "fields"
    <3>1. ASSUME NEW i \in HeaderSize .. T - 1
          PROVE  g[At(l, i)].kind # "fields"
      <4>1. i \in 1 .. T - 1 /\ i # 1
        BY <1>11
      <4> QED
        BY <1>10, <2>4, <4>1
    <3> QED
      BY <3>1
  <2>6. T < RingSize => Hdr(g, l).sess < n
    <3>1. ASSUME T < RingSize
          PROVE  Hdr(g, l).sess < n
      <4>1. 1 \in 1 .. T - 1
        BY <1>11
      <4>2. g[At(l, 1)] = f[At(l, 1)]
        BY <2>4, <3>1, <4>1
      <4>3. Fielded(f, l) /\ Hdr(g, l) = Hdr(f, l)
        BY <1>13, <4>2 DEF Fielded, Hdr
      <4>4. Hdr(f, l).sess \in Nat /\ Hdr(f, l).sess <= n - 1
        BY <1>2, <1>4, <4>3, FieldedFits DEF Fields, Old
      <4> QED
        BY <4>3, <4>4
    <3> QED
      BY <3>1
  <2>7. /\ At(a, 0) = At(l, T) /\ Hdr(g, a).last = l /\ Hdr(g, a).sess = n
        /\ \A d \in done : d.start \in EventStart /\ d.sess # Hdr(g, a).sess
    BY <1>4, <1>5, <1>14, <2>3
  <2> QED
    BY <1>16, <2>3, <2>5, <2>6, <2>7, NewChained
<1>18. XferDone => k = HeaderSize
  BY <1>2, <1>6, DoneOnRing, HeaderCellsAre DEF Writing
<1> QED
  BY <1>1, <1>3, <1>12, <1>16, <1>17, <1>18 DEF LinkedTo

\* The pointer to it is on the storage, or not yet.
LEMMA LinkingLinks ==
  ASSUME LinkInv, pc = "start_flush"
  PROVE  LinkedTo(View(store))
<1>0. /\ LogInv /\ LinkedTo(before) /\ Chained(done, before, ev.start) /\ Ended(done, sess)
  BY DEF LinkInv, EndInv, ListInv, Links
<1>1. PICK f \in Image, g \in Image : f = before /\ g = View(store)
  BY <1>0, Images DEF LogInv, TypeOK
<1>2. Writing(0, PointerCells, 0) /\ StoreTypeOK /\ Buf!Moved
  BY <1>0 DEF LogInv, TypeOK, Phase, InStartFlush
<1>3. /\ xfer.moved \in 0 .. DataStart
      /\ \A x \in Addr : g[x] = IF x < xfer.moved THEN PointerCells[x + 1] ELSE f[x]
  <2>1. /\ xfer.start = 0 /\ xfer.margin = 0 /\ xfer.dir = "write"
        /\ xfer.moved \in 0 .. DataStart /\ xfer.cells = PointerCells
    BY <1>2, Progress, Sizes DEF Writing, PointerCells
  <2> QED
    BY <1>1, <1>2, <2>1, WrittenAtZero
<1>4. \A x \in DataStart .. StorageSize - 1 : g[x] = f[x]
  BY <1>3, Sizes DEF Addr
<1>5. Last(g) = Last(f) \/ Last(g) = ev.start
  <2>1. DataStart - 1 \in Addr /\ DataStart \in 1 .. DataStart /\ (DataStart - 1) + 1 = DataStart
    BY Sizes DEF Addr
  <2>2. PointerCells[DataStart] = LastCell(ev.start)
    BY <2>1 DEF PointerCells
  <2> QED
    BY <1>3, <2>1, <2>2 DEF Last, LastCell
<1>6. Chained(done, f, Last(g))
  BY <1>0, <1>1, <1>5 DEF LinkedTo
<1>7. Chained(done, g, Last(g))
  BY <1>0, <1>4, <1>6, RingChained DEF Ended
<1> QED
  BY <1>1, <1>7 DEF LinkedTo

\* A sample, or a part of it, is behind those of the open event.
LEMMA SampleLinks ==
  ASSUME LinkInv, FormatWhileLogging = FALSE, pc = "sample"
  PROVE  LinkedTo(View(store))
<1>0. /\ LogInv /\ LinkedTo(before) /\ OpenIntact(before) /\ Ended(done, sess)
      /\ Listed(View(store))
  BY SampleListed DEF LinkInv, EndInv, ListInv, Lists, Links
<1>1. PICK f \in Image, g \in Image, h \in Fields :
        f = before /\ g = View(store) /\ h = ev.header
  BY <1>0, Images DEF LogInv, TypeOK, EventType, HeaderType
<1>2. /\ Open(f) /\ Last(f) = ev.start /\ ev.start \in EventStart
      /\ TotalSize(h) + SampleSize <= RingSize
      /\ Writing(ev.current, SampleCells(h.sess, h.samples), DataStart)
      /\ TypeOK /\ StoreTypeOK /\ Buf!Moved /\ Last(g) = Last(f)
      /\ Intact(f, ev.start, h)
  BY <1>0, <1>1, SampleView DEF LogInv, TypeOK, Phase, InSample, AtRest, Open, OpenIntact
<1>3. /\ h.sess \in Nat /\ h.samples \in Nat
      /\ ev.current \in DataStart .. StorageSize + HeaderSize
  BY <1>1, <1>2, Sizes DEF TypeOK, EventType, Open, Fields
<1>4. PICK k \in 0 .. SampleSize : k = xfer.moved
  BY <1>2, <1>3, SampleCellsAre, Progress DEF Writing
<1>5. Wrote(f, g, ev.current, SampleCells(h.sess, h.samples), k)
  BY <1>1, <1>2, <1>4, WrittenOnRing DEF Writing
<1>6. PICK l \in EventStart, a \in DataStart .. StorageSize + HeaderSize, T \in Nat :
        /\ l = ev.start /\ a = ev.current /\ T = TotalSize(h)
        /\ T \in HeaderSize .. RingSize /\ At(a, 0) = At(l, T)
        /\ T + k <= RingSize + HeaderSize /\ k \in Nat
  <2>1. PICK T \in Nat : T = TotalSize(h) /\ T >= HeaderSize
    BY TotalIs
  <2>2. T \in HeaderSize .. RingSize /\ T + k <= RingSize + HeaderSize /\ k \in Nat
    BY <1>2, <1>4, <2>1, Sizes DEF RingSize
  <2> QED
    BY <1>1, <1>2, <1>3, <2>1, <2>2 DEF Open
<1>7. \A i \in HeaderSize .. T - 1 : f[At(l, i)].kind # "fields"
  <2>1. ASSUME NEW i \in HeaderSize .. T - 1
        PROVE  f[At(l, i)].kind # "fields"
    <3>1. i \in Nat /\ i >= HeaderSize /\ i < T
      BY <1>6, Sizes
    <3>2. f[At(l, i)].kind = "sample"
      BY <1>2, <1>6, <3>1, OnlySamples
    <3> QED
      BY <3>2
  <2> QED
    BY <2>1
<1>8. Fielded(g, l)
  <2>1. PICK m : Kept(m, g)
    BY <1>0, <1>1 DEF Listed
  <2>2. Last(g) = l /\ l # 0
    BY <1>2, <1>6, Sizes DEF EventStart
  <2> QED
    BY <2>1, <2>2 DEF Kept, Newer
<1>9. \A i \in 1 .. k : SampleCells(h.sess, h.samples)[i].kind # "fields"
  <2>1. \A i : SampleCell(h.sess, h.samples, i).kind # "fields"
    BY DEF SampleCell
  <2>2. \A i \in 1 .. k : i \in 1 .. SampleSize
    BY Sizes
  <2> QED
    BY <1>3, <2>1, <2>2, SampleCellsAre
<1>10. Chained(done, f, l) /\ \A d \in done : d.start \in EventStart
  BY <1>0, <1>1, <1>2, <1>6 DEF LinkedTo, Ended
<1>11. Chained(done, g, l)
  BY <1>5, <1>6, <1>7, <1>8, <1>9, <1>10, SpanChained
<1> QED
  BY <1>1, <1>2, <1>6, <1>11 DEF LinkedTo

\* The final header of the newest event, over the first one, links as that did.
LEMMA EndHeaderChained ==
  ASSUME NEW D, NEW f \in Image, NEW g \in Image, NEW l,
         NEW e \in EventStart, Named(f, e), NEW h \in Fields,
         h.sess = Hdr(f, e).sess, h.last = Hdr(f, e).last,
         NEW k \in 0 .. HeaderSize, Wrote(f, g, e, HeaderCells(h), k),
         Chained(D, f, l), \A d \in D : d.start \in EventStart
  PROVE  Chained(D, g, l)
<1>1. /\ k \in {0, 1, 2} /\ HeaderSize = 2 /\ RingSize \in Nat /\ RingSize > 5
      /\ 0 \in 0 .. RingSize /\ 1 \in 0 .. RingSize
      /\ 0 \in 0 .. RingSize - 1 /\ 1 \in 0 .. RingSize - 1
  BY Sizes DEF RingSize
<1>2. PICK s \in Addr, p \in Addr : s = At(e, 0) /\ p = At(e, 1) /\ s # p
  <2>1. At(e, 0) # At(e, 1)
    BY <1>1, AllApart
  <2> QED
    BY <1>1, <2>1, Lands
<1>3. \A y \in Addr : g[y] = f[y] \/ (y = p /\ g[y] = FieldsCell(h))
  <2>1. \A i \in 0 .. k - 1 : i = 0 \/ i = 1
    BY <1>1
  <2>2. \A y \in Addr : (\A i \in 0 .. k - 1 : At(e, i) # y) => g[y] = f[y]
    BY DEF Wrote
  <2>3. \A i \in 0 .. k - 1 : g[At(e, i)] = HeaderCells(h)[i + 1]
    BY DEF Wrote
  <2>4. f[s] = Sentinel
    BY <1>2 DEF Named
  <2>5. \A i \in 0 .. k - 1 : \/ At(e, i) = s /\ g[s] = f[s]
                              \/ At(e, i) = p /\ g[p] = FieldsCell(h)
    <3>1. ASSUME NEW i \in 0 .. k - 1
          PROVE  \/ At(e, i) = s /\ g[s] = f[s]
                 \/ At(e, i) = p /\ g[p] = FieldsCell(h)
      <4>1. CASE i = 0
        BY <1>2, <2>3, <2>4, <4>1, HeaderCellsAre
      <4>2. CASE i = 1
        BY <1>2, <2>3, <4>2, HeaderCellsAre
      <4> QED
        BY <2>1, <4>1, <4>2
    <3> QED
      BY <3>1
  <2> QED
    BY <2>2, <2>5
<1>4. /\ FieldsCell(h).kind = "fields" /\ FieldsCell(h).header = h
      /\ f[p].kind = "fields" /\ f[p].header = Hdr(f, e)
  BY <1>2 DEF FieldsCell, Named, Hdr
<1>5. ASSUME NEW x \in EventStart
      PROVE  /\ Fielded(g, x) <=> Fielded(f, x)
             /\ Named(f, x) => Named(g, x)
             /\ Fielded(f, x) => /\ Hdr(g, x).sess = Hdr(f, x).sess
                                 /\ Hdr(g, x).last = Hdr(f, x).last
  <2>1. At(x, 0) \in Addr /\ At(x, 1) \in Addr
    BY <1>1, Lands
  <2>2. Sentinel.kind # "fields"
    BY DEF Sentinel
  <2>3. f[At(x, 0)] = Sentinel => g[At(x, 0)] = Sentinel
    BY <1>3, <1>4, <2>1, <2>2
  <2> QED
    BY <1>3, <1>4, <2>1, <2>3 DEF Fielded, Named, Hdr
<1> QED
  BY <1>5, SameChained

\* The final header, or a part of it, is over the first one.
LEMMA EndingLinks ==
  ASSUME LinkInv, UnmatchedStop = FALSE, pc = "end_header"
  PROVE  LinkedTo(View(store))
<1>0. /\ LogInv /\ LinkedTo(before) /\ Ending /\ Ended(done, sess) /\ ev.start # 0
      /\ Last(View(store)) = ev.start
  BY EndingView DEF LinkInv, EndInv, Commits, ListInv, Lists, Links
<1>1. PICK f \in Image, g \in Image, h \in Fields :
        f = before /\ g = View(store) /\ h = ev.header
  BY <1>0, Images DEF LogInv, TypeOK, EventType, HeaderType
<1>2. /\ StoreTypeOK /\ Buf!Moved /\ Writing(ev.start, HeaderCells(h), DataStart)
      /\ ev.start \in DataStart .. StorageSize - 1
  BY <1>0, <1>1 DEF LogInv, TypeOK, Phase, InEndHeader
<1>3. PICK k \in 0 .. HeaderSize : k = xfer.moved
  BY <1>1, <1>2, HeaderCellsAre, Progress DEF Writing
<1>4. PICK e \in EventStart : e = ev.start
  BY <1>2, Sizes DEF EventStart
<1>5. Wrote(f, g, e, HeaderCells(h), k)
  BY <1>1, <1>2, <1>3, <1>4, WrittenOnRing DEF Writing
<1>6. /\ Last(f) = e /\ Named(f, e) /\ h.sess = Hdr(f, e).sess /\ h.last = Hdr(f, e).last
      /\ Chained(done, f, e) /\ \A d \in done : d.start \in EventStart
  BY <1>0, <1>1, <1>4 DEF Ending, LinkedTo, Ended
<1>7. Chained(done, g, e)
  BY <1>5, <1>6, EndHeaderChained
<1> QED
  BY <1>0, <1>1, <1>4, <1>7 DEF LinkedTo

\* So whatever is under way, the links lead on in what is read through the cache.
LEMMA ViewLinked ==
  ASSUME LinkInv, FormatWhileLogging = FALSE, UnmatchedStop = FALSE, pc \notin Halted
  PROVE  LinkedTo(View(store))
<1>1. LogInv /\ TypeOK /\ Phase /\ Links
  BY DEF LinkInv, EndInv, ListInv, LogInv
<1>2. CASE pc \in Still
  BY <1>1, <1>2 DEF Links
<1>3. CASE pc = "end_flush"
  BY <1>1, <1>3 DEF Links, Phase, InEndFlush
<1>4. CASE pc \in {"sample", "start_header", "start_flush", "end_header"}
  BY <1>4, SampleLinks, BegunLinks, LinkingLinks, EndingLinks
<1> QED
  BY <1>1, <1>2, <1>3, <1>4 DEF TypeOK, Busy, Still

-----------------------------------------------------------------------------
(* The links, step by step                                                 *)

\* The log is only looked at.
LEMMA LookedLinks ==
  ASSUME LinkInv, pc \in Still, done' = done, sess' = sess, pc' \in Still \cup Halted,
         store' \in {store, Flush(store), GetPage(store, 0), Flush(GetPage(store, 0))}
  PROVE  LinkedTo(store.flash)' /\ Links'
<1>1. store \in StoreType /\ Coherent(store)
  BY DEF LinkInv, EndInv, ListInv, LogInv, TypeOK, StoreTypeOK, CacheCoherent, Still
<1>2. /\ GetPage(store, 0) \in StoreType /\ Coherent(GetPage(store, 0))
      /\ View(GetPage(store, 0)) = View(store)
      /\ GetPage(store, 0).flash \in {store.flash, View(store)}
      /\ Flush(store).flash = View(store) /\ View(Flush(store)) = View(store)
  BY <1>1, CacheFacts
<1>3. /\ Flush(GetPage(store, 0)).flash = View(store)
      /\ View(Flush(GetPage(store, 0))) = View(store)
  BY <1>2, CacheFacts
<1>4. store'.flash \in {store.flash, View(store)} /\ View(store') = View(store)
  BY <1>2, <1>3
<1>5. PICK f, e : f = View(store) /\ e = store'.flash
  OBVIOUS
<1>6. LinkedTo(e) /\ LinkedTo(f) /\ Ended(done, sess)
  BY <1>4, <1>5 DEF LinkInv, Links
<1>7. LinkedTo(store.flash)' /\ LinkedTo(View(store))' /\ Ended(done, sess)'
  BY <1>4, <1>5, <1>6 DEF LinkedTo, Ended
<1> QED
  BY <1>7 DEF Links, Still, Halted

\* A write to the ring begins: of a sample, of a final header, or of the header of
\* an event that has not ended.
LEMMA WriteLinks ==
  ASSUME LinkInv, pc \in Still, done' = done,
         NEW s \in StoreType, Coherent(s), View(s) = View(store),
         store' = Flush(s), before' = View(s),
         \/ pc' \in {"sample", "end_header"} /\ sess' = sess
         \/ pc' = "start_header" /\ sess' = sess + 1
  PROVE  LinkedTo(store.flash)' /\ Links'
<1>1. store'.flash = View(store) /\ before' = View(store)
  BY CacheFacts
<1>2. PICK f : f = View(store)
  OBVIOUS
<1>3. LinkedTo(f) /\ Ended(done, sess) /\ sess \in Nat
  BY <1>2 DEF LinkInv, Links, EndInv, ListInv, LogInv, TypeOK
<1>4. LinkedTo(store.flash)' /\ LinkedTo(before)'
  BY <1>1, <1>2, <1>3 DEF LinkedTo
<1>5. Ended(done, sess)' /\ (pc' = "start_header" => Ended(done, sess - 1)')
  <2>1. sess' \in Nat /\ sess <= sess' /\ (pc' = "start_header" => sess' - 1 = sess)
    BY <1>3
  <2>2. \A d \in done' : d.start \in EventStart /\ d.sess \in Nat /\ d.sess <= sess
    BY <1>3 DEF Ended
  <2>3. \A d \in done' : d.sess <= sess'
    BY <1>3, <2>1, <2>2
  <2>4. pc' = "start_header" => \A d \in done' : d.sess <= sess' - 1
    BY <2>1, <2>2
  <2> QED
    BY <2>2, <2>3, <2>4 DEF Ended
<1> QED
  BY <1>4, <1>5 DEF Links, Still

\* START, up to the header of the new event.
LEMMA StartEventLinks ==
  ASSUME LinkInv, StartEvent \/ StartAfterLast
  PROVE  LinkedTo(store.flash)' /\ Links'
<1>1. store \in StoreType /\ Coherent(store) /\ pc \in Still
  BY DEF LinkInv, EndInv, ListInv, LogInv, TypeOK, StoreTypeOK, CacheCoherent, Still,
    StartEvent, StartAfterLast
<1>2. PICK g : g = GetPage(store, 0)
  OBVIOUS
<1>3. g \in StoreType /\ Coherent(g) /\ View(g) = View(store)
  BY <1>1, <1>2, CacheFacts
<1>4. \/ /\ pc' \in Still \cup Halted /\ sess' = sess /\ done' = done
         /\ store' \in {g, Flush(g)}
      \/ \E s \in {store, g} : \E addr, id, last : WriteNewEvent(s, addr, id, last)
  BY <1>2 DEF StartEvent, StartAfterLast, BeginRead, Begin, Still, Halted
<1>5. CASE /\ pc' \in Still \cup Halted /\ sess' = sess /\ done' = done
           /\ store' \in {g, Flush(g)}
  BY <1>1, <1>2, <1>5, LookedLinks
<1>6. CASE \E s \in {store, g} : \E addr, id, last : WriteNewEvent(s, addr, id, last)
  <2>1. PICK s \in {store, g} : \E addr, id, last : WriteNewEvent(s, addr, id, last)
    BY <1>6
  <2>2. /\ pc' = "start_header" /\ sess' = sess + 1 /\ done' = done
        /\ store' = Flush(s) /\ before' = View(s)
    BY <2>1 DEF WriteNewEvent, BeginWrite, Begin
  <2>3. s \in StoreType /\ Coherent(s) /\ View(s) = View(store)
    BY <1>1, <1>3
  <2> QED
    BY <1>1, <2>2, <2>3, WriteLinks
<1> QED
  BY <1>4, <1>5, <1>6

\* START: the event is written, the pointer to it comes next.
LEMMA StartPointerLinks ==
  ASSUME LinkInv, StartPointer
  PROVE  LinkedTo(store.flash)' /\ Links'
<1>1. /\ pc = "start_header" /\ XferDone /\ store \in StoreType /\ Coherent(store)
      /\ store' = Flush(store) /\ before' = View(store)
      /\ pc' = "start_flush" /\ UNCHANGED <<ev, sess, done>>
  BY DEF LinkInv, EndInv, ListInv, LogInv, TypeOK, StoreTypeOK, CacheCoherent, StartPointer,
    BeginWrite, Begin
<1>2. store'.flash = View(store)
  BY <1>1, CacheFacts
<1>3. PICK f : f = View(store)
  OBVIOUS
<1>4. LinkedTo(f) /\ Chained(done, f, ev.start) /\ Ended(done, sess)
  BY <1>1, <1>3, BegunLinks DEF LinkInv, Links
<1>5. LinkedTo(store.flash)' /\ LinkedTo(before)' /\ Chained(done, before, ev.start)'
      /\ Ended(done, sess)'
  BY <1>1, <1>2, <1>3, <1>4 DEF LinkedTo, Ended
<1> QED
  BY <1>1, <1>5 DEF Links, Still

\* START: the pointer reaches the chip.
LEMMA StartFlushLinks ==
  ASSUME LinkInv, StartFlush
  PROVE  LinkedTo(store.flash)' /\ Links'
<1>1. /\ pc = "start_flush" /\ store \in StoreType /\ Coherent(store)
      /\ store' = Flush(store) /\ pc' = "idle" /\ UNCHANGED <<ev, sess, done>>
  BY DEF LinkInv, EndInv, ListInv, LogInv, TypeOK, StoreTypeOK, CacheCoherent, StartFlush
<1>2. store'.flash = View(store) /\ View(store') = View(store)
  BY <1>1, CacheFacts
<1>3. PICK f : f = View(store) /\ LinkedTo(f) /\ Ended(done, sess)
  BY <1>1, LinkingLinks DEF LinkInv, Links
<1>4. LinkedTo(store.flash)' /\ LinkedTo(View(store))' /\ Ended(done, sess)'
  BY <1>1, <1>2, <1>3 DEF LinkedTo, Ended
<1> QED
  BY <1>1, <1>4 DEF Links, Still

\* An event is ended, or a sample of it is logged.
LEMMA EndHeaderLinks ==
  ASSUME LinkInv, EndEvent \/ WriteSample
  PROVE  LinkedTo(store.flash)' /\ Links'
<1>1. store \in StoreType /\ Coherent(store) /\ pc \in Still
  BY DEF LinkInv, EndInv, ListInv, LogInv, TypeOK, StoreTypeOK, CacheCoherent, Still,
    EndEvent, WriteSample
<1>2. /\ sess' = sess /\ done' = done
      /\ \/ pc' \in Halted /\ store' = store
         \/ /\ pc' \in {"sample", "end_header"}
            /\ store' = Flush(store) /\ before' = View(store)
  BY DEF EndEvent, WriteSample, EndHeader, BeginWrite, Begin, Halted
<1> QED
  BY <1>1, <1>2, LookedLinks, WriteLinks

\* STOP: the pointer, which is the same as before, is stored.
LEMMA EndPointerLinks ==
  ASSUME LinkInv, UnmatchedStop = FALSE, EndPointer
  PROVE  LinkedTo(store.flash)' /\ Links'
<1>1. /\ LogInv /\ pc = "end_header" /\ XferDone /\ Ending /\ ev.start # 0
      /\ store \in StoreType /\ Coherent(store) /\ Sound(store.flash)
      /\ Ended(done, sess) /\ LinkedTo(store.flash)
  BY DEF LinkInv, EndInv, Commits, ListInv, LogInv, TypeOK, StoreTypeOK, CacheCoherent,
    EndPointer, Lists, Links
<1>2. PICK s, k, a : s = GetPage(store, 0) /\ a = ev.start /\ k = Link(s, a)
  OBVIOUS
<1>3. /\ s \in StoreType /\ Coherent(s) /\ s.page = 0
      /\ View(s) = View(store) /\ s.flash \in {store.flash, View(store)}
  BY <1>1, <1>2, CacheFacts
<1>4. PICK f, g : f = View(s) /\ g = View(k)
  OBVIOUS
<1>5. Sound(f) /\ Sound(s.flash) /\ a \in EventStart /\ Named(f, a) /\ Last(f) = a
  <2>1. /\ Sound(f) /\ Named(f, a) /\ Last(f) = a
    BY <1>1, <1>2, <1>3, <1>4, ViewSound, EndingView
  <2> QED
    BY <1>1, <1>2, <1>3, <1>4, <2>1 DEF Sound
<1>6. /\ Last(g) = a /\ \A x \in DataStart .. StorageSize - 1 : g[x] = f[x]
      /\ Flush(k).flash \in {s.flash, g}
  BY <1>2, <1>3, <1>4, <1>5, Linked
<1>7. LinkedTo(f) /\ LinkedTo(g)
  <2>1. LinkedTo(f)
    BY <1>1, <1>3, <1>4, EndingLinks
  <2>2. Chained(done, f, a) /\ \A d \in done : d.start \in EventStart
    BY <1>1, <1>5, <2>1 DEF LinkedTo, Ended
  <2>3. Chained(done, g, a)
    BY <1>6, <2>2, RingChained
  <2> QED
    BY <1>6, <2>1, <2>3 DEF LinkedTo
<1>8. store' = Flush(k) /\ before' = g /\ pc' = "end_flush" /\ UNCHANGED <<ev, sess, done>>
  BY <1>2, <1>4 DEF EndPointer, Link, BeginWrite, Begin
<1>9. PICK e : e = store'.flash
  OBVIOUS
<1>10. LinkedTo(e)
  BY <1>1, <1>3, <1>4, <1>6, <1>7, <1>8, <1>9
<1>11. LinkedTo(store.flash)' /\ LinkedTo(before)' /\ Ended(done, sess)'
  BY <1>1, <1>7, <1>8, <1>9, <1>10 DEF LinkedTo, Ended
<1> QED
  BY <1>8, <1>11 DEF Links, Still

\* STOP: the event has ended, and the pointer leads to it.
LEMMA EndFlushLinks ==
  ASSUME LinkInv, EndFlush
  PROVE  LinkedTo(store.flash)' /\ Links'
<1>1. /\ LogInv /\ ListInv /\ pc = "end_flush" /\ Committed(before) /\ InEndFlush /\ XferDone
      /\ store \in StoreType /\ View(store) = before /\ store.page = 0
      /\ store' = Flush(store) /\ pc' = "idle" /\ sess' = sess
      /\ Listed(before) /\ LinkedTo(before) /\ Ended(done, sess) /\ Sound(before)
  BY DEF LinkInv, EndInv, Commits, ListInv, LogInv, TypeOK, StoreTypeOK, EndFlush, Phase,
    InEndFlush, Lists, Links
<1>2. store.dirty
  BY <1>1, DirtyByThen DEF LogInv, TypeOK
<1>3. Coherent(store)
  BY <1>1, <1>2 DEF Coherent, NoPage
<1>4. PICK f \in Image : f = before
  BY <1>1, Images DEF LogInv, TypeOK
<1>5. store'.flash = f /\ View(store') = f
  BY <1>1, <1>3, <1>4, CacheFacts
<1>6. PICK d : /\ d = [sess |-> ev.header.sess, start |-> ev.start,
                       samples |-> ev.header.samples]
               /\ done' = done \cup {d}
  BY DEF EndFlush
<1>7. /\ d.start = ev.start /\ d.sess = ev.header.sess
      /\ ev.start # 0 /\ Last(f) = ev.start /\ Named(f, ev.start)
      /\ Hdr(f, ev.start) = ev.header
  BY <1>1, <1>4, <1>6 DEF Committed
<1>8. PICK l \in EventStart : l = Last(f)
  BY <1>1, <1>4, <1>7 DEF Sound
<1>9. Chained(done \cup {d}, f, l)
  BY <1>1, <1>4, <1>7, <1>8, AddChained DEF LinkedTo, Named, Fielded
<1>10. Ended(done \cup {d}, sess)
  <2>1. Fielded(f, l) /\ Hdr(f, l).sess = d.sess
    BY <1>7, <1>8 DEF Named, Fielded
  <2>2. d.sess \in Nat /\ d.sess <= sess
    BY <1>1, <1>4, <2>1, FieldedFits DEF Fields, Listed, Old
  <2> QED
    BY <1>1, <1>7, <1>8, <2>2 DEF Ended
<1>11. LinkedTo(store.flash)' /\ LinkedTo(View(store))' /\ Ended(done, sess)'
  BY <1>1, <1>5, <1>6, <1>8, <1>9, <1>10 DEF LinkedTo, Ended
<1> QED
  BY <1>1, <1>11 DEF Links, Still

\* A sample is counted, or a format forgets what was ended.
LEMMA SampleWrittenLinks ==
  ASSUME LinkInv, FormatWhileLogging = FALSE, SampleWritten \/ FormatFlush
  PROVE  LinkedTo(store.flash)' /\ Links'
<1>1. CASE SampleWritten
  <2>1. pc = "sample" /\ pc' = "idle" /\ store' = store /\ sess' = sess /\ done' = done
    BY <1>1 DEF SampleWritten
  <2>2. PICK f, e : f = View(store) /\ e = store.flash
    OBVIOUS
  <2>3. LinkedTo(f) /\ LinkedTo(e) /\ Ended(done, sess)
    BY <2>1, <2>2, SampleLinks DEF LinkInv, Links
  <2>4. LinkedTo(store.flash)' /\ LinkedTo(View(store))' /\ Ended(done, sess)'
    BY <2>1, <2>2, <2>3 DEF LinkedTo, Ended
  <2> QED
    BY <2>1, <2>4 DEF Links, Still
<1>2. CASE FormatFlush
  <2>1. pc' = "idle" /\ done' = {}
    BY <1>2 DEF FormatFlush
  <2> QED
    BY <2>1 DEF Links, LinkedTo, Chained, Ended, Still
<1> QED
  BY <1>1, <1>2

\* A pass of the transfer loop, whoever it runs for.
LEMMA TransferLinks ==
  ASSUME LinkInv, FormatWhileLogging = FALSE, UnmatchedStop = FALSE, Transfer
  PROVE  LinkedTo(store.flash)' /\ Links'
<1>1. /\ LogInv /\ TypeOK /\ StoreTypeOK /\ Buf!On /\ Buf!Moved /\ Phase /\ XferChunk
      /\ ~XferDone /\ Links /\ LinkedTo(store.flash)
      /\ pc' = pc /\ ev' = ev /\ walk' = walk /\ sess' = sess /\ done' = done
  BY DEF LinkInv, EndInv, ListInv, LogInv, TypeOK, Transfer, XferChunk
<1>2. before' = before /\ xfer'.dir = xfer.dir
  BY <1>1, ChunkKeeps
<1>3. pc \notin Halted
  BY <1>1 DEF Phase, InHalt
<1>4. store'.flash \in {store.flash, View(store)}
  <2>1. CASE pc = "end_flush"
    <3>1. store' = [store EXCEPT !.dirty = TRUE] /\ store \in StoreType
      BY <1>1, <2>1, SelfWrite DEF Phase, StoreTypeOK
    <3> QED
      BY <3>1 DEF StoreType
  <2>2. CASE pc # "end_flush"
    <3>1. CacheCoherent
      BY <1>1, <2>2 DEF LogInv
    <3> QED
      BY <1>1, <3>1, ChunkFacts
  <2> QED
    BY <2>1, <2>2
<1>5. LinkedTo(store.flash)'
  <2>1. PICK e : e = store'.flash /\ LinkedTo(e)
    BY <1>1, <1>3, <1>4, ViewLinked
  <2> QED
    BY <1>1, <2>1 DEF LinkedTo
<1>8. (Ended(done, sess) /\ (pc = "start_header" => Ended(done, sess - 1)))'
  BY <1>1 DEF Links, Ended
<1>6. CASE pc \in Still
  <2>1. pc \in {"list", "data_header", "data_sample", "start_read"} /\ xfer.dir = "read"
    BY <1>1, <1>6 DEF Still, Phase, InIdle, InFormat, InWalk, InStartRead, XferDone, NoXfer,
      Reading
  <2>2. CacheCoherent
    BY <1>1, <2>1 DEF LogInv
  <2>3. Buf!Moved'
    BY <1>1, <2>2, ChunkFacts
  <2>4. View(store) = before /\ View(store') = before
    BY <1>1, <1>2, <2>1, <2>3, SameStore DEF Buf!Moved
  <2>5. PICK f : f = View(store) /\ LinkedTo(f)
    BY <1>1, <1>6 DEF Links
  <2>6. LinkedTo(View(store))'
    BY <1>1, <2>4, <2>5 DEF LinkedTo
  <2> QED
    BY <1>1, <1>5, <1>8, <2>1, <2>6 DEF Links
<1>7. CASE pc \notin Still
  <2>1. (pc \notin Still)'
    BY <1>1, <1>7 DEF Still
  <2>2. pc \in {"sample", "start_header", "start_flush", "end_header", "end_flush"} =>
          LinkedTo(before)'
    BY <1>1, <1>2 DEF Links, LinkedTo
  <2>3. pc = "start_flush" => Chained(done, before, ev.start)'
    BY <1>1, <1>2 DEF Links
  <2> QED
    BY <1>1, <1>5, <1>8, <2>1, <2>2, <2>3 DEF Links
<1> QED
  BY <1>6, <1>7

\* A reset leaves what is on the chip.
LEMMA PowerLossLinks ==
  ASSUME LinkInv, PowerLoss
  PROVE  LinkedTo(store.flash)' /\ Links'
<1>1. PICK f : f = store.flash
  OBVIOUS
<1>2. /\ StoreTypeOK /\ LinkedTo(f) /\ Ended(done, sess) /\ Reset /\ pc' = "idle"
      /\ sess' = sess /\ done' = done
  BY <1>1 DEF LinkInv, EndInv, ListInv, LogInv, TypeOK, PowerLoss, Links
<1>3. View(store') = f /\ store'.flash = f
  BY <1>1, <1>2, ResetFacts
<1>4. LinkedTo(store.flash)' /\ LinkedTo(View(store))' /\ Ended(done, sess)'
  BY <1>2, <1>3 DEF LinkedTo, Ended
<1> QED
  BY <1>2, <1>4 DEF Links, Still

\* Every step keeps the invariant.
LEMMA LinkStep ==
  ASSUME FormatWhileLogging = FALSE, UnmatchedStop = FALSE, LinkInv, [Next]_vars
  PROVE  LinkInv'
<1>1. EndInv'
  BY FormatWhileLogging = FALSE, UnmatchedStop = FALSE, EndStep DEF LinkInv
<1> SUFFICES LinkedTo(store.flash)' /\ Links'
  BY <1>1 DEF LinkInv
<1>2. CASE UNCHANGED vars
  <2>1. /\ store' = store /\ before' = before /\ pc' = pc
        /\ ev' = ev /\ sess' = sess /\ done' = done
    BY <1>2 DEF vars
  <2> QED
    BY <2>1 DEF LinkInv, Links, LinkedTo, Ended
<1>3. CASE Next
  <2>1. CASE Format
    BY <2>1, LookedLinks DEF Format, Still
  <2>2. CASE ListEvents \/ GetEventData
    <3>1. /\ pc = "idle" /\ sess' = sess /\ done' = done
          /\ store' \in {GetPage(store, 0), Flush(GetPage(store, 0))}
          /\ pc' \in {"idle", "list", "data_header"} \cup Halted
      BY <2>2 DEF ListEvents, GetEventData, GetNewest, ReadEvent, NoMoreEvents, Return,
        BeginRead, Begin, Halted
    <3> QED
      BY <3>1, LookedLinks DEF Still
  <2>3. CASE ListNext
    <3>1. /\ pc = "list" /\ sess' = sess /\ done' = done
          /\ store' \in {store, Flush(store)}
          /\ pc' \in {"idle", "list"}
      BY <2>3 DEF ListNext, ReadEvent, NoMoreEvents, Return, BeginRead, Begin
    <3> QED
      BY <3>1, LookedLinks DEF Still
  <2>4. CASE DataFirst \/ DataNext
    <3>1. /\ pc \in {"data_header", "data_sample"} /\ sess' = sess /\ done' = done
          /\ store' \in {store, Flush(store)}
          /\ pc' \in {"idle", "data_sample"} \cup Halted
      BY <2>4 DEF DataFirst, DataNext, ReadSample, NoMoreEvents, Return, BeginRead, Begin,
        Halted
    <3> QED
      BY <3>1, LookedLinks DEF Still
  <2> QED
    BY <1>3, <2>1, <2>2, <2>3, <2>4, StartEventLinks, StartPointerLinks, StartFlushLinks,
      EndHeaderLinks, EndPointerLinks, EndFlushLinks, SampleWrittenLinks, TransferLinks,
      PowerLossLinks DEF Next
<1> QED
  BY <1>2, <1>3

\* Nothing has ended on a chip on which nothing was logged.
LEMMA InitLinks ==
  ASSUME Init
  PROVE  LinkInv
<1>1. EndInv
  BY InitLists DEF EndInv, Commits, Init, NoEvent
<1>2. done = {} /\ pc = "idle"
  BY DEF Init
<1> QED
  BY <1>1, <1>2 DEF LinkInv, Links, LinkedTo, Chained, Ended

-----------------------------------------------------------------------------
(* The walk meets what is linked                                           *)

\* What Chain collects are the events among the addresses of one walk.
LEMMA ChainWalks ==
  ASSUME NEW f, NEW P, LastEvent(f) \in P, \A a \in P : Back(f, a) \in P
  PROVE  \E met : /\ met[0] = LastEvent(f)
                  /\ \A i \in 1 .. MaxSessions : met[i] = Back(f, met[i - 1])
                  /\ \A i \in 0 .. MaxSessions : EventAt(f, met[i]) => met[i] \in Chain(f)
<1> DEFINE n == MaxSessions
           Met(h) == [i \in 0 .. n |->
                        IF i = 0 THEN LastEvent(f)
                        ELSE LET a == h[i - 1]
                             IN  IF EventAt(f, a) THEN HeaderAt(f, a).last ELSE a]
           met == CHOOSE h : h = Met(h)
<1>1. n \in Nat
  BY LayoutAssumption
<1>2. PICK g : WalksTo(f, P, n, g)
  BY <1>1, WalkExists
<1>3. g = Met(g)
  <2>1. g = [i \in 0 .. n |-> g[i]]
    BY <1>2 DEF WalksTo
  <2>2. ASSUME NEW i \in 0 .. n
        PROVE  g[i] = IF i = 0 THEN LastEvent(f)
                      ELSE LET a == g[i - 1]
                           IN  IF EventAt(f, a) THEN HeaderAt(f, a).last ELSE a
    <3>1. i = 0 \/ i \in 1 .. n
      OBVIOUS
    <3> QED
      BY <1>2, <3>1 DEF WalksTo, Back
  <2> QED
    BY <2>1, <2>2
<1>4. met = Met(met)
  <2> HIDE DEF Met
  <2> QED
    BY <1>3
<1>5. \A i \in 0 .. n : EventAt(f, met[i]) => met[i] \in Chain(f)
  BY DEF Chain
<1> HIDE DEF met
<1>6. met[0] = LastEvent(f)
  BY <1>1, <1>4
<1>7. ASSUME NEW i \in 1 .. n
      PROVE  met[i] = Back(f, met[i - 1])
  BY <1>1, <1>4 DEF Back
<1> QED
  BY <1>5, <1>6, <1>7

\* In as many steps as there are events after it, the walk is at a linked event.
LEMMA WalkMeets ==
  ASSUME NEW f \in Image, Sound(f), NEW C, NEW j, Joined(f, Last(f), C, j),
         NEW n \in Nat, Old(n, f), n <= MaxSessions, NEW met, met[0] = Last(f),
         \A i \in 1 .. MaxSessions : met[i] = Back(f, met[i - 1]),
         NEW c \in C
  PROVE  \E i \in 0 .. MaxSessions : met[i] = c
<1>0. MaxSessions \in Nat
  BY LayoutAssumption
<1>1. ASSUME NEW x \in C
      PROVE  x \in EventStart /\ Hdr(f, x).sess \in 0 .. n
  BY FieldedFits DEF Joined, Fields, Old
<1> DEFINE S == {k \in Nat : \A x \in C : n - Hdr(f, x).sess <= k /\ k <= n =>
                               \E i \in 0 .. k : met[i] = x}
<1>2. ASSUME NEW x \in C, x # Last(f)
      PROVE  \E y \in C : /\ Named(f, y) /\ Hdr(f, y).last = x
                          /\ Hdr(f, x).sess < Hdr(f, y).sess
  BY <1>2 DEF Joined
<1>3. 0 \in S
  <2>1. ASSUME NEW x \in C, n - Hdr(f, x).sess <= 0
        PROVE  x = Last(f)
    <3>1. SUFFICES ASSUME x # Last(f) PROVE FALSE
      OBVIOUS
    <3>2. PICK y \in C : Hdr(f, x).sess < Hdr(f, y).sess
      BY <1>2, <3>1
    <3> QED
      BY <1>1, <2>1, <3>2
  <2> QED
    BY <2>1
<1>4. ASSUME NEW k \in Nat, k \in S
      PROVE  k + 1 \in S
  <2>1. ASSUME NEW x \in C, n - Hdr(f, x).sess <= k + 1, k + 1 <= n
        PROVE  \E i \in 0 .. k + 1 : met[i] = x
    <3>1. CASE x = Last(f)
      BY <3>1
    <3>2. CASE x # Last(f)
      <4>1. PICK y \in C : /\ Named(f, y) /\ Hdr(f, y).last = x
                           /\ Hdr(f, x).sess < Hdr(f, y).sess
        BY <1>2, <3>2
      <4>2. n - Hdr(f, y).sess <= k /\ k <= n
        BY <1>1, <2>1, <4>1
      <4>3. PICK i \in 0 .. k : met[i] = y
        BY <1>4, <4>2
      <4>4. i + 1 \in 1 .. MaxSessions /\ i + 1 \in 0 .. k + 1 /\ (i + 1) - 1 = i
        BY <1>0, <2>1
      <4>5. met[i + 1] = Back(f, y)
        BY <4>3, <4>4
      <4>6. Back(f, y) = x
        BY <1>1, <4>1, Places DEF Back
      <4> QED
        BY <4>4, <4>5, <4>6
    <3> QED
      BY <3>1, <3>2
  <2> QED
    BY <2>1
<1>5. n \in S
  <2>1. Nat \subseteq S
    <3> HIDE DEF S
    <3> QED
      BY <1>3, <1>4, SetInduction
  <2> QED
    BY <2>1
<1>6. n - Hdr(f, c).sess <= n
  BY <1>1
<1>7. PICK i \in 0 .. n : met[i] = c
  BY <1>5, <1>6
<1> QED
  BY <1>0, <1>7

\* As long as no format falls into an open event and no STOP comes without one, an
\* event is whole on the chip when logger_end_event returns, and from then on, as
\* long as its cells have not been reclaimed by the ring, the links lead from
\* last_event to it at every instant: whatever is being written, and wherever a
\* reset falls.
THEOREM LoggerCommittedListed ==
  ASSUME FormatWhileLogging = FALSE, UnmatchedStop = FALSE
  PROVE  Spec => []CommittedEventsListed
<1>1. ASSUME LinkInv
      PROVE  \A d \in done :
               /\ EventAt(store.flash, d.start)
               /\ HeaderAt(store.flash, d.start).sess = d.sess
               => d.start \in Chain(store.flash)
  <2> SUFFICES ASSUME NEW d \in done, EventAt(store.flash, d.start),
                      HeaderAt(store.flash, d.start).sess = d.sess
               PROVE  d.start \in Chain(store.flash)
    OBVIOUS
  <2>1. PICK f \in Image, n \in Nat : f = store.flash /\ n = sess
    BY <1>1 DEF LinkInv, EndInv, ListInv, LogInv, TypeOK, StoreTypeOK, StoreType, Image
  <2>2. /\ Sound(f) /\ LinkedTo(f) /\ Listed(f) /\ Ended(done, sess) /\ n <= MaxSessions
    BY <1>1, <2>1 DEF LinkInv, EndInv, ListInv, LogInv, Links, TypeOK
  <2>3. PICK last \in {0} \cup EventStart : last = Last(f) /\ LastEvent(f) = last
    BY <2>2 DEF Sound, LastEvent, Last
  <2>4. PICK C, j : /\ Joined(f, last, C, j)
                    /\ \A e \in done : Stands(f, e) => e.start \in C
    BY <2>2, <2>3 DEF LinkedTo, Chained
  <2>5. d.start \in C
    <3>1. d.start \in EventStart
      BY <2>2 DEF Ended
    <3>2. Stands(f, d)
      BY <2>1, <2>2, <3>1, Places DEF Stands, Named, Fielded
    <3> QED
      BY <2>4, <3>2
  <2> DEFINE P == {0} \cup EventStart
  <2>6. ASSUME NEW a \in P
        PROVE  Back(f, a) \in P
    <3>1. CASE EventAt(f, a)
      <4>1. a \in EventStart
        BY <3>1, Sizes DEF EventAt
      <4>2. Fielded(f, a) /\ Back(f, a) = Hdr(f, a).last
        BY <2>2, <3>1, <4>1, Places DEF Back, Named, Fielded
      <4> QED
        BY <2>2, <4>1, <4>2, FieldedFits
    <3>2. CASE ~EventAt(f, a)
      BY <3>2 DEF Back
    <3> QED
      BY <3>1, <3>2
  <2>7. PICK met : /\ met[0] = last
                   /\ \A i \in 1 .. MaxSessions : met[i] = Back(f, met[i - 1])
                   /\ \A i \in 0 .. MaxSessions : EventAt(f, met[i]) => met[i] \in Chain(f)
    <3> HIDE DEF P
    <3>1. last \in P
      BY DEF P
    <3> QED
      BY <2>3, <2>6, <3>1, ChainWalks
  <2>8. PICK i \in 0 .. MaxSessions : met[i] = d.start
    <3>1. Old(n, f)
      BY <2>1, <2>2 DEF Listed
    <3> QED
      BY <2>2, <2>3, <2>4, <2>5, <2>7, <3>1, WalkMeets
  <2> QED
    BY <2>1, <2>7, <2>8
<1>2. ASSUME LinkInv, EndCommits
      PROVE  CommittedEventsListed
  BY <1>1, <1>2 DEF CommittedEventsListed
<1>3. Init => LinkInv
  BY InitLinks
<1>4. LinkInv /\ [Next]_vars => LinkInv'
  BY FormatWhileLogging = FALSE, UnmatchedStop = FALSE, LinkStep
<1>5. Spec => []EndCommits
  BY FormatWhileLogging = FALSE, UnmatchedStop = FALSE, LoggerEndCommits
<1> QED
  BY <1>2, <1>3, <1>4, <1>5, PTL DEF Spec

=============================================================================
