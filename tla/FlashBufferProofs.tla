-------------------------- MODULE FlashBufferProofs --------------------------
(***************************************************************************)
(* Proofs about the buffered storage and its address arithmetic, for every *)
(* size of storage and page, every set of cells and every caller: the      *)
(* types, the coherence of the page cache, that the buffered storage       *)
(* implements a flat array with a stable copy, that a wrapped transfer     *)
(* moves exactly the cells it was asked to (TransferExact), and that the   *)
(* overlap test answers what the ring says (OverlapExact).                 *)
(*                                                                         *)
(* TransferExact is not inductive: it says where the cells went that were  *)
(* moved, not where the next ones go.  On says that the loop stands at the *)
(* ring cell of the next one.  A transfer is no longer than the ring, so   *)
(* the cells of a ring that it visits are one line cut in at most two      *)
(* places (Place) and no cell is visited twice (PlacesApart).              *)
(*                                                                         *)
(* The address arithmetic (RingArithmetic) is right for every margin and   *)
(* all spans that do not cover the whole ring, however far past the end    *)
(* they start.  That comes down to two facts about remainders: a number is *)
(* brought into the ring by one subtraction when it is less than two rings *)
(* long, and the place i cells after another depends on the other's        *)
(* remainder only.  The rest is linear.                                    *)
(***************************************************************************)
EXTENDS FlashBuffer, RingArithmetic, TLAPS

-----------------------------------------------------------------------------
(* Pages                                                                   *)

\* Division with remainder by the size of a page.
LEMMA DivPage ==
  ASSUME NEW a \in Nat
  PROVE  /\ (a % PageSize) \in Offset
         /\ a \div PageSize \in Nat
         /\ a = PageSize * (a \div PageSize) + (a % PageSize)
  BY GeometryAssumption DEF Offset

\* A quotient and a remainder determine the address.
LEMMA ModPage ==
  ASSUME NEW q \in Nat, NEW i \in Offset
  PROVE  (PageSize * q + i) % PageSize = i
  BY GeometryAssumption DEF Offset

\* A page that starts below the end of storage ends below it.
LEMMA PageFits ==
  ASSUME NEW q \in Nat, NEW r \in Nat, r < q
  PROVE  PageSize * r + PageSize <= PageSize * q
  BY GeometryAssumption

\* Every address lies in its page, at its offset.
LEMMA AddrInPage ==
  ASSUME NEW a \in Addr
  PROVE  /\ (a % PageSize) \in Offset
         /\ PageOf(a) \in Page
         /\ a = PageOf(a) + (a % PageSize)
<1>1. a \in Nat
  BY GeometryAssumption DEF Addr
<1> DEFINE q == a \div PageSize
           r == a % PageSize
<1>2. q \in Nat /\ r \in Offset /\ a = PageSize * q + r
  BY <1>1, DivPage
<1>3. PageOf(a) = PageSize * q
  BY <1>2, GeometryAssumption DEF PageOf, Offset
<1>4. PageOf(a) % PageSize = 0
  <2>1. 0 \in Offset
    BY GeometryAssumption DEF Offset
  <2>2. (PageSize * q + 0) % PageSize = 0
    BY <1>2, <2>1, ModPage
  <2> QED
    BY <1>2, <1>3, <2>2, GeometryAssumption
<1>5. PageOf(a) \in Addr
  BY <1>1, <1>2, <1>3, GeometryAssumption DEF Addr, Offset
<1> QED
  BY <1>2, <1>3, <1>4, <1>5, GeometryAssumption DEF Page, Offset

\* The cells of a page are addresses, and their page is that page.
LEMMA PageCells ==
  ASSUME NEW p \in Page, NEW i \in Offset
  PROVE  p + i \in Addr /\ PageOf(p + i) = p /\ (p + i) % PageSize = i
<1> DEFINE q == p \div PageSize
           n == StorageSize \div PageSize
<1>1. p \in Nat /\ p < StorageSize /\ p % PageSize = 0
  BY GeometryAssumption DEF Page, Addr
<1>2. q \in Nat /\ p = PageSize * q
  BY <1>1, DivPage, GeometryAssumption
<1>3. n \in Nat /\ StorageSize = PageSize * n
  BY DivPage, GeometryAssumption
<1>4. q < n
  BY <1>1, <1>2, <1>3, GeometryAssumption
<1>5. p + PageSize <= StorageSize
  BY <1>2, <1>3, <1>4, PageFits
<1>6. (p + i) % PageSize = i
  BY <1>2, ModPage
<1> QED
  BY <1>1, <1>5, <1>6, GeometryAssumption DEF Addr, Offset, PageOf

\* The test by which View and FlashWrite select the cells of a page.
LEMMA InPage ==
  ASSUME NEW p \in Page, NEW a \in Addr
  PROVE  a - p \in Offset <=> PageOf(a) = p
<1>1. ASSUME a - p \in Offset
      PROVE  PageOf(a) = p
  <2>1. PageOf(p + (a - p)) = p
    BY <1>1, PageCells
  <2>2. p + (a - p) = a
    BY GeometryAssumption DEF Page, Addr
  <2> QED
    BY <2>1, <2>2
<1>2. ASSUME PageOf(a) = p
      PROVE  a - p \in Offset
  <2>1. (a % PageSize) \in Offset /\ a = p + (a % PageSize)
    BY <1>2, AddrInPage
  <2>2. p \in Int /\ (a % PageSize) \in Int
    BY <2>1, GeometryAssumption DEF Page, Addr, Offset
  <2>3. a - p = a % PageSize
    BY <2>1, <2>2
  <2> QED
    BY <2>1, <2>3
<1> QED
  BY <1>1, <1>2

-----------------------------------------------------------------------------
(* The operations on the page cache                                        *)

\* What View shows, cell by cell.
LEMMA ViewCell ==
  ASSUME NEW s \in StoreType, NEW a \in Addr
  PROVE  View(s)[a] = IF PageOf(a) = s.page THEN s.data[a - s.page] ELSE s.flash[a]
<1>1. PageOf(a) # NoPage
  BY AddrInPage, GeometryAssumption DEF Page, Addr, NoPage
<1>2. CASE s.page = NoPage
  BY <1>1, <1>2 DEF View
<1>3. CASE s.page \in Page
  <2>1. s.page # NoPage
    BY <1>3, GeometryAssumption DEF Page, Addr, NoPage
  <2>2. a - s.page \in Offset <=> PageOf(a) = s.page
    BY <1>3, InPage
  <2> QED
    BY <2>1, <2>2 DEF View
<1> QED
  BY <1>2, <1>3 DEF StoreType

\* The view of a store has a cell for every address.
LEMMA ViewType ==
  ASSUME NEW s \in StoreType
  PROVE  View(s) \in [Addr -> Cell]
<1>1. ASSUME NEW a \in Addr
      PROVE  View(s)[a] \in Cell
  <2>1. CASE PageOf(a) = s.page
    <3>1. a - s.page \in Offset
      BY <2>1, AddrInPage, InPage
    <3> QED
      BY <2>1, <3>1, ViewCell DEF StoreType
  <2>2. CASE PageOf(a) # s.page
    BY <2>2, ViewCell DEF StoreType
  <2> QED
    BY <2>1, <2>2
<1> QED
  BY <1>1 DEF View

\* A flush leaves a clean, coherent cache, shows what was shown, and makes the
\* chip equal to what is shown.
LEMMA FlushFacts ==
  ASSUME NEW s \in StoreType, Coherent(s)
  PROVE  /\ Flush(s) \in StoreType
         /\ Coherent(Flush(s))
         /\ Flush(s).dirty = FALSE
         /\ Flush(s).page = s.page
         /\ Flush(s).data = s.data
         /\ Flush(s).flash = View(s)
         /\ View(Flush(s)) = View(s)
<1>1. CASE s.dirty = FALSE
  <2>1. Flush(s) = s
    BY <1>1 DEF Flush
  <2>2. ASSUME NEW a \in Addr
        PROVE  s.flash[a] = View(s)[a]
    <3>1. CASE PageOf(a) = s.page
      <4>1. s.page \in Page /\ s.page # NoPage
        BY <3>1, AddrInPage, GeometryAssumption DEF Page, Addr, NoPage
      <4>2. a - s.page \in Offset
        BY <3>1, <4>1, InPage
      <4>3. s.data = FlashRead(s.flash, s.page)
        BY <1>1, <4>1 DEF Coherent
      <4>4. s.page + (a - s.page) = a
        BY <4>1, GeometryAssumption DEF Page, Addr
      <4>5. s.data[a - s.page] = s.flash[a]
        BY <4>2, <4>3, <4>4 DEF FlashRead
      <4> QED
        BY <3>1, <4>5, ViewCell
    <3>2. CASE PageOf(a) # s.page
      BY <3>2, ViewCell
    <3> QED
      BY <3>1, <3>2
  <2>3. s.flash = View(s)
    BY <2>2 DEF StoreType, View
  <2> QED
    BY <1>1, <2>1, <2>3
<1>2. CASE s.dirty = TRUE
  <2> DEFINE f == FlashWrite(s.flash, s.page, s.data)
  <2>1. Flush(s) = [s EXCEPT !.flash = f, !.dirty = FALSE]
    BY <1>2 DEF Flush
  <2>2. s.page \in Page /\ s.page # NoPage
    BY <1>2 DEF Coherent, StoreType
  <2>3. f = View(s)
    BY <2>2 DEF FlashWrite, View
  <2>4. f \in [Addr -> Cell]
    BY <2>3, ViewType
  <2>5. /\ Flush(s) \in StoreType
        /\ Flush(s).dirty = FALSE
        /\ Flush(s).page = s.page
        /\ Flush(s).data = s.data
        /\ Flush(s).flash = f
    BY <2>1, <2>4 DEF StoreType
  <2> HIDE DEF f
  <2>6. ASSUME NEW i \in Offset
        PROVE  f[s.page + i] = s.data[i]
    <3>1. s.page + i \in Addr /\ PageOf(s.page + i) = s.page
      BY <2>2, PageCells
    <3>2. (s.page + i) - s.page = i
      BY <2>2, GeometryAssumption DEF Page, Addr, Offset
    <3> QED
      BY <2>3, <3>1, <3>2, ViewCell
  <2>7. s.data = FlashRead(f, s.page)
    BY <2>6 DEF FlashRead, StoreType
  <2>8. Coherent(Flush(s))
    BY <2>2, <2>5, <2>7 DEF Coherent
  <2>9. ASSUME NEW a \in Addr
        PROVE  View(Flush(s))[a] = View(s)[a]
    BY <2>3, <2>5, ViewCell
  <2>10. View(Flush(s)) = View(s)
    BY <2>9 DEF View
  <2> QED
    BY <2>3, <2>5, <2>8, <2>10
<1> QED
  BY <1>1, <1>2 DEF StoreType

\* buffered_get_page shows what was shown, writes nothing to the chip but what
\* was shown, and before it drops a page it makes all of that stable.
LEMMA GetPageFacts ==
  ASSUME NEW s \in StoreType, Coherent(s), NEW p \in Page
  PROVE  /\ GetPage(s, p) \in StoreType
         /\ Coherent(GetPage(s, p))
         /\ GetPage(s, p).page = p
         /\ View(GetPage(s, p)) = View(s)
         /\ \/ GetPage(s, p) = s
            \/ GetPage(s, p).flash = View(s) /\ GetPage(s, p).dirty = FALSE
<1>1. CASE p = s.page
  BY <1>1 DEF GetPage
<1>2. CASE p # s.page
  <2> DEFINE c == Flush(s)
             d == FlashRead(c.flash, p)
  <2>1. /\ c \in StoreType
        /\ c.dirty = FALSE
        /\ c.flash = View(s)
    BY FlushFacts
  <2>2. d \in [Offset -> Cell]
    BY <2>1, PageCells DEF FlashRead, StoreType
  <2>3. GetPage(s, p) = [c EXCEPT !.page = p, !.data = d]
    BY <1>2 DEF GetPage
  <2> HIDE DEF c, d
  <2>4. /\ GetPage(s, p) \in StoreType
        /\ GetPage(s, p).page = p
        /\ GetPage(s, p).data = d
        /\ GetPage(s, p).dirty = FALSE
        /\ GetPage(s, p).flash = View(s)
    BY <2>1, <2>2, <2>3 DEF StoreType
  <2>5. Coherent(GetPage(s, p))
    BY <2>1, <2>4 DEF Coherent, d
  <2>6. View(GetPage(s, p)) = View(s)
    <3>1. Flush(GetPage(s, p)) = GetPage(s, p)
      BY <2>4 DEF Flush
    <3>2. GetPage(s, p).flash = View(GetPage(s, p))
      BY <2>4, <2>5, <3>1, FlushFacts
    <3> QED
      BY <2>4, <3>2
  <2> QED
    BY <2>4, <2>5, <2>6
<1> QED
  BY <1>1, <1>2

\* Copying into the cached page changes what is shown within that page only,
\* and nothing on the chip.
LEMMA CopyInFacts ==
  ASSUME NEW s \in StoreType, s.page \in Page,
         NEW src \in Seq(Cell), NEW k \in Nat, NEW n \in Nat, k + n <= Len(src),
         NEW off \in Offset
  PROVE  /\ CopyIn(s, off, src, k, n) \in StoreType
         /\ Coherent(CopyIn(s, off, src, k, n))
         /\ CopyIn(s, off, src, k, n).flash = s.flash
         /\ CopyIn(s, off, src, k, n).page = s.page
         /\ \A a \in Addr : PageOf(a) # s.page =>
              View(CopyIn(s, off, src, k, n))[a] = View(s)[a]
<1> DEFINE d == [i \in Offset |-> IF i - off \in 0 .. n - 1
                                  THEN src[k + (i - off) + 1]
                                  ELSE s.data[i]]
           c == CopyIn(s, off, src, k, n)
<1>1. d \in [Offset -> Cell]
  <2>1. ASSUME NEW i \in Offset
        PROVE  d[i] \in Cell
    <3>1. CASE i - off \in 0 .. n - 1
      <4>1. k + (i - off) + 1 \in 1 .. Len(src)
        BY <3>1, GeometryAssumption DEF Offset
      <4>2. src[k + (i - off) + 1] \in Cell
        BY <4>1
      <4> QED
        BY <3>1, <4>2
    <3>2. CASE i - off \notin 0 .. n - 1
      BY <3>2 DEF StoreType
    <3> QED
      BY <3>1, <3>2
  <2> QED
    BY <2>1
<1>2. c = [s EXCEPT !.data = d, !.dirty = TRUE]
  BY DEF CopyIn
<1> HIDE DEF d, c
<1>3. /\ c \in StoreType
      /\ c.flash = s.flash
      /\ c.page = s.page
      /\ c.dirty = TRUE
  BY <1>1, <1>2 DEF StoreType
<1>4. Coherent(c)
  BY <1>3, GeometryAssumption DEF Coherent, Page, Addr, NoPage
<1>5. ASSUME NEW a \in Addr, PageOf(a) # s.page
      PROVE  View(c)[a] = View(s)[a]
  BY <1>3, <1>5, ViewCell
<1> QED
  BY <1>3, <1>4, <1>5 DEF c

\* The cells copied out of a page are a sequence of that many cells.
LEMMA CopyOutFacts ==
  ASSUME NEW s \in StoreType, NEW off \in Offset, NEW n \in Nat,
         off + n <= PageSize
  PROVE  CopyOut(s, off, n) \in Seq(Cell) /\ Len(CopyOut(s, off, n)) = n
<1>1. ASSUME NEW i \in 1 .. n
      PROVE  s.data[off + i - 1] \in Cell
  <2>1. off + i - 1 \in Offset
    BY GeometryAssumption DEF Offset
  <2> QED
    BY <2>1 DEF StoreType
<1>2. CopyOut(s, off, n) \in [1 .. n -> Cell]
  BY <1>1 DEF CopyOut
<1> QED
  BY <1>2

\* What is shown and what is on the chip differ within the cached page only.
LEMMA LossWithinCachedPage ==
  ASSUME NEW s \in StoreType
  PROVE  Flat!WithinOnePage(View(s), s.flash)
  BY ViewCell DEF Flat!WithinOnePage, SamePage

-----------------------------------------------------------------------------
(* Type correctness and coherence of the cache                             *)

\* The address a pass of the transfer loop starts from, and what it moves.
LEMMA ChunkBounds ==
  ASSUME StoreTypeOK, ~XferDone
  PROVE  LET addr == XferWrap(xfer.at, xfer.margin)
             n    == Smaller(PageSize - (addr % PageSize), xfer.len - xfer.moved)
         IN  /\ addr \in Addr
             /\ n \in Nat \ {0}
             /\ (addr % PageSize) + n <= PageSize
             /\ xfer.moved + n <= xfer.len
             /\ addr + n \in Reach(xfer.margin)
<1> DEFINE addr == XferWrap(xfer.at, xfer.margin)
           off  == addr % PageSize
           n    == Smaller(PageSize - off, xfer.len - xfer.moved)
<1>1. /\ xfer.at \in Nat /\ xfer.at <= 2 * StorageSize - xfer.margin - 1
      /\ xfer.margin \in Nat /\ xfer.margin < StorageSize
      /\ xfer.len \in Nat /\ xfer.moved \in Nat
      /\ xfer.moved < xfer.len
  BY GeometryAssumption DEF StoreTypeOK, XferType, XferDone, Reach
<1>2. addr \in Addr
  <2>1. CASE xfer.at < StorageSize
    BY <1>1, <2>1, GeometryAssumption DEF XferWrap, Addr
  <2>2. CASE xfer.at >= StorageSize
    <3>1. xfer.at % StorageSize = xfer.at - StorageSize
      BY <1>1, <2>2, GeometryAssumption
    <3> QED
      BY <1>1, <2>2, <3>1, GeometryAssumption DEF XferWrap, Addr
  <2> QED
    BY <1>1, <2>1, <2>2, GeometryAssumption
<1> HIDE DEF addr
<1>3. /\ off \in Offset
      /\ PageOf(addr) \in Page
      /\ addr = PageOf(addr) + off
  BY <1>2, AddrInPage
<1> HIDE DEF off
<1>4. n \in Nat \ {0} /\ off + n <= PageSize /\ xfer.moved + n <= xfer.len
  BY <1>1, <1>3, GeometryAssumption DEF Smaller, Offset
<1> HIDE DEF n
<1>5. PageOf(addr) + (PageSize - 1) \in Addr
  <2>1. PageSize - 1 \in Offset
    BY GeometryAssumption DEF Offset
  <2> QED
    BY <1>3, <2>1, PageCells
<1>6. addr + n <= StorageSize
  BY <1>2, <1>3, <1>4, <1>5, GeometryAssumption DEF Addr, Page, Offset
<1>7. addr + n \in Reach(xfer.margin)
  BY <1>1, <1>2, <1>4, <1>6, GeometryAssumption DEF Addr, Reach
<1> QED
  BY <1>2, <1>4, <1>7 DEF addr, off, n

\* One pass of the transfer loop keeps the types and the coherence, and changes
\* what is shown and what is stable as the flat store allows.
LEMMA ChunkStep ==
  ASSUME StoreTypeOK, CacheCoherent, XferChunk
  PROVE  /\ StoreTypeOK' /\ CacheCoherent'
         /\ store'.flash \in {store.flash, View(store)}
         /\ Flat!WithinOnePage(View(store'), View(store))
<1> DEFINE addr == XferWrap(xfer.at, xfer.margin)
           off  == addr % PageSize
           n    == Smaller(PageSize - off, xfer.len - xfer.moved)
           s    == GetPage(store, PageOf(addr))
           step == [xfer EXCEPT !.at = addr + n, !.moved = @ + n]
<1>1. /\ addr \in Addr
      /\ n \in Nat \ {0}
      /\ off + n <= PageSize
      /\ xfer.moved + n <= xfer.len
      /\ addr + n \in Reach(xfer.margin)
  BY ChunkBounds DEF XferChunk
<1>2. off \in Offset /\ PageOf(addr) \in Page
  BY <1>1, AddrInPage
<1>3. \/ /\ xfer.dir = "read"
         /\ store' = s
         /\ xfer' = [step EXCEPT !.cells = @ \o CopyOut(s, off, n)]
      \/ /\ xfer.dir = "write"
         /\ store' = CopyIn(s, off, xfer.cells, xfer.moved, n)
         /\ xfer' = step
  BY DEF XferChunk
<1>4. before' = before
  BY DEF XferChunk
<1> HIDE DEF addr, off, n
<1>5. /\ s \in StoreType
      /\ Coherent(s)
      /\ s.page = PageOf(addr)
      /\ View(s) = View(store)
      /\ s.flash \in {store.flash, View(store)}
  BY <1>2, GetPageFacts DEF StoreTypeOK, CacheCoherent
<1> HIDE DEF s
<1>6. step \in XferType /\ step.margin = xfer.margin /\ step.at = addr + n
      /\ step.moved = xfer.moved + n /\ step.len = xfer.len
      /\ step.dir = xfer.dir /\ step.cells = xfer.cells
  <2>1. xfer \in XferType /\ xfer.moved \in Nat /\ xfer.margin \in Nat
    BY DEF StoreTypeOK, XferType
  <2>2. addr + n \in Nat
    BY <1>1, GeometryAssumption DEF Addr
  <2>3. xfer.moved + n \in Nat
    BY <1>1, <2>1
  <2> QED
    BY <2>1, <2>2, <2>3 DEF XferType
<1> HIDE DEF step
<1>7. CASE xfer.dir = "read"
  <2>1. /\ store' = s
        /\ xfer' = [step EXCEPT !.cells = @ \o CopyOut(s, off, n)]
    BY <1>3, <1>7
  <2>2. /\ CopyOut(s, off, n) \in Seq(Cell)
        /\ Len(CopyOut(s, off, n)) = n
    BY <1>1, <1>2, <1>5, CopyOutFacts
  <2>3. /\ xfer.cells \in Seq(Cell)
        /\ Len(xfer.cells) = xfer.moved
        /\ xfer.moved \in Nat
    BY <1>7 DEF StoreTypeOK, XferType
  <2> DEFINE got == xfer.cells \o CopyOut(s, off, n)
  <2>4. got \in Seq(Cell) /\ Len(got) = xfer.moved + n
    BY <2>2, <2>3
  <2>5. xfer' = [step EXCEPT !.cells = got]
    BY <1>6, <2>1
  <2> HIDE DEF got
  <2>6. /\ xfer' \in XferType
        /\ xfer'.margin = xfer.margin /\ xfer'.at = addr + n
        /\ xfer'.moved = xfer.moved + n /\ xfer'.len = xfer.len
        /\ xfer'.dir = "read" /\ xfer'.cells = got
    BY <1>6, <1>7, <2>4, <2>5 DEF XferType
  <2>7. StoreTypeOK'
    BY <1>1, <1>4, <1>5, <2>1, <2>4, <2>6 DEF StoreTypeOK
  <2>8. CacheCoherent'
    BY <1>5, <2>1 DEF CacheCoherent
  <2> QED
    BY <1>5, <2>1, <2>7, <2>8 DEF Flat!WithinOnePage
<1>8. CASE xfer.dir = "write"
  <2>1. /\ store' = CopyIn(s, off, xfer.cells, xfer.moved, n)
        /\ xfer' = step
    BY <1>3, <1>8
  <2>2. /\ xfer.cells \in Seq(Cell)
        /\ Len(xfer.cells) = xfer.len
        /\ xfer.moved \in Nat
    BY <1>8 DEF StoreTypeOK, XferType
  <2>3. /\ store' \in StoreType
        /\ Coherent(store')
        /\ store'.flash = s.flash
        /\ \A a \in Addr : PageOf(a) # s.page => View(store')[a] = View(s)[a]
    BY <1>1, <1>2, <1>5, <2>1, <2>2, CopyInFacts
  <2>4. StoreTypeOK'
    BY <1>1, <1>4, <1>6, <1>8, <2>1, <2>2, <2>3 DEF StoreTypeOK
  <2>5. CacheCoherent'
    BY <2>3 DEF CacheCoherent
  <2>6. Flat!WithinOnePage(View(store'), View(store))
    BY <1>5, <2>3 DEF Flat!WithinOnePage, SamePage
  <2> QED
    BY <1>5, <2>3, <2>4, <2>5, <2>6
<1> QED
  BY <1>3, <1>7, <1>8

\* Entry of the transfer loop, as any caller makes it, on a store in which a page
\* may just have been loaded.
LEMMA BeginStep ==
  ASSUME NEW s \in StoreType, Coherent(s),
         NEW margin \in 0 .. StorageSize - 1, NEW addr \in Reach(margin),
         NEW dir \in {"read", "write"}, NEW len \in Nat, NEW cells \in Seq(Cell),
         dir = "write" => Len(cells) = len, dir = "read" => Len(cells) = 0,
         Begin(dir, s, addr, len, margin, cells)
  PROVE  /\ StoreTypeOK' /\ CacheCoherent'
         /\ View(store') = View(s) /\ store'.flash = View(s)
<1>1. /\ store' = Flush(s)
      /\ xfer' = [dir |-> dir, start |-> addr, at |-> addr, len |-> len, moved |-> 0,
                  margin |-> margin, cells |-> cells]
      /\ before' = View(s)
  BY DEF Begin
<1>2. /\ store' \in StoreType /\ Coherent(store')
      /\ View(store') = View(s) /\ store'.flash = View(s)
      /\ before' \in [Addr -> Cell]
  BY <1>1, FlushFacts, ViewType
<1>3. addr \in Nat /\ margin \in Nat /\ margin < StorageSize
  BY GeometryAssumption DEF Reach
<1>4. xfer' \in XferType
  BY <1>1, <1>3 DEF XferType
<1>5. StoreTypeOK'
  BY <1>1, <1>2, <1>3, <1>4 DEF StoreTypeOK
<1> QED
  BY <1>2, <1>5 DEF CacheCoherent

\* A reset drops the cache and falls back to the chip.
LEMMA ResetStep ==
  ASSUME StoreTypeOK, Reset
  PROVE  /\ StoreTypeOK' /\ CacheCoherent'
         /\ View(store') = store.flash /\ store'.flash = store.flash
<1>1. /\ store' = PowerUp(store.flash)
      /\ xfer' = NoXfer
      /\ before' = View(store')
  BY DEF Reset
<1>2. /\ store' \in StoreType /\ Coherent(store')
      /\ store'.flash = store.flash /\ store'.page = NoPage
  BY <1>1, CallerAssumption DEF PowerUp, StoreTypeOK, StoreType, Coherent
<1>3. View(store') = store.flash
  BY <1>2 DEF View, StoreTypeOK, StoreType
<1>4. xfer' \in XferType /\ 0 \in Reach(0)
  BY <1>1, GeometryAssumption DEF XferType, NoXfer, Reach
<1>5. StoreTypeOK'
  BY <1>1, <1>2, <1>4, ViewType, GeometryAssumption DEF StoreTypeOK, NoXfer
<1> QED
  BY <1>2, <1>3, <1>5 DEF CacheCoherent

\* What every step keeps, and how it looks from outside.
LEMMA StepFacts ==
  ASSUME StoreTypeOK, CacheCoherent, [StoreNext]_storeVars
  PROVE  StoreTypeOK' /\ CacheCoherent' /\ [Flat!Next]_(Flat!vars)
<1> USE DEF Flat!Next, Flat!vars
<1>1. View(store) \in [Addr -> Cell]
  BY ViewType DEF StoreTypeOK
<1>2. ASSUME NEW margin \in Margins, NEW addr \in Reach(margin),
             NEW cells \in Payloads, BeginWrite(store, addr, cells, margin)
      PROVE  StoreTypeOK' /\ CacheCoherent' /\ [Flat!Next]_(Flat!vars)
  <2>1. cells \in Seq(Cell) /\ Len(cells) \in Nat /\ margin \in 0 .. StorageSize - 1
    BY CallerAssumption
  <2>2. Begin("write", store, addr, Len(cells), margin, cells)
    BY <1>2 DEF BeginWrite
  <2> QED
    BY <2>1, <2>2, BeginStep DEF StoreTypeOK, CacheCoherent, Flat!Sync
<1>3. ASSUME NEW margin \in Margins, NEW addr \in Reach(margin),
             NEW len \in 1 .. MaxLen, BeginRead(store, addr, len, margin)
      PROVE  StoreTypeOK' /\ CacheCoherent' /\ [Flat!Next]_(Flat!vars)
  <2>1. /\ <<>> \in Seq(Cell) /\ Len(<<>>) = 0 /\ len \in Nat
        /\ margin \in 0 .. StorageSize - 1
    BY CallerAssumption
  <2>2. Begin("read", store, addr, len, margin, <<>>)
    BY <1>3 DEF BeginRead
  <2> QED
    BY <2>1, <2>2, BeginStep DEF StoreTypeOK, CacheCoherent, Flat!Sync
<1>4. ASSUME NEW p \in Page, CallGetPage(p)
      PROVE  StoreTypeOK' /\ CacheCoherent' /\ [Flat!Next]_(Flat!vars)
  <2>1. store' = GetPage(store, p) /\ UNCHANGED <<xfer, before>>
    BY <1>4 DEF CallGetPage
  <2>2. /\ store' \in StoreType /\ Coherent(store')
        /\ View(store') = View(store)
        /\ store'.flash \in {store.flash, View(store)}
    BY <2>1, GetPageFacts DEF StoreTypeOK, CacheCoherent
  <2> QED
    BY <2>1, <2>2 DEF StoreTypeOK, CacheCoherent, Flat!Sync
<1>5. ASSUME CallFlush
      PROVE  StoreTypeOK' /\ CacheCoherent' /\ [Flat!Next]_(Flat!vars)
  <2>1. store' = Flush(store) /\ UNCHANGED <<xfer, before>>
    BY <1>5 DEF CallFlush
  <2>2. /\ store' \in StoreType /\ Coherent(store')
        /\ View(store') = View(store)
        /\ store'.flash = View(store)
    BY <2>1, FlushFacts DEF StoreTypeOK, CacheCoherent
  <2> QED
    BY <2>1, <2>2 DEF StoreTypeOK, CacheCoherent, Flat!Sync
<1>6. ASSUME XferChunk
      PROVE  StoreTypeOK' /\ CacheCoherent' /\ [Flat!Next]_(Flat!vars)
  <2>1. /\ StoreTypeOK' /\ CacheCoherent'
        /\ store'.flash \in {store.flash, View(store)}
        /\ Flat!WithinOnePage(View(store'), View(store))
    BY <1>6, ChunkStep
  <2>2. View(store') \in [Addr -> Cell] /\ Flat!WithinOnePage(View(store'), store'.flash)
    BY <2>1, ViewType, LossWithinCachedPage DEF StoreTypeOK
  <2> QED
    BY <2>1, <2>2 DEF Flat!Store
<1>7. ASSUME XferReturn
      PROVE  StoreTypeOK' /\ CacheCoherent' /\ [Flat!Next]_(Flat!vars)
  <2>1. xfer' = NoXfer /\ before' = View(store) /\ store' = store
    BY <1>7 DEF XferReturn
  <2>2. xfer' \in XferType /\ 0 \in Reach(0)
    BY <2>1, GeometryAssumption DEF XferType, NoXfer, Reach
  <2> QED
    BY <1>1, <2>1, <2>2, GeometryAssumption DEF StoreTypeOK, CacheCoherent, NoXfer
<1>8. ASSUME Reset
      PROVE  StoreTypeOK' /\ CacheCoherent' /\ [Flat!Next]_(Flat!vars)
  BY <1>8, ResetStep DEF Flat!Reset
<1>9. ASSUME UNCHANGED storeVars
      PROVE  StoreTypeOK' /\ CacheCoherent' /\ [Flat!Next]_(Flat!vars)
  BY <1>9 DEF storeVars, StoreTypeOK, CacheCoherent
<1> QED
  BY <1>2, <1>3, <1>4, <1>5, <1>6, <1>7, <1>8, <1>9 DEF StoreNext, Call

\* Initially RAM is cleared and the chip holds anything.
LEMMA InitFacts ==
  ASSUME StoreInit
  PROVE  StoreTypeOK /\ CacheCoherent /\ Flat!Init
<1>1. PICK f \in [Addr -> Cell] : store = PowerUp(f)
  BY DEF StoreInit
<1>2. xfer = NoXfer /\ before = View(store)
  BY DEF StoreInit
<1>3. /\ store \in StoreType /\ Coherent(store)
      /\ store.flash = f /\ store.page = NoPage
  BY <1>1, CallerAssumption DEF PowerUp, StoreType, Coherent
<1>4. View(store) = f
  BY <1>3 DEF View
<1>5. xfer \in XferType /\ 0 \in Reach(0)
  BY <1>2, GeometryAssumption DEF XferType, NoXfer, Reach
<1> QED
  BY <1>2, <1>3, <1>4, <1>5, GeometryAssumption
     DEF StoreTypeOK, CacheCoherent, NoXfer, Flat!Init

-----------------------------------------------------------------------------
(* The theorems                                                            *)

\* Every variable of the buffered storage keeps its type, a transfer stays
\* within what one wrap can reach and moves no more than it was asked to
\* (buffered_xfer_wrapped).
THEOREM StoreTypeCorrect == StoreSpec => []StoreTypeOK
<1>1. StoreInit => StoreTypeOK /\ CacheCoherent
  BY InitFacts
<1>2. StoreTypeOK /\ CacheCoherent /\ [StoreNext]_storeVars
        => StoreTypeOK' /\ CacheCoherent'
  BY StepFacts
<1> QED
  BY <1>1, <1>2, PTL DEF StoreSpec

\* The cached page, unless it is dirty, is the page on the chip; only a loaded
\* page is dirty (buffered_get_page, buffered_flush).
THEOREM StoreCacheCoherent == StoreSpec => []CacheCoherent
<1>1. StoreInit => StoreTypeOK /\ CacheCoherent
  BY InitFacts
<1>2. StoreTypeOK /\ CacheCoherent /\ [StoreNext]_storeVars
        => StoreTypeOK' /\ CacheCoherent'
  BY StepFacts
<1> QED
  BY <1>1, <1>2, PTL DEF StoreSpec

\* The page cache is invisible: what callers read and write is a flat array, a
\* flush makes all of it stable, and a reset falls back to what was stable,
\* losing stores to one page at most.
THEOREM StoreImplementsFlat == StoreSpec => ImplementsFlatStore
<1>1. StoreInit => StoreTypeOK /\ CacheCoherent /\ Flat!Init
  BY InitFacts
<1>2. StoreTypeOK /\ CacheCoherent /\ [StoreNext]_storeVars
        => StoreTypeOK' /\ CacheCoherent' /\ [Flat!Next]_(Flat!vars)
  BY StepFacts
<1> QED
  BY <1>1, <1>2, PTL DEF StoreSpec, ImplementsFlatStore, Flat!Spec

-----------------------------------------------------------------------------
(* The cells of a transfer                                                 *)

\* The ring cell of the i-th cell from start, without a division.
Place(start, i, margin) ==
  IF start + i < StorageSize THEN start + i
  ELSE IF start + i - StorageSize < StorageSize - margin
       THEN margin + (start + i - StorageSize)
  ELSE margin + (start + i - StorageSize) - (StorageSize - margin)

\* A number less than two rings long is reduced by one subtraction.
LEMMA LessThanTwo ==
  ASSUME NEW k \in Nat \ {0}, NEW n \in Nat, n < 2 * k
  PROVE  n % k = IF n < k THEN n ELSE n - k
<1> DEFINE q == n \div k
           r == n % k
<1>1. r \in Nat /\ r < k /\ q \in Nat /\ n = k * q + r
  OBVIOUS
<1>2. ASSUME q >= 2 PROVE FALSE
  <2>1. k * q >= k * 2
    BY <1>1, <1>2
  <2> QED
    BY <1>1, <2>1
<1>3. q = 0 \/ q = 1
  BY <1>1, <1>2
<1>4. CASE q = 0
  <2>1. k * q = 0
    BY <1>4
  <2> QED
    BY <1>1, <2>1
<1>5. CASE q = 1
  <2>1. k * q = k
    BY <1>5
  <2> QED
    BY <1>1, <2>1
<1> QED
  BY <1>3, <1>4, <1>5

\* Place is what the reference says, and a cell of the storage.
LEMMA PlaceIsRingCell ==
  ASSUME NEW margin \in 0 .. StorageSize - 1, NEW start \in Reach(margin),
         NEW i \in 0 .. StorageSize - margin - 1
  PROVE  /\ RingCell(start, i, margin) = Place(start, i, margin)
         /\ Place(start, i, margin) \in Addr
<1>1. /\ StorageSize \in Nat /\ start \in Nat /\ margin \in Nat /\ i \in Nat
      /\ start <= 2 * StorageSize - margin - 1
      /\ i < StorageSize - margin /\ margin < StorageSize
  BY GeometryAssumption DEF Reach
<1>2. Place(start, i, margin) \in Addr
  BY <1>1 DEF Place, Addr
<1>3. CASE start + i < StorageSize
  BY <1>2, <1>3 DEF Place, RingCell
<1>4. CASE start + i >= StorageSize
  <2>1. PICK k \in Nat \ {0}, n \in Nat : /\ k = StorageSize - margin
                                          /\ n = start + i - StorageSize
    BY <1>1, <1>4
  <2>2. n < 2 * k
    BY <1>1, <2>1
  <2>3. n % k = IF n < k THEN n ELSE n - k
    BY <2>2, LessThanTwo
  <2>4. RingCell(start, i, margin) = margin + (n % k)
    <3>1. ~(start + i < StorageSize)
      BY <1>1, <1>4
    <3>2. RingCell(start, i, margin)
            = margin + ((start + i - StorageSize) % (StorageSize - margin))
      BY <3>1 DEF RingCell
    <3> QED
      BY <2>1, <3>2
  <2>5. Place(start, i, margin) = margin + (IF n < k THEN n ELSE n - k)
    BY <1>1, <1>4, <2>1 DEF Place
  <2> QED
    BY <1>2, <2>3, <2>4, <2>5
<1> QED
  BY <1>1, <1>3, <1>4

\* No two cells of a transfer land on one.
LEMMA PlacesApart ==
  ASSUME NEW margin \in 0 .. StorageSize - 1, NEW start \in Reach(margin),
         NEW i \in 0 .. StorageSize - margin - 1,
         NEW j \in 0 .. StorageSize - margin - 1,
         Place(start, i, margin) = Place(start, j, margin)
  PROVE  i = j
BY GeometryAssumption DEF Place, Reach

\* Until the end of storage the cells lie side by side.
LEMMA PlacesRun ==
  ASSUME NEW margin \in 0 .. StorageSize - 1, NEW start \in Reach(margin),
         NEW i \in 0 .. StorageSize - margin - 1, NEW j \in Nat,
         i + j <= StorageSize - margin - 1,
         Place(start, i, margin) + j < StorageSize
  PROVE  Place(start, i + j, margin) = Place(start, i, margin) + j
BY GeometryAssumption DEF Place, Reach

\* Behind the last cell of the storage comes the first behind the margin.
LEMMA PlacesWrap ==
  ASSUME NEW margin \in 0 .. StorageSize - 1, NEW start \in Reach(margin),
         NEW i \in 0 .. StorageSize - margin - 1, NEW j \in Nat,
         i + j <= StorageSize - margin - 1,
         Place(start, i, margin) + j = StorageSize
  PROVE  Place(start, i + j, margin) = margin
BY GeometryAssumption DEF Place, Reach

\* What the wrap of the transfer loop makes of an address within its reach.
LEMMA WrapInReach ==
  ASSUME NEW margin \in 0 .. StorageSize - 1, NEW at \in Reach(margin)
  PROVE  XferWrap(at, margin) = IF at < StorageSize THEN at
                                ELSE (at - StorageSize) + margin
<1>1. StorageSize \in Nat \ {0} /\ at \in Nat /\ at < 2 * StorageSize
  BY GeometryAssumption DEF Reach
<1>2. at % StorageSize = IF at < StorageSize THEN at ELSE at - StorageSize
  BY <1>1, LessThanTwo
<1> QED
  BY <1>1, <1>2 DEF XferWrap

-----------------------------------------------------------------------------
(* What a pass copies, cell by cell                                        *)

\* The cells of two sequences joined.
LEMMA Joined ==
  ASSUME NEW S, NEW a \in Seq(S), NEW b \in Seq(S)
  PROVE  /\ \A i \in 1 .. Len(a) : (a \o b)[i] = a[i]
         /\ \A i \in 1 .. Len(b) : (a \o b)[Len(a) + i] = b[i]
OBVIOUS

\* CopyIn changes n cells from the address on, and shows the rest as before.
LEMMA CopyInCells ==
  ASSUME NEW s \in StoreType, s.page \in Page,
         NEW src \in Seq(Cell), NEW k \in Nat, NEW n \in Nat, k + n <= Len(src),
         NEW off \in Offset, off + n <= PageSize, NEW a \in Addr
  PROVE  View(CopyIn(s, off, src, k, n))[a]
           = IF a - (s.page + off) \in 0 .. n - 1
             THEN src[k + (a - (s.page + off)) + 1] ELSE View(s)[a]
<1> DEFINE c == CopyIn(s, off, src, k, n)
<1>1. c \in StoreType /\ c.page = s.page /\ c.flash = s.flash
  BY CopyInFacts
<1>2. c.data = [i \in Offset |-> IF i - off \in 0 .. n - 1
                                 THEN src[k + (i - off) + 1] ELSE s.data[i]]
  BY DEF CopyIn, StoreType
<1> HIDE DEF c
<1>3. s.page \in Int /\ off \in Int /\ a \in Int /\ n \in Nat
  BY GeometryAssumption DEF Page, Addr, Offset
<1>4. CASE PageOf(a) = s.page
  <2>1. a - s.page \in Offset
    BY <1>4, InPage
  <2>2. View(c)[a] = c.data[a - s.page]
    BY <1>1, <1>4, ViewCell
  <2>3. View(s)[a] = s.data[a - s.page]
    BY <1>4, ViewCell
  <2>4. (a - s.page) - off = a - (s.page + off)
    BY <1>3
  <2>5. c.data[a - s.page] = IF (a - s.page) - off \in 0 .. n - 1
                             THEN src[k + ((a - s.page) - off) + 1]
                             ELSE s.data[a - s.page]
    BY <1>2, <2>1
  <2> QED
    BY <2>2, <2>3, <2>4, <2>5 DEF c
<1>5. CASE PageOf(a) # s.page
  <2>1. a - s.page \notin Offset
    BY <1>5, InPage
  <2>2. a - (s.page + off) \notin 0 .. n - 1
    BY <1>3, <2>1, GeometryAssumption DEF Offset
  <2>3. View(c)[a] = View(s)[a]
    BY <1>1, <1>5, ViewCell
  <2> QED
    BY <2>2, <2>3 DEF c
<1> QED
  BY <1>4, <1>5

\* CopyOut returns what is shown from the address on.
LEMMA CopyOutCells ==
  ASSUME NEW s \in StoreType, s.page \in Page, NEW off \in Offset,
         NEW n \in Nat, off + n <= PageSize, NEW j \in 0 .. n - 1
  PROVE  CopyOut(s, off, n)[j + 1] = View(s)[(s.page + off) + j]
<1>1. off + j \in Offset /\ j + 1 \in 1 .. n /\ off + (j + 1) - 1 = off + j
  BY GeometryAssumption DEF Offset
<1>2. s.page + (off + j) \in Addr /\ PageOf(s.page + (off + j)) = s.page
  BY <1>1, PageCells
<1>3. /\ s.page + (off + j) = (s.page + off) + j
      /\ (s.page + (off + j)) - s.page = off + j
  BY GeometryAssumption DEF Page, Addr, Offset
<1>4. View(s)[s.page + (off + j)] = s.data[off + j]
  BY <1>2, <1>3, ViewCell
<1>5. CopyOut(s, off, n)[j + 1] = s.data[off + j]
  BY <1>1 DEF CopyOut
<1> QED
  BY <1>3, <1>4, <1>5

-----------------------------------------------------------------------------
(* The invariant                                                           *)

Lands(i) == Place(xfer.start, i, xfer.margin)

\* The loop, as long as it goes on, stands at the cell of the next one.
On ==
  /\ xfer.start \in Reach(xfer.margin)
  /\ xfer.len <= StorageSize - xfer.margin
  /\ ~XferDone => XferWrap(xfer.at, xfer.margin) = Lands(xfer.moved)

\* TransferExact, in terms of places.
Moved ==
  /\ xfer.dir = "read" =>
       /\ View(store) = before
       /\ \A i \in 0 .. xfer.moved - 1 : xfer.cells[i + 1] = before[Lands(i)]
  /\ xfer.dir = "write" =>
       /\ \A a \in Addr :
            (\A i \in 0 .. xfer.moved - 1 : Lands(i) # a) => View(store)[a] = before[a]
       /\ \A i \in 0 .. xfer.moved - 1 : View(store)[Lands(i)] = xfer.cells[i + 1]

TransferInv == StoreTypeOK /\ CacheCoherent /\ On /\ Moved

\* A transfer in progress, in numbers.
LEMMA InProgress ==
  ASSUME StoreTypeOK, On
  PROVE  /\ xfer.margin \in 0 .. StorageSize - 1 /\ xfer.start \in Reach(xfer.margin)
         /\ xfer.len \in Nat /\ xfer.moved \in Nat /\ xfer.moved <= xfer.len
         /\ xfer.len <= StorageSize - xfer.margin
         /\ xfer.at \in Reach(xfer.margin)
BY GeometryAssumption DEF StoreTypeOK, XferType, On

\* The invariant says what is promised.
LEMMA MovedMeans ==
  ASSUME StoreTypeOK, On, Moved
  PROVE  TransferExact
<1> DEFINE Landed(a) == {i \in 0 .. xfer.moved - 1 :
                           RingCell(xfer.start, i, xfer.margin) = a}
<1>1. XferDone /\ xfer.margin # 0 => xfer.moved = xfer.len
  BY DEF XferDone
<1>2. ASSUME NEW i \in 0 .. xfer.moved - 1
      PROVE  RingCell(xfer.start, i, xfer.margin) = Lands(i)
  <2>1. i \in 0 .. StorageSize - xfer.margin - 1
    BY InProgress, GeometryAssumption
  <2> QED
    BY <2>1, InProgress, PlaceIsRingCell DEF Lands
<1>3. ASSUME xfer.dir = "read"
      PROVE  /\ View(store) = before
             /\ \A a \in Addr : \A i \in Landed(a) : xfer.cells[i + 1] = before[a]
  BY <1>2, <1>3 DEF Moved
<1>4. ASSUME xfer.dir = "write", NEW a \in Addr
      PROVE  /\ Landed(a) = {} => View(store)[a] = before[a]
             /\ \A i \in Landed(a) : View(store)[a] = xfer.cells[i + 1]
  <2>1. ASSUME Landed(a) = {}
        PROVE  View(store)[a] = before[a]
    <3>1. \A i \in 0 .. xfer.moved - 1 : Lands(i) # a
      BY <1>2, <2>1
    <3> QED
      BY <1>4, <3>1 DEF Moved
  <2>2. ASSUME NEW i \in Landed(a)
        PROVE  View(store)[a] = xfer.cells[i + 1]
    BY <1>2, <1>4 DEF Moved
  <2> QED
    BY <2>1, <2>2
<1> QED
  BY <1>1, <1>3, <1>4 DEF TransferExact

\* Where a pass of the transfer loop leaves the loop and what it has moved.
LEMMA ChunkMoves ==
  ASSUME TransferInv, XferChunk
  PROVE  On' /\ Moved'
<1> DEFINE addr == XferWrap(xfer.at, xfer.margin)
           off  == addr % PageSize
           n    == Smaller(PageSize - off, xfer.len - xfer.moved)
           s    == GetPage(store, PageOf(addr))
<1>1. ~XferDone /\ addr = Lands(xfer.moved) /\ StoreTypeOK /\ CacheCoherent /\ On /\ Moved
  BY DEF XferChunk, TransferInv, On
<1>2. /\ addr \in Addr
      /\ n \in Nat \ {0}
      /\ off + n <= PageSize
      /\ xfer.moved + n <= xfer.len
      /\ addr + n \in Reach(xfer.margin)
  BY <1>1, ChunkBounds
<1>3. off \in Offset /\ PageOf(addr) \in Page /\ addr = PageOf(addr) + off
  BY <1>2, AddrInPage
<1>4. /\ xfer'.dir = xfer.dir /\ xfer'.start = xfer.start /\ xfer'.len = xfer.len
      /\ xfer'.margin = xfer.margin
      /\ xfer'.at = addr + n /\ xfer'.moved = xfer.moved + n
      /\ before' = before
      /\ \/ /\ xfer.dir = "read" /\ store' = s
            /\ xfer'.cells = xfer.cells \o CopyOut(s, off, n)
         \/ /\ xfer.dir = "write"
            /\ store' = CopyIn(s, off, xfer.cells, xfer.moved, n)
            /\ xfer'.cells = xfer.cells
  <2>1. xfer \in XferType
    BY <1>1 DEF StoreTypeOK
  <2> QED
    BY <2>1 DEF XferChunk, XferType
<1> HIDE DEF addr, off, n
<1>5. /\ s \in StoreType
      /\ s.page = PageOf(addr)
      /\ View(s) = View(store)
  BY <1>1, <1>3, GetPageFacts DEF StoreTypeOK, CacheCoherent
<1> HIDE DEF s
<1>6. /\ xfer.margin \in 0 .. StorageSize - 1 /\ xfer.start \in Reach(xfer.margin)
      /\ xfer.len \in Nat /\ xfer.moved \in Nat
      /\ xfer.len <= StorageSize - xfer.margin /\ StorageSize \in Nat
  BY <1>1, InProgress, GeometryAssumption
<1>7. addr \in Nat /\ addr + n <= StorageSize
  <2>1. PageSize - 1 \in Offset
    BY GeometryAssumption DEF Offset
  <2>2. PageOf(addr) + (PageSize - 1) \in Addr
    BY <1>3, <2>1, PageCells
  <2> QED
    BY <1>2, <1>3, <2>2, GeometryAssumption DEF Addr, Page, Offset
\* The cells of this pass lie side by side.
<1>8. ASSUME NEW j \in 0 .. n - 1
      PROVE  /\ Lands(xfer.moved + j) = addr + j
             /\ addr + j \in Addr
  <2>1. /\ xfer.moved \in 0 .. StorageSize - xfer.margin - 1 /\ j \in Nat
        /\ xfer.moved + j <= StorageSize - xfer.margin - 1
        /\ addr + j < StorageSize
    BY <1>2, <1>6, <1>7
  <2>2. Lands(xfer.moved + j) = Lands(xfer.moved) + j
    BY <1>1, <1>6, <2>1, PlacesRun DEF Lands
  <2> QED
    BY <1>1, <1>6, <1>7, <2>1, <2>2 DEF Addr
\* The rest were moved before, and lie elsewhere.
<1>9. ASSUME NEW i \in 0 .. xfer.moved - 1
      PROVE  Lands(i) \in Addr /\ Lands(i) - addr \notin 0 .. n - 1
  <2>1. i \in 0 .. StorageSize - xfer.margin - 1
    BY <1>2, <1>6
  <2>2. Lands(i) \in Addr
    BY <1>6, <2>1, PlaceIsRingCell DEF Lands
  <2>3. ASSUME NEW j \in 0 .. n - 1, Lands(i) = addr + j
        PROVE  FALSE
    <3>1. xfer.moved + j \in 0 .. StorageSize - xfer.margin - 1
      BY <1>2, <1>6
    <3>2. Lands(i) = Lands(xfer.moved + j)
      BY <1>8, <2>3
    <3>3. i = xfer.moved + j
      BY <1>6, <2>1, <3>1, <3>2, PlacesApart DEF Lands
    <3> QED
      BY <1>6, <3>3
  <2>4. ASSUME Lands(i) - addr \in 0 .. n - 1
        PROVE  FALSE
    <3>1. Lands(i) = addr + (Lands(i) - addr)
      BY <1>7, <2>2, <1>6 DEF Addr
    <3> QED
      BY <2>3, <2>4, <3>1
  <2> QED
    BY <2>2, <2>4
<1>10. \A i : Lands(i)' = Lands(i)
  BY <1>4 DEF Lands
<1>11. On'
  <2>1. xfer'.start \in Reach(xfer'.margin) /\ xfer'.len <= StorageSize - xfer'.margin
    BY <1>4, <1>6
  <2>2. ASSUME ~XferDone'
        PROVE  XferWrap(addr + n, xfer.margin) = Lands(xfer.moved + n)
    <3>1. xfer.moved + n < xfer.len /\ (addr + n < StorageSize \/ xfer.margin # 0)
      BY <1>2, <1>4, <1>6, <1>7, <2>2 DEF XferDone
    <3>2. /\ xfer.moved \in 0 .. StorageSize - xfer.margin - 1 /\ n \in Nat
          /\ xfer.moved + n <= StorageSize - xfer.margin - 1
      BY <1>2, <1>6, <3>1
    <3>3. CASE addr + n < StorageSize
      <4>1. XferWrap(addr + n, xfer.margin) = addr + n
        BY <1>2, <1>6, <1>7, <3>3 DEF XferWrap
      <4>2. Lands(xfer.moved + n) = Lands(xfer.moved) + n
        BY <1>1, <1>6, <3>2, <3>3, PlacesRun DEF Lands
      <4> QED
        BY <1>1, <4>1, <4>2
    <3>4. CASE addr + n = StorageSize
      <4>1. XferWrap(addr + n, xfer.margin) = xfer.margin
        BY <1>2, <1>6, <3>4, WrapInReach
      <4>2. Lands(xfer.moved + n) = xfer.margin
        BY <1>1, <1>6, <3>2, <3>4, PlacesWrap DEF Lands
      <4> QED
        BY <4>1, <4>2
    <3> QED
      BY <1>2, <1>6, <1>7, <3>3, <3>4
  <2>3. (~XferDone => XferWrap(xfer.at, xfer.margin) = Lands(xfer.moved))'
    BY <1>4, <1>10, <2>2
  <2> QED
    BY <2>1, <2>3 DEF On
<1>12. CASE xfer.dir = "read"
  <2>1. store' = s /\ xfer'.cells = xfer.cells \o CopyOut(s, off, n) /\ View(store) = before
    BY <1>1, <1>4, <1>12 DEF Moved
  <2>2. /\ xfer.cells \in Seq(Cell) /\ Len(xfer.cells) = xfer.moved
        /\ CopyOut(s, off, n) \in Seq(Cell) /\ Len(CopyOut(s, off, n)) = n
    BY <1>1, <1>2, <1>3, <1>5, <1>12, CopyOutFacts DEF StoreTypeOK, XferType
  <2> DEFINE got == CopyOut(s, off, n)
  <2>3. /\ \A i \in 1 .. xfer.moved : xfer'.cells[i] = xfer.cells[i]
        /\ \A i \in 1 .. n : xfer'.cells[xfer.moved + i] = got[i]
    <3>1. /\ xfer'.cells = xfer.cells \o got /\ Len(xfer.cells) = xfer.moved
          /\ xfer.cells \in Seq(Cell) /\ got \in Seq(Cell) /\ Len(got) = n
      BY <2>1, <2>2
    <3> HIDE DEF got
    <3>2. /\ \A i \in 1 .. Len(xfer.cells) : (xfer.cells \o got)[i] = xfer.cells[i]
          /\ \A i \in 1 .. Len(got) : (xfer.cells \o got)[Len(xfer.cells) + i] = got[i]
      <4>1. PICK c \in Seq(Cell), d \in Seq(Cell) : c = xfer.cells /\ d = got
        BY <3>1
      <4>2. /\ \A i \in 1 .. Len(c) : (c \o d)[i] = c[i]
            /\ \A i \in 1 .. Len(d) : (c \o d)[Len(c) + i] = d[i]
        BY Joined
      <4> QED
        BY <4>1, <4>2
    <3> QED
      BY <3>1, <3>2
  <2>4. ASSUME NEW i \in 0 .. xfer.moved + n - 1
        PROVE  xfer'.cells[i + 1] = before[Lands(i)]
    <3>1. CASE i < xfer.moved
      <4>1. i \in 0 .. xfer.moved - 1 /\ i + 1 \in 1 .. xfer.moved
        BY <1>6, <3>1
      <4>2. xfer'.cells[i + 1] = xfer.cells[i + 1]
        BY <2>3, <4>1
      <4> QED
        BY <1>1, <1>12, <4>1, <4>2 DEF Moved
    <3>2. CASE i >= xfer.moved
      <4>1. PICK j \in 0 .. n - 1 : i = xfer.moved + j
        <5>1. i - xfer.moved \in 0 .. n - 1 /\ i = xfer.moved + (i - xfer.moved)
          BY <1>2, <1>6, <3>2
        <5> QED
          BY <5>1
      <4>2. xfer'.cells[i + 1] = CopyOut(s, off, n)[j + 1]
        <5>1. xfer.moved + (j + 1) = i + 1
          BY <1>2, <1>6, <4>1
        <5>2. j + 1 \in 1 .. n
          BY <1>2
        <5> QED
          BY <2>3, <5>1, <5>2
      <4>3. CopyOut(s, off, n)[j + 1] = View(s)[(s.page + off) + j]
        BY <1>2, <1>3, <1>5, CopyOutCells
      <4>4. (s.page + off) + j = Lands(i)
        BY <1>3, <1>5, <1>8, <4>1
      <4> QED
        BY <1>5, <2>1, <4>2, <4>3, <4>4
    <3> QED
      BY <1>6, <3>1, <3>2
  <2>5. View(store') = before
    BY <1>5, <2>1
  <2>6. (/\ xfer.dir = "read"
         /\ View(store) = before
         /\ \A i \in 0 .. xfer.moved - 1 : xfer.cells[i + 1] = before[Lands(i)])'
    <3>1. xfer'.dir = "read" /\ View(store)' = before'
      BY <1>4, <1>12, <2>5
    <3>2. (\A i \in 0 .. xfer.moved - 1 : xfer.cells[i + 1] = before[Lands(i)])'
      <4>1. ASSUME NEW i \in 0 .. xfer'.moved - 1
            PROVE  xfer'.cells[i + 1] = before'[Place(xfer'.start, i, xfer'.margin)]
        BY <1>2, <1>4, <1>6, <2>4, <4>1 DEF Lands
      <4> QED
        BY <4>1 DEF Lands
    <3> QED
      BY <3>1, <3>2
  <2> QED
    BY <1>11, <2>6 DEF Moved
<1>13. CASE xfer.dir = "write"
  <2>1. store' = CopyIn(s, off, xfer.cells, xfer.moved, n) /\ xfer'.cells = xfer.cells
    BY <1>4, <1>13
  <2>2. xfer.cells \in Seq(Cell) /\ Len(xfer.cells) = xfer.len
    BY <1>1, <1>13 DEF StoreTypeOK, XferType
  <2>3. ASSUME NEW a \in Addr
        PROVE  View(store')[a] = IF a - addr \in 0 .. n - 1
                                 THEN xfer.cells[xfer.moved + (a - addr) + 1]
                                 ELSE View(store)[a]
    <3>1. /\ s \in StoreType /\ s.page \in Page /\ s.page + off = addr
          /\ xfer.cells \in Seq(Cell) /\ xfer.moved + n <= Len(xfer.cells)
          /\ xfer.moved \in Nat /\ n \in Nat
          /\ off \in Offset /\ off + n <= PageSize
      BY <1>2, <1>3, <1>5, <1>6, <2>2
    <3>2. View(CopyIn(s, off, xfer.cells, xfer.moved, n))[a]
            = IF a - (s.page + off) \in 0 .. n - 1
              THEN xfer.cells[xfer.moved + (a - (s.page + off)) + 1] ELSE View(s)[a]
      BY <3>1, CopyInCells
    <3> QED
      BY <1>5, <2>1, <3>1, <3>2
  <2>4. ASSUME NEW i \in 0 .. xfer.moved + n - 1
        PROVE  View(store')[Lands(i)] = xfer.cells[i + 1]
    <3>1. CASE i < xfer.moved
      <4>1. i \in 0 .. xfer.moved - 1
        BY <1>6, <3>1
      <4>2. View(store')[Lands(i)] = View(store)[Lands(i)]
        BY <1>9, <2>3, <4>1
      <4> QED
        BY <1>1, <1>13, <4>1, <4>2 DEF Moved
    <3>2. CASE i >= xfer.moved
      <4>1. PICK j \in 0 .. n - 1 : i = xfer.moved + j
        <5>1. i - xfer.moved \in 0 .. n - 1 /\ i = xfer.moved + (i - xfer.moved)
          BY <1>2, <1>6, <3>2
        <5> QED
          BY <5>1
      <4>2. Lands(i) = addr + j /\ addr + j \in Addr /\ (addr + j) - addr = j
        BY <1>7, <1>8, <4>1
      <4> QED
        BY <2>3, <4>1, <4>2
    <3> QED
      BY <1>6, <3>1, <3>2
  <2>5. ASSUME NEW a \in Addr, \A i \in 0 .. xfer.moved + n - 1 : Lands(i) # a
        PROVE  View(store')[a] = before[a]
    <3>1. \A i \in 0 .. xfer.moved - 1 : Lands(i) # a
      BY <1>2, <1>6, <2>5
    <3>2. View(store)[a] = before[a]
      BY <1>1, <1>13, <3>1 DEF Moved
    <3>3. a - addr \notin 0 .. n - 1
      <4>1. ASSUME NEW j \in 0 .. n - 1, a - addr = j
            PROVE  FALSE
        <5>1. a = addr + j /\ xfer.moved + j \in 0 .. xfer.moved + n - 1
          BY <1>2, <1>6, <1>7, <4>1 DEF Addr
        <5> QED
          BY <1>8, <2>5, <5>1
      <4> QED
        BY <4>1
    <3> QED
      BY <2>3, <3>2, <3>3
  <2>6. (/\ xfer.dir = "write"
         /\ \A a \in Addr : (\A i \in 0 .. xfer.moved - 1 : Lands(i) # a)
                             => View(store)[a] = before[a]
         /\ \A i \in 0 .. xfer.moved - 1 : View(store)[Lands(i)] = xfer.cells[i + 1])'
    <3>1. xfer'.dir = "write"
      BY <1>4, <1>13
    <3>2. (\A a \in Addr : (\A i \in 0 .. xfer.moved - 1 : Lands(i) # a)
                            => View(store)[a] = before[a])'
      <4>1. ASSUME NEW a \in Addr,
                   \A i \in 0 .. xfer'.moved - 1 : Place(xfer'.start, i, xfer'.margin) # a
            PROVE  View(store')[a] = before'[a]
        BY <1>2, <1>4, <1>6, <2>5, <4>1 DEF Lands
      <4> QED
        BY <4>1 DEF Lands
    <3>3. (\A i \in 0 .. xfer.moved - 1 : View(store)[Lands(i)] = xfer.cells[i + 1])'
      <4>1. ASSUME NEW i \in 0 .. xfer'.moved - 1
            PROVE  View(store')[Place(xfer'.start, i, xfer'.margin)] = xfer'.cells[i + 1]
        BY <1>2, <1>4, <1>6, <2>1, <2>4, <4>1 DEF Lands
      <4> QED
        BY <4>1 DEF Lands
    <3> QED
      BY <3>1, <3>2, <3>3
  <2> QED
    BY <1>11, <2>6 DEF Moved
<1> QED
  BY <1>4, <1>12, <1>13

\* Entry of the transfer loop: nothing has been moved.
LEMMA BeginMoves ==
  ASSUME NEW s \in StoreType, Coherent(s),
         NEW margin \in 0 .. StorageSize - 1, NEW addr \in Reach(margin),
         NEW dir \in {"read", "write"}, NEW len \in Nat, len <= StorageSize - margin,
         NEW cells, Begin(dir, s, addr, len, margin, cells)
  PROVE  On' /\ Moved'
<1>1. /\ store' = Flush(s)
      /\ xfer' = [dir |-> dir, start |-> addr, at |-> addr, len |-> len, moved |-> 0,
                  margin |-> margin, cells |-> cells]
      /\ before' = View(s)
  BY DEF Begin
<1>2. View(store') = before'
  BY <1>1, FlushFacts
<1>3. XferWrap(addr, margin) = Place(addr, 0, margin)
  BY WrapInReach, GeometryAssumption DEF Place, Reach
<1>4. On'
  BY <1>1, <1>3 DEF On, Lands
<1>5. 0 .. xfer'.moved - 1 = {}
  BY <1>1
<1> QED
  BY <1>2, <1>4, <1>5 DEF Moved

\* Between transfers there is nothing to say.
LEMMA NoneMoved ==
  ASSUME xfer = NoXfer
  PROVE  On /\ Moved
BY GeometryAssumption DEF On, Moved, NoXfer, Reach, XferDone

\* Every step keeps the invariant.
LEMMA TransferStep ==
  ASSUME TransferInv, [StoreNext]_storeVars
  PROVE  TransferInv'
<1>1. StoreTypeOK' /\ CacheCoherent'
  BY StepFacts DEF TransferInv
<1>2. StoreTypeOK /\ CacheCoherent /\ On /\ Moved
  BY DEF TransferInv
<1>3. ASSUME NEW margin \in Margins, NEW addr \in Reach(margin),
             NEW cells \in Payloads, BeginWrite(store, addr, cells, margin)
      PROVE  On' /\ Moved'
  <2>1. /\ Len(cells) \in Nat /\ Len(cells) <= StorageSize - margin
        /\ margin \in 0 .. StorageSize - 1
    BY CallerAssumption, GeometryAssumption
  <2>2. Begin("write", store, addr, Len(cells), margin, cells)
    BY <1>3 DEF BeginWrite
  <2> QED
    BY <1>2, <2>1, <2>2, BeginMoves DEF StoreTypeOK, CacheCoherent
<1>4. ASSUME NEW margin \in Margins, NEW addr \in Reach(margin),
             NEW len \in 1 .. MaxLen, BeginRead(store, addr, len, margin)
      PROVE  On' /\ Moved'
  <2>1. len \in Nat /\ len <= StorageSize - margin /\ margin \in 0 .. StorageSize - 1
    BY CallerAssumption, GeometryAssumption
  <2>2. Begin("read", store, addr, len, margin, <<>>)
    BY <1>4 DEF BeginRead
  <2> QED
    BY <1>2, <2>1, <2>2, BeginMoves DEF StoreTypeOK, CacheCoherent
<1>5. ASSUME XferChunk
      PROVE  On' /\ Moved'
  BY <1>5, ChunkMoves
<1>6. ASSUME xfer' = NoXfer
      PROVE  On' /\ Moved'
  BY <1>6, GeometryAssumption DEF On, Moved, NoXfer, Reach, XferDone
<1>7. ASSUME UNCHANGED storeVars
      PROVE  On' /\ Moved'
  BY <1>2, <1>7 DEF storeVars, On, Moved, Lands, XferDone
<1>8. ASSUME Call
      PROVE  On' /\ Moved'
  <2>1. xfer = NoXfer
    BY <1>8 DEF Call
  <2>2. CASE xfer' = xfer
    BY <1>6, <2>1, <2>2
  <2> QED
    BY <1>3, <1>4, <1>8, <2>2 DEF Call, CallGetPage, CallFlush
<1>9. On' /\ Moved'
  BY <1>5, <1>6, <1>7, <1>8 DEF StoreNext, XferReturn, Reset
<1> QED
  BY <1>1, <1>9 DEF TransferInv

\* A write changes exactly the ring cells it was asked to, each to what it was
\* given, and a read returns what is there: for every geometry, margin and
\* length, through every page boundary and wrap (buffered_xfer_wrapped).
THEOREM StoreTransferExact == StoreSpec => []TransferExact
<1>1. StoreInit => TransferInv
  <2> SUFFICES ASSUME StoreInit PROVE TransferInv
    OBVIOUS
  <2>1. xfer = NoXfer
    BY DEF StoreInit
  <2> QED
    BY <2>1, InitFacts, NoneMoved DEF TransferInv
<1>2. TransferInv /\ [StoreNext]_storeVars => TransferInv'
  BY TransferStep
<1>3. TransferInv => TransferExact
  BY MovedMeans DEF TransferInv
<1> QED
  BY <1>1, <1>2, <1>3, PTL DEF StoreSpec

-----------------------------------------------------------------------------
(* Remainders.                                                             *)

\* The remainder is the only one.
LEMMA RemainderUnique ==
  ASSUME NEW k \in Nat \ {0}, NEW n \in Int, NEW q \in Int, NEW r \in 0 .. k - 1,
         n = (k * q) + r
  PROVE  n % k = r
<1>1. n % k \in 0 .. k - 1 /\ n \div k \in Int /\ n = (k * (n \div k)) + (n % k)
  OBVIOUS
<1>2. ASSUME q < n \div k PROVE FALSE
  <2>1. k * (q + 1) <= k * (n \div k)
    BY <1>1, <1>2
  <2>2. k * (q + 1) = (k * q) + k
    OBVIOUS
  <2>3. QED
    BY <1>1, <2>1, <2>2
<1>3. ASSUME q > n \div k PROVE FALSE
  <2>1. k * ((n \div k) + 1) <= k * q
    BY <1>1, <1>3
  <2>2. k * ((n \div k) + 1) = (k * (n \div k)) + k
    BY <1>1
  <2>3. QED
    BY <1>1, <2>1, <2>2
<1>4. q = n \div k
  BY <1>1, <1>2, <1>3
<1>5. QED
  BY <1>1, <1>4

\* A number less than two rings long.
LEMMA WithinTwo ==
  ASSUME NEW k \in Nat \ {0}, NEW n \in 0 .. 2 * k - 1
  PROVE  n % k = IF n < k THEN n ELSE n - k
<1>1. CASE n < k
  <2>1. n \in 0 .. k - 1 /\ n = (k * 0) + n
    BY <1>1
  <2>2. QED
    BY <1>1, <2>1, RemainderUnique
<1>2. CASE n >= k
  <2>1. n - k \in 0 .. k - 1 /\ n = (k * 1) + (n - k)
    BY <1>2
  <2>2. QED
    BY <1>2, <2>1, RemainderUnique
<1>3. QED
  BY <1>1, <1>2

\* The place i cells further on, where i may be negative.
LEMMA FurtherOn ==
  ASSUME NEW k \in Nat \ {0}, NEW n \in Int, NEW i \in Int
  PROVE  (n + i) % k = ((n % k) + i) % k
<1> DEFINE r == n % k
<1> DEFINE s == (r + i) % k
<1>1. r \in 0 .. k - 1 /\ n \div k \in Int /\ n = (k * (n \div k)) + r
  OBVIOUS
<1>2. s \in 0 .. k - 1 /\ (r + i) \div k \in Int
      /\ r + i = (k * ((r + i) \div k)) + s
  BY <1>1
<1>3. PICK p \in Int, q \in Int : n = (k * p) + r /\ r + i = (k * q) + s
  BY <1>1, <1>2
<1>4. n + i = (k * (p + q)) + s
  BY <1>1, <1>2, <1>3
<1>5. QED
  <2> HIDE DEF r, s
  <2>1. (n + i) % k = s
    BY <1>2, <1>4, RemainderUnique
  <2>2. QED
    BY <2>1 DEF r, s

\* The remainder by a name of its own: from here on only these facts about it
\* are used.
Rem(n, k) == n % k

\* A place in the ring, of a number less than two rings long.
Reduced(n, k) == IF n < k THEN n ELSE n - k

\* How far it is from one place of the ring to another, going forward.
Ahead(from, to, k) == IF to >= from THEN to - from ELSE (to - from) + k

\* A remainder is a place of the ring.
LEMMA RemIsPlace ==
  ASSUME NEW k \in Nat \ {0}, NEW n \in Int
  PROVE  Rem(n, k) \in 0 .. k - 1
BY DEF Rem

\* WithinTwo in these terms.
LEMMA RemWithinTwo ==
  ASSUME NEW k \in Nat \ {0}, NEW n \in 0 .. 2 * k - 1
  PROVE  Rem(n, k) = Reduced(n, k)
BY WithinTwo DEF Rem, Reduced

\* FurtherOn in these terms.
LEMMA RemFurtherOn ==
  ASSUME NEW k \in Nat \ {0}, NEW n \in Int, NEW i \in Int,
         NEW g \in 0 .. k - 1, g = Rem(n, k)
  PROVE  Rem(n + i, k) = Rem(g + i, k)
BY FurtherOn DEF Rem

\* A whole ring more does not change a place.
LEMMA RingMore ==
  ASSUME NEW k \in Nat \ {0}, NEW n \in 0 .. k - 1
  PROVE  Rem(n + k, k) = n
<1>1. n + k \in 0 .. 2 * k - 1
  OBVIOUS
<1>2. Rem(n + k, k) = Reduced(n + k, k)
  BY <1>1, RemWithinTwo
<1>3. QED
  BY <1>2 DEF Reduced

\* A whole ring more or less does not change a remainder.
LEMMA SameWithRing ==
  ASSUME NEW k \in Nat \ {0}, NEW n \in Int
  PROVE  Rem(n + k, k) = Rem(n, k) /\ Rem(n - k, k) = Rem(n, k)
<1>1. ASSUME NEW x \in Int PROVE Rem(x + k, k) = Rem(x, k)
  <2>1. PICK g \in 0 .. k - 1 : g = Rem(x, k)
    BY RemIsPlace
  <2>2. Rem(x + k, k) = Rem(g + k, k)
    <3>1. k \in Int
      OBVIOUS
    <3>2. QED
      BY <2>1, <3>1, RemFurtherOn
  <2>3. Rem(g + k, k) = g
    BY RingMore
  <2>4. QED
    BY <2>1, <2>2, <2>3
<1>2. PICK y \in Int : y = n - k
  OBVIOUS
<1>3. n = y + k
  BY <1>2
<1>4. Rem(y + k, k) = Rem(y, k)
  BY <1>1
<1>5. QED
  BY <1>1, <1>2, <1>3, <1>4

\* What the macro m(x) makes of a sum.
LEMMA SumInRing ==
  ASSUME NEW k \in Nat \ {0}, NEW x \in Int, NEW y \in 0 .. k - 1,
         NEW g \in 0 .. k - 1, g = Rem(x, k)
  PROVE  Rem((x + y) + k, k) = Reduced(g + y, k)
<1>1. Rem((x + y) + k, k) = Rem(x + y, k)
  BY SameWithRing
<1>2. Rem(x + y, k) = Rem(g + y, k)
  <2>1. y \in Int
    OBVIOUS
  <2>2. QED
    BY <2>1, RemFurtherOn
<1>3. g + y \in 0 .. 2 * k - 1
  OBVIOUS
<1>4. Rem(g + y, k) = Reduced(g + y, k)
  BY <1>3, RemWithinTwo
<1>5. QED
  BY <1>1, <1>2, <1>4

\* What the macro m(x) makes of a difference.
LEMMA DifferenceInRing ==
  ASSUME NEW k \in Nat \ {0}, NEW x \in Int,
         NEW g \in 0 .. k - 1, g = Rem(x, k), NEW r \in 0 .. k - 1
  PROVE  Rem((x - r) + k, k) = Ahead(r, g, k)
<1>1. PICK z \in Int : z = k - r
  OBVIOUS
<1>2. (x - r) + k = x + z /\ g + z \in 0 .. 2 * k - 1
  BY <1>1
<1>3. Rem(x + z, k) = Rem(g + z, k)
  BY RemFurtherOn
<1>4. Rem(g + z, k) = Reduced(g + z, k)
  BY <1>2, RemWithinTwo
<1>5. Reduced(g + z, k) = Ahead(r, g, k)
  BY <1>1 DEF Reduced, Ahead
<1>6. QED
  BY <1>2, <1>3, <1>4, <1>5

-----------------------------------------------------------------------------
(* Spans.                                                                  *)

\* RingCell, the reference, as a place behind the margin.
LEMMA CellIsPlace ==
  ASSUME NEW margin \in 0 .. StorageSize - 1, NEW start \in Nat, start >= margin,
         NEW i \in Nat
  PROVE  RingCell(start, i, margin)
           = margin + Rem((start - margin) + i, StorageSize - margin)
<1>1. StorageSize \in Nat
  BY GeometryAssumption
<1>2. PICK k \in Nat \ {0}, n \in Nat : k = StorageSize - margin
                                        /\ n = (start - margin) + i
  BY <1>1
<1>3. CASE start + i < StorageSize
  <2>1. n \in 0 .. 2 * k - 1 /\ n < k /\ start + i = margin + n
    BY <1>1, <1>2, <1>3
  <2>2. Rem(n, k) = n
    BY <1>2, <2>1, RemWithinTwo DEF Reduced
  <2>3. QED
    BY <1>2, <1>3, <2>1, <2>2 DEF RingCell
<1>4. CASE ~(start + i < StorageSize)
  <2>1. (start + i) - StorageSize = n - k
    BY <1>1, <1>2
  <2>2. Rem(n - k, k) = Rem(n, k)
    BY SameWithRing
  <2>3. RingCell(start, i, margin) = margin + Rem((start + i) - StorageSize, k)
    BY <1>1, <1>2, <1>4 DEF RingCell, Rem
  <2>4. QED
    BY <1>2, <2>1, <2>2, <2>3
<1>5. QED
  BY <1>3, <1>4

\* Two spans share a place just when one of them starts within the other.
LEMMA SharedPlace ==
  ASSUME NEW k \in Nat \ {0}, NEW l \in 0 .. k - 1, NEW r \in 0 .. k - 1,
         NEW m \in 0 .. k - 1, NEW n \in 0 .. k - 1
  PROVE  (\E i \in 0 .. m - 1, j \in 0 .. n - 1 :
            Reduced(l + i, k) = Reduced(r + j, k))
           <=> \/ n # 0 /\ Ahead(l, r, k) < m
               \/ m # 0 /\ Ahead(r, l, k) < n
<1>1. ASSUME NEW i \in 0 .. m - 1, NEW j \in 0 .. n - 1,
             Reduced(l + i, k) = Reduced(r + j, k)
      PROVE  \/ n # 0 /\ Ahead(l, r, k) < m
             \/ m # 0 /\ Ahead(r, l, k) < n
  BY <1>1 DEF Reduced, Ahead
<1>2. ASSUME n # 0, Ahead(l, r, k) < m
      PROVE  \E i \in 0 .. m - 1, j \in 0 .. n - 1 :
               Reduced(l + i, k) = Reduced(r + j, k)
  <2>1. Ahead(l, r, k) \in 0 .. m - 1
    BY <1>2 DEF Ahead
  <2> DEFINE i == Ahead(l, r, k)
  <2>2. Reduced(l + i, k) = Reduced(r + 0, k) /\ 0 \in 0 .. n - 1
    BY <1>2, <2>1 DEF Reduced, Ahead
  <2>3. QED
    BY <2>1, <2>2
<1>3. ASSUME m # 0, Ahead(r, l, k) < n
      PROVE  \E i \in 0 .. m - 1, j \in 0 .. n - 1 :
               Reduced(l + i, k) = Reduced(r + j, k)
  <2>1. Ahead(r, l, k) \in 0 .. n - 1
    BY <1>3 DEF Ahead
  <2> DEFINE j == Ahead(r, l, k)
  <2>2. Reduced(l + 0, k) = Reduced(r + j, k) /\ 0 \in 0 .. m - 1
    BY <1>3, <2>1 DEF Reduced, Ahead
  <2>3. QED
    BY <2>1, <2>2
<1>4. QED
  BY <1>1, <1>2, <1>3

\* The code's comparison, of the four differences it computes.
Compared(w0, w1, ca, ac) == (w1 # 0 /\ ca < w0) \/ (w0 # 0 /\ ac < w1)

\* The code's local names replaced by what they stand for.
LEMMA OverlapUnfolded ==
  ASSUME NEW margin, NEW lhsStart, NEW lhsSize, NEW rhsStart, NEW rhsSize,
         NEW k, k = StorageSize - margin,
         NEW a, a = lhsStart - margin, NEW c, c = rhsStart - margin,
         NEW b, b = Rem((a + Rem(lhsSize, k)) + k, k),
         NEW d, d = Rem((c + Rem(rhsSize, k)) + k, k)
  PROVE  RangesOverlap(lhsStart, lhsSize, rhsStart, rhsSize, margin)
           = Compared(Rem((b - Rem(a, k)) + k, k), Rem((d - Rem(c, k)) + k, k),
                      Rem((c - Rem(a, k)) + k, k), Rem((a - Rem(c, k)) + k, k))
BY DEF RangesOverlap, Compared, Rem

\* What it comes to, in terms of the places where the spans start.
LEMMA OverlapMeans ==
  ASSUME NEW margin, NEW lhsStart, NEW rhsStart,
         NEW k \in Nat \ {0}, k = StorageSize - margin,
         NEW a \in Int, a = lhsStart - margin, NEW c \in Int, c = rhsStart - margin,
         NEW l \in 0 .. k - 1, l = Rem(a, k), NEW r \in 0 .. k - 1, r = Rem(c, k),
         NEW m \in 0 .. k - 1, NEW n \in 0 .. k - 1
  PROVE  RangesOverlap(lhsStart, m, rhsStart, n, margin)
           = Compared(m, n, Ahead(l, r, k), Ahead(r, l, k))
<1>1. PICK b \in 0 .. k - 1, d \in 0 .. k - 1 :
           b = Reduced(l + m, k) /\ d = Reduced(r + n, k)
  BY DEF Reduced
<1>2. /\ Rem(m, k) = m /\ Rem(n, k) = n
      /\ Rem(b, k) = b /\ Rem(d, k) = d
  BY RemWithinTwo DEF Reduced
<1>3. Rem((a + m) + k, k) = b
  <2>1. Rem((a + m) + k, k) = Reduced(l + m, k)
    BY SumInRing
  <2>2. QED
    BY <1>1, <2>1
<1>4. Rem((c + n) + k, k) = d
  <2>1. Rem((c + n) + k, k) = Reduced(r + n, k)
    BY SumInRing
  <2>2. QED
    BY <1>1, <2>1
<1>5. Rem((c - l) + k, k) = Ahead(l, r, k)
  BY DifferenceInRing
<1>6. Rem((a - r) + k, k) = Ahead(r, l, k)
  BY DifferenceInRing
<1>7. b \in Int /\ d \in Int
  OBVIOUS
<1>8. Rem((b - l) + k, k) = Ahead(l, b, k)
  BY <1>2, <1>7, DifferenceInRing
<1>9. Rem((d - r) + k, k) = Ahead(r, d, k)
  BY <1>2, <1>7, DifferenceInRing
<1>10. Ahead(l, b, k) = m /\ Ahead(r, d, k) = n
  BY <1>1 DEF Reduced, Ahead
<1>11. RangesOverlap(lhsStart, m, rhsStart, n, margin)
         = Compared(Rem((b - l) + k, k), Rem((d - r) + k, k),
                    Rem((c - l) + k, k), Rem((a - r) + k, k))
  <2>1. b = Rem((a + Rem(m, k)) + k, k) /\ d = Rem((c + Rem(n, k)) + k, k)
    BY <1>2, <1>3, <1>4
  <2>2. RangesOverlap(lhsStart, m, rhsStart, n, margin)
          = Compared(Rem((b - Rem(a, k)) + k, k), Rem((d - Rem(c, k)) + k, k),
                     Rem((c - Rem(a, k)) + k, k), Rem((a - Rem(c, k)) + k, k))
    BY <2>1, OverlapUnfolded
  <2>3. QED
    BY <2>2
<1>12. QED
  BY <1>5, <1>6, <1>8, <1>9, <1>10, <1>11

\* The cell of a span that lies i cells after its start.
LEMMA CellInSpan ==
  ASSUME NEW margin \in 0 .. StorageSize - 1, NEW start \in Nat, start >= margin,
         NEW k \in Nat \ {0}, k = StorageSize - margin,
         NEW l \in 0 .. k - 1, l = Rem(start - margin, k), NEW i \in 0 .. k - 1
  PROVE  RingCell(start, i, margin) = margin + Reduced(l + i, k)
<1>1. i \in Nat /\ i \in Int
  OBVIOUS
<1>2. PICK n \in Int : n = start - margin
  BY GeometryAssumption
<1>3. RingCell(start, i, margin) = margin + Rem(n + i, k)
  BY <1>1, <1>2, CellIsPlace
<1>4. Rem(n + i, k) = Rem(l + i, k)
  BY <1>1, <1>2, RemFurtherOn
<1>5. l + i \in 0 .. 2 * k - 1
  OBVIOUS
<1>6. Rem(l + i, k) = Reduced(l + i, k)
  BY <1>5, RemWithinTwo
<1>7. QED
  BY <1>3, <1>4, <1>6

\* What a query is made of.
LEMMA QueryParts ==
  ASSUME NEW margin \in 0 .. StorageSize - 1, NEW q \in Spans(margin)
  PROVE  /\ q.margin = margin
         /\ q.lhsStart \in Nat /\ q.lhsStart >= margin
         /\ q.rhsStart \in Nat /\ q.rhsStart >= margin
         /\ q.lhsSize \in 0 .. (StorageSize - margin) - 1
         /\ q.rhsSize \in 0 .. (StorageSize - margin) - 1
BY GeometryAssumption, PastAssumption DEF Spans

\* The code's answer is about shared cells.
LEMMA AnswerIsRight ==
  ASSUME NEW margin \in 0 .. StorageSize - 1, NEW q \in Spans(margin)
  PROVE  RangesOverlap(q.lhsStart, q.lhsSize, q.rhsStart, q.rhsSize, q.margin)
           <=> SpanCells(q.lhsStart, q.lhsSize, q.margin)
                 \cap SpanCells(q.rhsStart, q.rhsSize, q.margin) # {}
<1>1. PICK k \in Nat \ {0} : k = StorageSize - margin
  BY GeometryAssumption
<1> DEFINE ls == q.lhsStart
           rs == q.rhsStart
           m  == q.lhsSize
           n  == q.rhsSize
<1>2. /\ ls \in Nat /\ ls >= margin /\ m \in 0 .. k - 1
      /\ rs \in Nat /\ rs >= margin /\ n \in 0 .. k - 1
      /\ q.margin = margin
  BY <1>1, QueryParts
<1> HIDE DEF ls, rs, m, n
<1>3. PICK a \in Int, c \in Int : a = ls - margin /\ c = rs - margin
  BY <1>2, GeometryAssumption
<1>4. PICK l \in 0 .. k - 1, r \in 0 .. k - 1 : l = Rem(a, k) /\ r = Rem(c, k)
  BY <1>3, RemIsPlace
<1>5. RangesOverlap(ls, m, rs, n, margin)
        = Compared(m, n, Ahead(l, r, k), Ahead(r, l, k))
  <2>1. m \in 0 .. k - 1 /\ n \in 0 .. k - 1
    BY <1>2
  <2>2. QED
    BY <1>1, <1>3, <1>4, <2>1, OverlapMeans, SMTT(30)
<1>6. (\E i \in 0 .. m - 1, j \in 0 .. n - 1 : Reduced(l + i, k) = Reduced(r + j, k))
        <=> \/ n # 0 /\ Ahead(l, r, k) < m
            \/ m # 0 /\ Ahead(r, l, k) < n
  BY <1>2, SharedPlace
<1>7. ASSUME NEW i \in 0 .. m - 1, NEW j \in 0 .. n - 1
      PROVE  RingCell(ls, i, margin) = RingCell(rs, j, margin)
               <=> Reduced(l + i, k) = Reduced(r + j, k)
  <2>1. i \in 0 .. k - 1 /\ j \in 0 .. k - 1
    BY <1>2
  <2>2. RingCell(ls, i, margin) = margin + Reduced(l + i, k)
    BY <1>1, <1>2, <1>3, <1>4, <2>1, CellInSpan
  <2>3. RingCell(rs, j, margin) = margin + Reduced(r + j, k)
    BY <1>1, <1>2, <1>3, <1>4, <2>1, CellInSpan
  <2>4. Reduced(l + i, k) \in Int /\ Reduced(r + j, k) \in Int
    BY DEF Reduced
  <2>5. QED
    BY GeometryAssumption, <2>2, <2>3, <2>4
<1>8. SpanCells(ls, m, margin) \cap SpanCells(rs, n, margin) # {}
        <=> \E i \in 0 .. m - 1, j \in 0 .. n - 1 :
              RingCell(ls, i, margin) = RingCell(rs, j, margin)
  BY DEF SpanCells
<1>9. (\E i \in 0 .. m - 1, j \in 0 .. n - 1 :
         RingCell(ls, i, margin) = RingCell(rs, j, margin))
        <=> \E i \in 0 .. m - 1, j \in 0 .. n - 1 :
              Reduced(l + i, k) = Reduced(r + j, k)
  BY <1>7
<1>10. RangesOverlap(ls, m, rs, n, margin)
         <=> SpanCells(ls, m, margin) \cap SpanCells(rs, n, margin) # {}
  BY <1>5, <1>6, <1>8, <1>9 DEF Compared
<1>11. QED
  BY <1>2, <1>10 DEF ls, rs, m, n

\* Wrapping the end of a span as the code does, twice, names the reference's cell.
LEMMA WrapIsRight ==
  ASSUME NEW margin \in 0 .. StorageSize - 1, NEW start \in Nat, NEW size \in Nat,
         start + size < 2 * StorageSize - margin
  PROVE  RingCell(XferWrap(WrapAddr(start + size, margin), margin), 0, margin)
           = RingCell(start, size, margin)
<1>1. PICK S \in Nat \ {0}, end \in Nat : S = StorageSize /\ end = start + size
  BY GeometryAssumption
<1>2. PICK k \in Nat \ {0} : k = S - margin
  BY <1>1
<1>3. CASE end < S
  BY <1>1, <1>3 DEF RingCell, XferWrap, WrapAddr
<1>4. CASE end >= S
  <2>1. PICK past \in 0 .. k - 1 : past = end - S
    BY <1>1, <1>2, <1>4
  <2>2. past \in 0 .. 2 * k - 1 /\ end \in 0 .. 2 * S - 1
    BY <1>1, <1>2, <2>1
  <2>3. Rem(past, k) = past /\ Rem(end, S) = past
    BY <1>4, <2>1, <2>2, RemWithinTwo DEF Reduced
  <2>4. RingCell(start, size, margin) = margin + past
    BY <1>1, <1>2, <1>4, <2>1, <2>3 DEF RingCell, Rem
  <2>5. margin + past < S
    BY <1>1, <1>2
  <2>6. XferWrap(WrapAddr(end, margin), margin) = margin + past
    BY <1>1, <1>4, <2>1, <2>3, <2>5 DEF XferWrap, WrapAddr, Rem
  <2>7. RingCell(margin + past, 0, margin) = margin + past
    BY <1>1, <2>5 DEF RingCell
  <2>8. QED
    BY <1>1, <2>4, <2>6, <2>7
<1>5. QED
  BY <1>3, <1>4

-----------------------------------------------------------------------------
(* The two properties.                                                     *)

\* What the code answers.
Answer(q) ==
  IF RangesOverlap(q.lhsStart, q.lhsSize, q.rhsStart, q.rhsSize, q.margin)
  THEN "overlap" ELSE "disjoint"

\* The inductive invariant: a question that may be asked, and no other answer
\* to it than the code's.
Asked ==
  /\ \E margin \in 0 .. StorageSize - 1 : query \in Spans(margin)
  /\ answer \in {"none", Answer(query)}

\* Init establishes it and Ask preserves it.
LEMMA AskedAlways == Spec => []Asked
<1>1. Init => Asked
  BY DEF Init, Asked
<1>2. Asked /\ [Ask]_vars => Asked'
  BY DEF Asked, Ask, vars, Answer
<1>3. QED
  BY <1>1, <1>2, PTL DEF Spec

\* For every storage, margin and pair of spans: "overlap" is answered when the
\* spans share a cell of the ring and only then.
THEOREM RingOverlapExact == Spec => []OverlapExact
<1>1. Asked => OverlapExact
  <2>1. SUFFICES ASSUME Asked, answer # "none"
                 PROVE  answer = "overlap" <=>
                          SpanCells(query.lhsStart, query.lhsSize, query.margin)
                            \cap SpanCells(query.rhsStart, query.rhsSize, query.margin)
                              # {}
    BY DEF OverlapExact
  <2>2. PICK margin \in 0 .. StorageSize - 1 : query \in Spans(margin)
    BY <2>1 DEF Asked
  <2>3. answer = "overlap"
          <=> RangesOverlap(query.lhsStart, query.lhsSize, query.rhsStart,
                            query.rhsSize, query.margin)
    BY <2>1 DEF Asked, Answer
  <2>4. QED
    BY <2>2, <2>3, AnswerIsRight
<1>2. QED
  BY <1>1, AskedAlways, PTL

\* For every storage and margin: wrapping the end of a span names the cell that
\* follows its last one.
THEOREM RingWrapKeepsCell == Spec => []WrapKeepsCell
<1>1. Asked => WrapKeepsCell
  <2>1. SUFFICES ASSUME Asked PROVE WrapKeepsCell
    OBVIOUS
  <2>2. PICK margin \in 0 .. StorageSize - 1 : query \in Spans(margin)
    BY <2>1 DEF Asked
  <2>3. PICK start \in Nat, size \in Nat :
             start = query.lhsStart /\ size = query.lhsSize /\ query.margin = margin
    BY <2>2, QueryParts, GeometryAssumption
  <2>4. start + size < 2 * StorageSize - margin =>
          RingCell(XferWrap(WrapAddr(start + size, margin), margin), 0, margin)
            = RingCell(start, size, margin)
    BY WrapIsRight
  <2>5. QED
    BY <2>3, <2>4 DEF WrapKeepsCell
<1>2. QED
  BY <1>1, AskedAlways, PTL
=============================================================================
