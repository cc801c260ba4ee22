-------------------------------- MODULE Logger --------------------------------
(***************************************************************************)
(* The event logger of src/firmware/src/logger.c on top of the buffered    *)
(* storage, driven by the commands of handle_config and by the completed   *)
(* sensor packets of task_main.c.  The main task is its only user, so one  *)
(* command runs at a time; a reset may fall between any two page programs. *)
(*                                                                         *)
(* Storage is a ring of cells behind the storage header:                   *)
(*   0 .. DataStart - 2   the persisted configuration                      *)
(*   DataStart - 1        last_event, the address of the newest event      *)
(*   DataStart ..         events: a sentinel cell, a cell with the fields  *)
(*                        of the header, then SampleSize cells per sample  *)
(* Every event links to the one before it by the field last_event.         *)
(*                                                                         *)
(* As in BufferedIO, a definition named Slip... is a plausible mistake in  *)
(* the one that follows it, which the properties must notice.              *)
(***************************************************************************)
EXTENDS Integers, Sequences

CONSTANTS StorageSize, PageSize,
          DataStart,        \* DATA_START_ADDR
          SampleSize,       \* sizeof(struct sensor_packet_s)
          MaxSessions,      \* bound: number of events that are started
          UnmatchedStop,    \* may STOP arrive with no event since the reset?
          FormatWhileLogging \* may FORMAT arrive while an event is open?

HeaderSize == 2             \* STORED_EVENT_HEADER_SIZE

ASSUME LayoutAssumption ==
  /\ PageSize \in Nat \ {0} /\ StorageSize \in Nat \ {0}
  /\ StorageSize % PageSize = 0  \* flash.h: 256 * 32768 by 256
  /\ DataStart \in Nat /\ DataStart > HeaderSize
  /\ DataStart <= PageSize       \* STRUCT_SIZE_LT in globals.h
  /\ SampleSize \in Nat \ {0}
  /\ StorageSize - DataStart > 2 * HeaderSize + SampleSize
  /\ MaxSessions \in Nat
  /\ {UnmatchedStop, FormatWhileLogging} \subseteq BOOLEAN

-----------------------------------------------------------------------------
(* What a cell holds.  `sess` names the start of an event: it is not in    *)
(* the code, it tells the events of a run apart where event_id would not.  *)

Fields == [id : Nat, samples : Nat, inProgress : BOOLEAN, last : Nat, sess : Nat]

Erased   == [kind |-> "erased"]
ZeroCell == [kind |-> "zero"]
Junk     == [kind |-> "junk"]       \* a byte of the stack nobody initialised
Sentinel == [kind |-> "sentinel"]
LastCell(addr)         == [kind |-> "last", addr |-> addr]
FieldsCell(header)     == [kind |-> "fields", header |-> header]
SampleCell(sess, n, i) == [kind |-> "sample", sess |-> sess, n |-> n, part |-> i]

LogCell ==
  {Erased, ZeroCell, Junk, Sentinel} \cup [kind : {"last"}, addr : Nat]
  \cup [kind : {"fields"}, header : Fields]
  \cup [kind : {"sample"}, sess : Nat, n : Nat, part : Nat]

VARIABLES store, xfer, before,   \* the buffered storage
          pc,       \* where the main task is in the logger
          ev,       \* g.current_event_g
          walk,     \* the locals of the listing loops of handle_config
          sess,     \* history: number of events started
          done      \* history: the events ended since the last format

INSTANCE FlashBuffer WITH
  Cell <- LogCell, Zero <- ZeroCell, Margins <- {0, DataStart},
  Payloads <- {}, MaxLen <- 0

vars == <<store, xfer, before, pc, ev, walk, sess, done>>

NoHeader == [id |-> 0, samples |-> 0, inProgress |-> FALSE, last |-> 0, sess |-> 0]

\* g.current_event_g after a reset: all zeroes.
NoEvent == [header |-> NoHeader, start |-> 0, current |-> 0, written |-> FALSE]

NoWalk == [prev |-> NoHeader, cur |-> NoHeader, addr |-> 0, n |-> 0]

Halted == {"halt_last_event", "halt_end_event", "halt_read_sample"}

HeaderCells(header) == <<Sentinel, FieldsCell(header)>>

SampleCells(s, n) == [i \in 1 .. SampleSize |-> SampleCell(s, n, i)]

\* Slip: the header is not counted.
SlipTotalSize(header) == header.samples * SampleSize

TotalSize(header) == header.samples * SampleSize + HeaderSize

\* storage_header->last_event of a page-0 image, given as a function of address.
LastEvent(image) ==
  LET c == image[DataStart - 1]
  IN  IF c.kind = "last" THEN c.addr ELSE IF c.kind = "zero" THEN 0 ELSE StorageSize

\* logger_read_event found the sentinel in the cells it read, and fields behind
\* it.  It looks at the sentinel only: in front of other cells, where a reset cut
\* the writing of a header, it takes for fields what is there.
IsEvent(cells) == cells[1] = Sentinel /\ cells[2].kind = "fields"

Init ==
  /\ store = PowerUp([a \in Addr |-> IF a = DataStart - 1 THEN LastCell(0)
                                     ELSE IF a < PageSize THEN ZeroCell
                                     ELSE Erased])
  /\ xfer = NoXfer
  /\ before = View(store)
  /\ pc = "idle"
  /\ ev = NoEvent
  /\ walk = NoWalk
  /\ sess = 0
  /\ done = {}

-----------------------------------------------------------------------------
(* logger_start_event                                                      *)

\* Slip: the new event does not link to the one before it.
SlipNewHeader(id, last) ==
  [id |-> id, samples |-> 0, inProgress |-> TRUE, last |-> 0, sess |-> sess + 1]

NewHeader(id, last) ==
  [id |-> id, samples |-> 0, inProgress |-> TRUE, last |-> last, sess |-> sess + 1]

\* logger_init_event, then logger_write_event at the new address.
WriteNewEvent(s, addr, id, last) ==
  LET header == NewHeader(id, last)
  IN  /\ sess < MaxSessions
      /\ sess' = sess + 1
      /\ ev' = [header |-> header, start |-> addr, current |-> addr + HeaderSize,
                written |-> FALSE]
      /\ BeginWrite(s, addr, HeaderCells(header), DataStart)
      /\ pc' = "start_header"
      /\ UNCHANGED <<walk, done>>

\* CONFIG_START_LOGGING, whether or not an event is open.
StartEvent ==
  LET s    == GetPage(store, 0)
      last == LastEvent(s.data)
  IN  /\ pc = "idle"
      /\ \/ /\ last >= StorageSize
            /\ pc' = "halt_last_event"
            /\ store' = s
            /\ UNCHANGED <<xfer, before, ev, walk, sess, done>>
         \/ /\ last = 0
            /\ WriteNewEvent(s, DataStart, 0, 0)
         \/ /\ last \in 1 .. DataStart - 1      \* logger_read_event refuses it
            /\ WriteNewEvent(s, WrapAddr(last + HeaderSize, DataStart), 1, last)
         \/ /\ last \in DataStart .. StorageSize - 1
            /\ sess < MaxSessions
            /\ BeginRead(s, last, HeaderSize, DataStart)
            /\ pc' = "start_read"
            /\ UNCHANGED <<ev, walk, sess, done>>

\* The header of the last event was read; where it is none, the zeroes of
\* last_event stand for it.
StartAfterLast ==
  LET header == IF IsEvent(xfer.cells) THEN xfer.cells[2].header ELSE NoHeader
  IN  /\ pc = "start_read" /\ XferDone
      /\ WriteNewEvent(store,
                       WrapAddr(xfer.start + TotalSize(header), DataStart),
                       header.id + 1, xfer.start)

\* Slip: the storage header names the samples, not the event.
SlipStartPointer ==
  /\ pc = "start_header" /\ XferDone
  /\ BeginWrite(store, 0, [i \in 1 .. DataStart |-> IF i = DataStart
                                                   THEN LastCell(ev.current)
                                                   ELSE Junk], 0)
  /\ pc' = "start_flush"
  /\ UNCHANGED <<ev, walk, sess, done>>

\* The storage header is written from a local of which only last_event is set.
StartPointer ==
  /\ pc = "start_header" /\ XferDone
  /\ BeginWrite(store, 0, [i \in 1 .. DataStart |-> IF i = DataStart
                                                   THEN LastCell(ev.start)
                                                   ELSE Junk], 0)
  /\ pc' = "start_flush"
  /\ UNCHANGED <<ev, walk, sess, done>>

StartFlush ==
  /\ pc = "start_flush" /\ XferDone
  /\ store' = Flush(store)
  /\ xfer' = NoXfer
  /\ pc' = "idle"
  /\ UNCHANGED <<before, ev, walk, sess, done>>

-----------------------------------------------------------------------------
(* logger_end_event                                                        *)

Finished == ~ev.header.inProgress /\ ev.written

\* From the check of the address to the write of the final header.
EndHeader ==
  IF ev.start >= StorageSize
  THEN /\ pc' = "halt_end_event"
       /\ UNCHANGED <<store, xfer, before, ev, walk, sess, done>>
  ELSE /\ ev' = [ev EXCEPT !.header.inProgress = FALSE]
       /\ BeginWrite(store, ev.start, HeaderCells(ev'.header), DataStart)
       /\ pc' = "end_header"
       /\ UNCHANGED <<walk, sess, done>>

\* CONFIG_STOP_LOGGING.
EndEvent ==
  /\ pc = "idle"
  /\ ~Finished
  /\ ev.header.inProgress \/ UnmatchedStop
  /\ EndHeader

\* last_event is stored through the pointer into the cached page, and the
\* page is then written onto itself.
EndPointer ==
  LET loaded == GetPage(store, 0)
      linked == [loaded EXCEPT !.data[DataStart - 1] = LastCell(ev.start)]
  IN  /\ pc = "end_header" /\ XferDone
      /\ BeginWrite(linked, 0, [i \in 1 .. DataStart |-> linked.data[i - 1]], 0)
      /\ pc' = "end_flush"
      /\ UNCHANGED <<ev, walk, sess, done>>

EndFlush ==
  /\ pc = "end_flush" /\ XferDone
  /\ store' = Flush(store)
  /\ xfer' = NoXfer
  /\ ev' = [ev EXCEPT !.written = TRUE]
  /\ done' = done \cup {[sess |-> ev.header.sess, start |-> ev.start,
                         samples |-> ev.header.samples]}
  /\ pc' = "idle"
  /\ UNCHANGED <<before, walk, sess>>

-----------------------------------------------------------------------------
(* logger_write_sample, called for a completed sensor packet while an      *)
(* event is in progress; a full storage ends the event.                    *)

WriteSample ==
  /\ pc = "idle"
  /\ ev.header.inProgress
  /\ IF RangesOverlap(ev.start, HeaderSize, ev.current, SampleSize, DataStart)
     THEN EndHeader
     ELSE /\ BeginWrite(store, ev.current,
                        SampleCells(ev.header.sess, ev.header.samples), DataStart)
          /\ pc' = "sample"
          /\ UNCHANGED <<ev, walk, sess, done>>

SampleWritten ==
  /\ pc = "sample" /\ XferDone
  /\ ev' = [ev EXCEPT !.current = WrapAddr(ev.current + SampleSize, DataStart),
                      !.header.samples = @ + 1]
  /\ xfer' = NoXfer
  /\ pc' = "idle"
  /\ UNCHANGED <<store, before, walk, sess, done>>

-----------------------------------------------------------------------------
(* logger_format_storage                                                   *)

\* CONFIG_FORMAT_STORAGE: load the page first, then clear it and write it out.
Format ==
  /\ pc = "idle"
  /\ ~ev.header.inProgress \/ FormatWhileLogging
  /\ store' = GetPage(store, 0)
  /\ pc' = "format"
  /\ UNCHANGED <<xfer, before, ev, walk, sess, done>>

FormatFlush ==
  /\ pc = "format"
  /\ store' = Flush([store EXCEPT
                       !.data = [i \in Offset |-> IF i = DataStart - 1
                                                  THEN LastCell(0) ELSE ZeroCell],
                       !.dirty = TRUE])
  /\ pc' = "idle"
  /\ done' = {}
  /\ UNCHANGED <<xfer, before, ev, walk, sess>>

-----------------------------------------------------------------------------
(* logger_get_event and logger_read_sample, called by CONFIG_LIST_EVENTS   *)
(* and CONFIG_GET_EVENTDATA; CONFIG_SET_EVENT makes the same walk and may  *)
(* leave it early.                                                         *)

\* The loop ends: nothing more to read.
Return(s) ==
  /\ store' = s
  /\ xfer' = NoXfer
  /\ walk' = NoWalk
  /\ pc' = "idle"
  /\ UNCHANGED <<before, ev, sess, done>>

\* logger_get_event returned 0.  CONFIG_LIST_EVENTS stops; the handler of
\* CONFIG_GET_EVENTDATA does not look at the result and goes on with an event
\* nobody initialised: its samples may be none, may be read from anywhere (which
\* changes nothing but the cached page), or may lie outside of storage.
NoMoreEvents(s, loop) ==
  \/ Return(s)
  \/ /\ loop = "data_header"
     /\ store' = s
     /\ pc' = "halt_read_sample"
     /\ UNCHANGED <<xfer, before, ev, walk, sess, done>>

\* logger_get_event from an address, on behalf of the loop `loop`.
ReadEvent(s, addr, loop, prev) ==
  IF addr < DataStart
  THEN NoMoreEvents(s, loop)
  ELSE /\ BeginRead(s, addr, HeaderSize, DataStart)
       /\ walk' = [NoWalk EXCEPT !.prev = prev, !.addr = addr]
       /\ pc' = loop
       /\ UNCHANGED <<ev, sess, done>>

\* The first event of either loop comes from the storage header.
GetNewest(loop) ==
  LET s    == GetPage(store, 0)
      last == LastEvent(s.data)
  IN  /\ pc = "idle"
      /\ IF last >= StorageSize
         THEN /\ store' = s
              /\ pc' = "halt_last_event"
              /\ UNCHANGED <<xfer, before, ev, walk, sess, done>>
         ELSE ReadEvent(s, last, loop, NoHeader)

ListEvents == GetNewest("list")

GetEventData == GetNewest("data_header")

\* One turn of the loop of CONFIG_LIST_EVENTS.  A header that was cut, which no
\* pointer names but an old link may, leads anywhere.
ListNext ==
  /\ pc = "list" /\ XferDone
  /\ \/ LET header == xfer.cells[2].header
        IN  /\ IsEvent(xfer.cells)
            /\ ReadEvent(store, header.last, "list", header)
     \/ /\ xfer.cells[1] = Sentinel /\ ~IsEvent(xfer.cells)
        /\ \E addr \in Addr : ReadEvent(store, addr, "list", NoHeader)
     \/ /\ xfer.cells[1] # Sentinel
        /\ NoMoreEvents(store, "list")

\* Slip: the samples are taken to start where the event does.
SlipSampleSource(addr, n) == WrapAddr(addr + SampleSize * n, DataStart)

SampleSource(addr, n) == WrapAddr(addr + HeaderSize + SampleSize * n, DataStart)

\* logger_read_sample of the n-th sample of the event with this header.
ReadSample(header, addr, n) ==
  LET source == SampleSource(addr, n)
  IN  IF n >= header.samples
      THEN Return(store)
      ELSE IF source >= StorageSize
      THEN /\ pc' = "halt_read_sample"
           /\ UNCHANGED <<store, xfer, before, ev, walk, sess, done>>
      ELSE /\ BeginRead(store, source, SampleSize, DataStart)
           /\ walk' = [prev |-> walk.prev, cur |-> header, addr |-> addr, n |-> n]
           /\ pc' = "data_sample"
           /\ UNCHANGED <<ev, sess, done>>

DataFirst ==
  /\ pc = "data_header" /\ XferDone
  /\ IF IsEvent(xfer.cells)
     THEN ReadSample(xfer.cells[2].header, walk.addr, 0)
     ELSE NoMoreEvents(store, "data_header")

DataNext ==
  /\ pc = "data_sample" /\ XferDone
  /\ ReadSample(walk.cur, walk.addr, walk.n + 1)

-----------------------------------------------------------------------------

\* The transfer loop running on behalf of a logger function.
Transfer == XferChunk /\ UNCHANGED <<pc, ev, walk, sess, done>>

\* Loss of RAM at any point, also out of a failed assertion.
PowerLoss ==
  /\ Reset
  /\ pc' = "idle"
  /\ ev' = NoEvent
  /\ walk' = NoWalk
  /\ UNCHANGED <<sess, done>>

Next ==
  \/ StartEvent \/ StartAfterLast \/ StartPointer \/ StartFlush
  \/ EndEvent \/ EndPointer \/ EndFlush
  \/ WriteSample \/ SampleWritten
  \/ Format \/ FormatFlush
  \/ ListEvents \/ ListNext \/ GetEventData \/ DataFirst \/ DataNext
  \/ Transfer \/ PowerLoss

Spec == Init /\ [][Next]_vars

-----------------------------------------------------------------------------
(* Properties                                                              *)

Busy == {"start_read", "start_header", "start_flush", "end_header", "end_flush",
         "sample", "format", "list", "data_header", "data_sample"}

HeaderType == Fields

EventType ==
  [header : HeaderType, start : 0 .. StorageSize,
   current : 0 .. StorageSize + HeaderSize, written : BOOLEAN]

\* The type of every variable of the logger.
TypeOK ==
  /\ StoreTypeOK
  /\ pc \in {"idle"} \cup Busy \cup Halted
  /\ ev \in EventType
  /\ walk \in [prev : HeaderType, cur : HeaderType, addr : Nat, n : Nat]
  /\ sess \in 0 .. MaxSessions
  /\ done \subseteq [sess : Nat, start : 0 .. StorageSize, samples : Nat]

\* The cell that the i-th cell from an address lands on.
CellAt(image, addr, i) == image[RingCell(addr, i, DataStart)]

EventAt(image, addr) ==
  /\ addr >= DataStart
  /\ IsEvent(<<CellAt(image, addr, 0), CellAt(image, addr, 1)>>)

HeaderAt(image, addr) == CellAt(image, addr, 1).header

\* All samples of the header at an address are the ones logged for that event.
SamplesIntact(image, addr, header) ==
  \A n \in 0 .. header.samples - 1, i \in 1 .. SampleSize :
    CellAt(image, addr, HeaderSize + n * SampleSize + i - 1)
      = SampleCell(header.sess, n, i)

\* The events that the walk from last_event along the links meets, in at most
\* one step more than there are events.
Chain(image) ==
  LET met[n \in 0 .. MaxSessions] ==
        IF n = 0 THEN LastEvent(image)
        ELSE LET a == met[n - 1]
             IN  IF EventAt(image, a) THEN HeaderAt(image, a).last ELSE a
  IN  {a \in {met[n] : n \in 0 .. MaxSessions} : EventAt(image, a)}

\* At every instant the chip itself holds a usable log: last_event is 0 or leads
\* to the header of an event, whatever page program a reset comes after
\* (logger_start_event writes the event before the pointer to it).  One gap is
\* left: an event may end with less room before its own header than a header
\* takes; its successor's, which then begins in the cell before, replaces it
\* before the pointer moves.
PointerNamesEvent ==
  LET last == LastEvent(store.flash)
      cellBefore == RingCell(last, StorageSize - DataStart - 1, DataStart)
  IN  last # 0 => EventAt(store.flash, last) \/ EventAt(store.flash, cellBefore)

\* Where the next event goes.
NextPlace(image) ==
  LET last == LastEvent(image)
  IN  RingCell(last, IF EventAt(image, last) THEN TotalSize(HeaderAt(image, last))
                                             ELSE HeaderSize, DataStart)

\* Every event that can be listed from the chip still has all of the samples its
\* header counts: when the ring comes round, the header of an old event goes
\* before its samples do (test DontReturnOverwrittenEvents).  But where the next
\* event goes, the header of an event that was lost may stand once more: a reset
\* that cuts logger_start_event can leave the first cells of its header in front
\* of what is left of an old one.
ListedEventsIntact ==
  \A a \in Chain(store.flash) :
    \/ SamplesIntact(store.flash, a, HeaderAt(store.flash, a))
    \/ /\ RingCell(a, 0, DataStart) = NextPlace(store.flash)
       /\ a # LastEvent(store.flash)

\* The newest event, once ended, is what the storage header names, with the
\* number of samples that were written to it.
EndCommits ==
  pc = "idle" /\ Finished /\ done # {} /\ ev.header.sess = sess =>
    /\ LastEvent(store.flash) = ev.start
    /\ EventAt(store.flash, ev.start)
    /\ HeaderAt(store.flash, ev.start) = ev.header
    /\ SamplesIntact(store.flash, ev.start, ev.header)

\* An event is whole on the chip when logger_end_event returns, and as long as
\* its cells have not been reclaimed by the ring it can be listed from the chip
\* at every instant: no reset, no event started, abandoned or cut short after
\* it unlinks it.
CommittedEventsListed ==
  /\ EndCommits
  /\ LET listed == Chain(store.flash)
         intact == {d \in done :
                      /\ EventAt(store.flash, d.start)
                      /\ HeaderAt(store.flash, d.start).sess = d.sess
                      /\ SamplesIntact(store.flash, d.start,
                                       HeaderAt(store.flash, d.start))}
     IN  \A d \in intact : d.start \in listed

\* However much is logged, an open event never writes over its own header
\* (test SampleDoesntOverwriteItsOwnHeader).
OwnHeaderSurvives ==
  pc \in {"idle", "sample"} /\ ev.header.inProgress =>
    /\ EventAt(View(store), ev.start)
    /\ HeaderAt(View(store), ev.start).sess = ev.header.sess

\* What CONFIG_GET_EVENTDATA sends as the n-th sample of an event is the n-th
\* sample that was logged for it, wherever it wrapped and whatever was cached
\* (logger_read_sample).
SampleReadBack ==
  pc = "data_sample" /\ XferDone =>
    xfer.cells = SampleCells(walk.cur.sess, walk.n)

\* "write the event prior to |prev|" (logger_get_event): the walk goes back in
\* time, so it ends.  It does not hold, and no run checks it: once the ring has
\* come round, a link leads to the header of a newer event.
PriorIsOlder ==
  pc = "list" /\ XferDone /\ IsEvent(xfer.cells) /\ walk.prev # NoHeader =>
    xfer.cells[2].header.sess < walk.prev.sess

\* assert(storage_header->last_event < STORAGE_SIZE) in logger_get_last_event:
\* an address in the storage header is one of the storage.
LastEventInStorage == pc # "halt_last_event"

=============================================================================
