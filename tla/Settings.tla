------------------------------- MODULE Settings -------------------------------
(***************************************************************************)
(* The configuration of the altimeter: the record g.persisted_config, read *)
(* from page 0 when the firmware starts (config.c), changed field by field *)
(* by a client (settings.c), and its copy in page 0, which the logger goes *)
(* through the page cache to change while config_store_persistent writes   *)
(* to the chip behind it.  The record is modelled cell by cell, so that an *)
(* offset computed wrongly lands in a neighbour.                           *)
(*                                                                         *)
(* The logger is reduced to what it does to page 0; Logger has the rest.   *)
(* A definition named Slip... is a plausible mistake in the one that       *)
(* follows it, which the properties must notice.                           *)
(***************************************************************************)
EXTENDS BufferedIO, FiniteSets

CONSTANTS ValSize,      \* SETTING_VAL_SIZE
          HomeLen,      \* HOME_DZ_LEN
          AlarmLen,     \* ALARM_LEN
          Low, High,    \* the pressures an alarm may have
          Vals,         \* the values a client sends, as cells
          MaxSettings,  \* bound: settings sent
          MaxEvents,    \* bound: events started
          MaxStores     \* bound: calls of config_set_alarm

VARIABLES store,        \* the chip and g.flash_buffer
          config,       \* g.persisted_config
          open,         \* g.current_event_g: the event being logged
          booted,       \* history: the record as it was loaded
          want,         \* history: what the client set since
          kept,         \* history: the alarms stored last, if they should be there
          spent         \* how much of each bound is used up

vars == <<store, config, open, booted, want, kept, spent>>

\* struct storage_header_s
HomeAt  == 1                        \* after the name
AlarmAt == HomeAt + HomeLen
FenceAt == AlarmAt + AlarmLen
JumpsAt == FenceAt + 2 * AlarmLen
LastAt  == JumpsAt + 1
DataStart == LastAt + 1

ASSUME SettingsAssumption ==
  /\ {ValSize, HomeLen, AlarmLen, MaxSettings, MaxEvents, MaxStores} \subseteq Nat
  /\ ValSize >= 2 /\ 2 * ValSize <= HomeLen /\ AlarmLen >= 3
  /\ DataStart < PageSize           \* STRUCT_SIZE_LT in globals.h
  /\ PageSize + MaxEvents < StorageSize
  /\ Vals \subseteq [1 .. ValSize -> Nat \ {0}]

\* setting_e
Alarms == 0 .. 2
Fences == 3 .. 4
Homes  == 5 .. 6
DeviceName == 7
Setting == 0 .. 8                   \* SETTING_LAST is one that no case names
setting_value_s == [type : Setting, val : Vals]

Zero == 0
Junk == -1                          \* a byte of the stack nobody initialised
Sample == -2                        \* a cell of an event
Cell == Nat \cup {Zero, Junk, Sample}
Config == 0 .. DataStart - 1        \* the cells of the record
AlarmCells(record) == [i \in Alarms |-> record[AlarmAt + i]]

TypeOK ==
  /\ store \in [flash : [Addr -> Cell], page : Page \cup {NoPage}, dirty : BOOLEAN,
                data : [Offset -> Cell]]
  /\ config \in [Config -> Cell]
  /\ booted \in [Config -> Cell]
  /\ open \in Addr
  /\ want \in [0 .. DeviceName - 1 -> {<<>>} \cup Vals]
  /\ kept \in {<<>>} \cup [Alarms -> Cell]
  /\ spent \in [settings : 0 .. MaxSettings, events : 0 .. MaxEvents, stores : 0 .. MaxStores]

-----------------------------------------------------------------------------
(* settings_apply.  The union of a setting is a sequence of ValSize cells. *)

InRange(v) == v >= Low /\ v <= High

SlipHomeOffset(type) == (type - 3) * ValSize      \* counts from the first geofence

HomeOffset(type) == (type - 5) * ValSize

Applied(type, val) ==
  CASE type \in Alarms /\ InRange(val[1]) ->
         [config EXCEPT ![AlarmAt + type] = val[1]]
    [] type \in Fences ->
         LET at == FenceAt + 2 * (type - 3)
         IN  [config EXCEPT ![at] = val[1], ![at + 1] = val[2]]
    [] type \in Homes ->
         [c \in Config |->
            LET i == c - HomeAt - HomeOffset(type)
            IN  IF i \in 0 .. ValSize - 1 /\ c - HomeAt < HomeLen THEN val[i + 1] ELSE config[c]]
    [] OTHER -> config

\* handle_config does not look at the result, nor tells the client.
Apply ==
  /\ spent.settings < MaxSettings
  /\ \E value \in setting_value_s :
       /\ config' = Applied(value.type, value.val)
       /\ want' = IF value.type \in Fences \cup Homes
                     \/ (value.type \in Alarms /\ InRange(value.val[1]))
                  THEN [want EXCEPT ![value.type] = value.val] ELSE want
  /\ spent' = [spent EXCEPT !.settings = @ + 1]
  /\ UNCHANGED <<store, open, booted, kept>>

-----------------------------------------------------------------------------
(* config.c                                                                *)

\* config_set_alarm with config_store_persistent: past the cache, and the
\* rest of the page is filled with zeroes.
SetAlarm ==
  /\ spent.stores < MaxStores
  /\ \E i \in Alarms, val \in Vals :
       /\ config' = [config EXCEPT ![AlarmAt + i] = val[1]]
       /\ want' = [want EXCEPT ![i] = val]
  /\ store' = [store EXCEPT !.flash =
                 FlashWrite(@, 0, [a \in Offset |-> IF a \in Config THEN config'[a] ELSE Zero])]
  /\ kept' = IF store.page = 0 THEN <<>> ELSE AlarmCells(config')
  /\ spent' = [spent EXCEPT !.stores = @ + 1]
  /\ UNCHANGED <<open, booted>>

\* config_load_persistent
Loaded(flash) == [a \in Config |-> flash[a]]

\* A reset, then config_globals and config_load_persistent.
Restart ==
  /\ store' = [store EXCEPT !.page = NoPage, !.dirty = FALSE, !.data = [i \in Offset |-> Zero]]
  /\ config' = Loaded(store.flash) /\ booted' = config'
  /\ open' = 0
  /\ want' = [type \in DOMAIN want |-> <<>>]
  /\ UNCHANGED <<kept, spent>>

-----------------------------------------------------------------------------
(* What the logger does to page 0, through the cache.                      *)

Written(s, cells) ==            \* a change of some cells of the page, and its write
  Flush([s EXCEPT !.data = [i \in Offset |-> IF i \in DOMAIN cells THEN cells[i] ELSE @[i]],
                  !.dirty = TRUE])

\* The storage header that logger_start_event writes, from a local.
HeaderCells(addr) == [i \in Config |-> IF i = LastAt THEN addr ELSE Junk]

StartEvent ==
  /\ open = 0 /\ spent.events < MaxEvents
  /\ LET addr == DataStart + spent.events
         page == PageOf(addr)
         event == Written(GetPage(store, page), [i \in {addr - page} |-> Sample])
     IN  /\ store' = Written(GetPage(event, 0), HeaderCells(addr))
         /\ open' = addr
  /\ kept' = <<>>
  /\ spent' = [spent EXCEPT !.events = @ + 1]
  /\ UNCHANGED <<config, booted, want>>

SlipEndCells(addr) == [i \in Config |-> IF i = LastAt THEN addr ELSE config[i]]

\* logger_end_event changes the pointer alone.
EndCells(addr) == [i \in {LastAt} |-> addr]

EndEvent ==
  /\ open # 0
  /\ store' = Written(GetPage(store, 0), EndCells(open))
  /\ open' = 0
  /\ UNCHANGED <<config, booted, want, kept, spent>>

\* Samples go to other pages.
OtherPage ==
  /\ \E p \in Page \ {0} : store' = GetPage(store, p)
  /\ UNCHANGED <<config, open, booted, want, kept, spent>>

Format ==
  /\ store' = Written(GetPage(store, 0), [i \in Offset |-> Zero])
  /\ kept' = <<>>
  /\ UNCHANGED <<config, open, booted, want, spent>>

-----------------------------------------------------------------------------
\* A chip with a record in it: cells that can be told apart.
Init ==
  /\ store = [flash |-> [a \in Addr |-> IF a \in Config \ {LastAt} THEN a + 100 ELSE Zero],
              page |-> NoPage, dirty |-> FALSE, data |-> [i \in Offset |-> Zero]]
  /\ config = Loaded(store.flash) /\ booted = config
  /\ open = 0
  /\ want = [type \in 0 .. DeviceName - 1 |-> <<>>]
  /\ kept = <<>>
  /\ spent = [settings |-> 0, events |-> 0, stores |-> 0]

Next == Apply \/ SetAlarm \/ Restart \/ StartEvent \/ EndEvent \/ OtherPage \/ Format

Spec == Init /\ [][Next]_vars

-----------------------------------------------------------------------------
(* What the configuration promises.                                        *)

\* The cells a setting stands for, from the layout of the record.
CellsOf(type) ==
  CASE type \in Alarms -> <<AlarmAt + type>>
    [] type \in Fences -> <<FenceAt + 2 * (type - 3), FenceAt + 2 * (type - 3) + 1>>
    [] OTHER -> [i \in 1 .. ValSize |-> HomeAt + (type - 5) * ValSize + i - 1]

(* Each field of the running record has the last value the client set, and  *)
(* every other cell, the log pointer among them, what was loaded: no        *)
(* setting reaches into a neighbour (settings_apply).                       *)
SettingsStayInField ==
  /\ \A type \in DOMAIN want : want[type] # <<>> =>
       \A i \in DOMAIN CellsOf(type) : config[CellsOf(type)[i]] = want[type][i]
  /\ \A c \in Config :
       config[c] # booted[c] =>
         \E type \in DOMAIN want : want[type] # <<>>
                                   /\ \E i \in DOMAIN CellsOf(type) : CellsOf(type)[i] = c

(* An alarm stored while page 0 was not cached is what the next reset       *)
(* loads, until an event is started or the storage formatted: the logger    *)
(* writes nothing older over it (config_store_persistent, the page cache).  *)
StoredAlarmsSurvive ==
  kept # <<>> => AlarmCells(store.flash) = kept /\ AlarmCells(View(store)) = kept

=============================================================================
