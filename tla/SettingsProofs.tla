---------------------------- MODULE SettingsProofs ----------------------------
(***************************************************************************)
(* No setting reaches into a neighbour, and a stored alarm stays stored,   *)
(* for every layout of the record the assumptions allow and any number of  *)
(* settings, stores and events.                                            *)
(*                                                                         *)
(* The argument: the cells the settings stand for are cells of the record  *)
(* and no two settings share one (CellsApart); settings_apply and          *)
(* config_set_alarm change exactly the cells of one setting to the value   *)
(* given (Puts); and a change of that kind keeps the promise (PutsKeeps).  *)
(* The chip takes more: whenever a call of this module ends the cache is   *)
(* clean, so that loading a page cannot write an older record over alarms  *)
(* that went past it, and if the record is in the cache it has those alarms*)
(* (StoredInv).                                                            *)
(***************************************************************************)
EXTENDS Settings, TLAPS

\* The settings that have cells of their own.
Kept == 0 .. DeviceName - 1

\* What the constants promise, as numbers.
LEMMA Layout ==
  /\ ValSize \in Nat /\ HomeLen \in Nat /\ AlarmLen \in Nat
  /\ ValSize >= 2 /\ 2 * ValSize <= HomeLen /\ AlarmLen >= 3
  /\ AlarmAt = 1 + HomeLen /\ FenceAt = AlarmAt + AlarmLen
  /\ DataStart = FenceAt + 2 * AlarmLen + 2
  /\ \A v \in Vals : v \in [1 .. ValSize -> Nat \ {0}]
BY SettingsAssumption
   DEF HomeAt, AlarmAt, FenceAt, JumpsAt, LastAt, DataStart

\* The cells of an alarm.
LEMMA AlarmCell ==
  ASSUME NEW type \in Alarms
  PROVE  DOMAIN CellsOf(type) = {1} /\ CellsOf(type)[1] = AlarmAt + type
<1>1. CellsOf(type) = <<AlarmAt + type>>
  BY DEF CellsOf, Alarms, Fences
<1>2. DOMAIN <<AlarmAt + type>> = {1}
  OBVIOUS
<1>3. QED
  BY <1>1, <1>2

\* The cells of a geofence.
LEMMA FenceCells ==
  ASSUME NEW type \in Fences
  PROVE  /\ DOMAIN CellsOf(type) = {1, 2}
         /\ CellsOf(type)[1] = FenceAt + 2 * (type - 3)
         /\ CellsOf(type)[2] = FenceAt + 2 * (type - 3) + 1
BY DEF CellsOf, Alarms, Fences

\* The cells of half a position.
LEMMA HomeCells ==
  ASSUME NEW type \in Homes
  PROVE  /\ DOMAIN CellsOf(type) = 1 .. ValSize
         /\ \A i \in 1 .. ValSize :
              CellsOf(type)[i] = HomeAt + (type - 5) * ValSize + i - 1
BY DEF CellsOf, Alarms, Fences, Homes

\* Where the cells of a setting lie.
LEMMA CellsWhere ==
  ASSUME NEW type \in Kept, NEW i \in DOMAIN CellsOf(type)
  PROVE  LET c == CellsOf(type)[i]
         IN  \/ type \in Alarms /\ i = 1 /\ c = AlarmAt + type
             \/ type \in Fences /\ i \in {1, 2} /\ c = FenceAt + 2 * (type - 3) + i - 1
             \/ type = 5 /\ i \in 1 .. ValSize /\ c = HomeAt + i - 1
             \/ type = 6 /\ i \in 1 .. ValSize /\ c = HomeAt + ValSize + i - 1
<1>1. type \in Alarms \/ type \in Fences \/ type = 5 \/ type = 6
  BY DEF Kept, DeviceName, Alarms, Fences
<1>2. CASE type \in Alarms
  BY <1>2, AlarmCell
<1>3. CASE type \in Fences
  BY <1>3, FenceCells, Layout DEF Fences
<1>4. CASE type = 5
  <2>1. DOMAIN CellsOf(5) = 1 .. ValSize
        /\ \A j \in 1 .. ValSize : CellsOf(5)[j] = HomeAt + (5 - 5) * ValSize + j - 1
    BY HomeCells DEF Homes
  <2>2. QED
    BY <1>4, <2>1, Layout DEF HomeAt
<1>5. CASE type = 6
  <2>1. DOMAIN CellsOf(6) = 1 .. ValSize
        /\ \A j \in 1 .. ValSize : CellsOf(6)[j] = HomeAt + (6 - 5) * ValSize + j - 1
    BY HomeCells DEF Homes
  <2>2. QED
    BY <1>5, <2>1, Layout DEF HomeAt
<1>6. QED
  BY <1>1, <1>2, <1>3, <1>4, <1>5

\* They are cells of the record.
LEMMA CellsInside ==
  ASSUME NEW type \in Kept, NEW i \in DOMAIN CellsOf(type)
  PROVE  CellsOf(type)[i] \in Config /\ i \in 1 .. ValSize
<1> DEFINE c == CellsOf(type)[i]
<1>1. \/ type \in Alarms /\ i = 1 /\ c = AlarmAt + type
      \/ type \in Fences /\ i \in {1, 2} /\ c = FenceAt + 2 * (type - 3) + i - 1
      \/ type = 5 /\ i \in 1 .. ValSize /\ c = HomeAt + i - 1
      \/ type = 6 /\ i \in 1 .. ValSize /\ c = HomeAt + ValSize + i - 1
  BY CellsWhere
<1> HIDE DEF c
<1>2. c \in Config /\ i \in 1 .. ValSize
  BY <1>1, Layout DEF Config, Alarms, Fences, HomeAt
<1>3. QED
  BY <1>2 DEF c

\* No cell belongs to two settings, or twice to one.
LEMMA CellsApart ==
  ASSUME NEW t \in Kept, NEW u \in Kept,
         NEW i \in DOMAIN CellsOf(t), NEW j \in DOMAIN CellsOf(u),
         CellsOf(t)[i] = CellsOf(u)[j]
  PROVE  t = u /\ i = j
<1> DEFINE c == CellsOf(t)[i]
           d == CellsOf(u)[j]
<1>1. \/ t \in Alarms /\ i = 1 /\ c = AlarmAt + t
      \/ t \in Fences /\ i \in {1, 2} /\ c = FenceAt + 2 * (t - 3) + i - 1
      \/ t = 5 /\ i \in 1 .. ValSize /\ c = HomeAt + i - 1
      \/ t = 6 /\ i \in 1 .. ValSize /\ c = HomeAt + ValSize + i - 1
  BY CellsWhere
<1>2. \/ u \in Alarms /\ j = 1 /\ d = AlarmAt + u
      \/ u \in Fences /\ j \in {1, 2} /\ d = FenceAt + 2 * (u - 3) + j - 1
      \/ u = 5 /\ j \in 1 .. ValSize /\ d = HomeAt + j - 1
      \/ u = 6 /\ j \in 1 .. ValSize /\ d = HomeAt + ValSize + j - 1
  BY CellsWhere
<1>3. c = d
  OBVIOUS
<1> HIDE DEF c, d
<1>4. CASE t \in Alarms
  BY <1>1, <1>2, <1>3, <1>4, Layout DEF Alarms, Fences, HomeAt
<1>5. CASE t \in Fences
  BY <1>1, <1>2, <1>3, <1>5, Layout DEF Alarms, Fences, HomeAt
<1>6. CASE t = 5
  BY <1>1, <1>2, <1>3, <1>6, Layout DEF Alarms, Fences, HomeAt
<1>7. CASE t = 6
  BY <1>1, <1>2, <1>3, <1>7, Layout DEF Alarms, Fences, HomeAt
<1>8. QED
  BY <1>1, <1>4, <1>5, <1>6, <1>7

-----------------------------------------------------------------------------
(* One setting changed.                                                    *)

\* The record after a value is put into the cells of a setting.
Puts(type, val) ==
  /\ type \in Kept /\ val \in Vals
  /\ DOMAIN config' = Config
  /\ \A i \in DOMAIN CellsOf(type) : config'[CellsOf(type)[i]] = val[i]
  /\ \A c \in Config :
       config'[c] # config[c] => \E i \in DOMAIN CellsOf(type) : CellsOf(type)[i] = c
  /\ want' = [want EXCEPT ![type] = val]
  /\ UNCHANGED booted

\* The shapes the argument needs: the inductive invariant.
SettingsInv ==
  /\ DOMAIN config = Config
  /\ want \in [Kept -> {<<>>} \cup Vals]
  /\ SettingsStayInField

\* A value a client sends is not the empty mark of the history.
LEMMA ValueIsSomething ==
  ASSUME NEW val \in Vals PROVE val # <<>>
<1>1. DOMAIN val = 1 .. ValSize /\ 1 \in 1 .. ValSize
  BY Layout
<1>2. DOMAIN <<>> = {}
  OBVIOUS
<1>3. QED
  BY <1>1, <1>2

\* Putting a value into its own cells keeps the promise.
LEMMA PutsKeeps ==
  ASSUME SettingsInv, NEW type \in Kept, NEW val \in Vals, Puts(type, val)
  PROVE  SettingsInv'
<1>1. want' \in [Kept -> {<<>>} \cup Vals] /\ DOMAIN config' = Config
  BY DEF SettingsInv, Puts
<1>2. want'[type] = val /\ \A u \in Kept : u # type => want'[u] = want[u]
  BY DEF SettingsInv, Puts
<1>3. ASSUME NEW u \in Kept, want'[u] # <<>>, NEW j \in DOMAIN CellsOf(u)
      PROVE  config'[CellsOf(u)[j]] = want'[u][j]
  <2>1. CASE u = type
    BY <1>2, <2>1 DEF Puts
  <2>2. CASE u # type
    <3>1. config[CellsOf(u)[j]] = want[u][j]
      BY <1>2, <1>3, <2>2 DEF SettingsInv, SettingsStayInField
    <3>2. \A i \in DOMAIN CellsOf(type) : CellsOf(type)[i] # CellsOf(u)[j]
      BY <2>2, CellsApart
    <3>3. CellsOf(u)[j] \in Config
      BY CellsInside
    <3>4. config'[CellsOf(u)[j]] = config[CellsOf(u)[j]]
      BY <3>2, <3>3 DEF Puts
    <3>5. QED
      BY <1>2, <2>2, <3>1, <3>4
  <2>3. QED
    BY <2>1, <2>2
<1>4. ASSUME NEW c \in Config, config'[c] # booted'[c]
      PROVE  \E u \in Kept : want'[u] # <<>> /\ \E i \in DOMAIN CellsOf(u) : CellsOf(u)[i] = c
  <2>1. CASE config'[c] # config[c]
    <3>1. \E i \in DOMAIN CellsOf(type) : CellsOf(type)[i] = c
      BY <2>1 DEF Puts
    <3>2. QED
      BY <1>2, <3>1, ValueIsSomething
  <2>2. CASE config'[c] = config[c]
    <3>1. config[c] # booted[c]
      BY <1>4, <2>2 DEF Puts
    <3>2. PICK u \in Kept : want[u] # <<>> /\ \E i \in DOMAIN CellsOf(u) : CellsOf(u)[i] = c
      BY <3>1 DEF SettingsInv, SettingsStayInField
    <3>3. want'[u] # <<>>
      BY <1>2, <3>2, ValueIsSomething
    <3>4. QED
      BY <3>2, <3>3
  <2>3. QED
    BY <2>1, <2>2
<1>5. SettingsStayInField'
  BY <1>1, <1>3, <1>4 DEF SettingsStayInField
<1>6. QED
  BY <1>1, <1>5 DEF SettingsInv

-----------------------------------------------------------------------------
(* The steps.                                                              *)

\* The record as it is loaded satisfies the invariant.
LEMMA SettingsInit == Init => SettingsInv
<1>1. SUFFICES ASSUME Init PROVE SettingsInv
  OBVIOUS
<1>2. DOMAIN config = Config /\ config = booted
  <2>1. config = Loaded(store.flash) /\ booted = config
    BY <1>1 DEF Init
  <2>2. QED
    BY <2>1 DEF Loaded
<1>3. want \in [Kept -> {<<>>} \cup Vals] /\ \A u \in Kept : want[u] = <<>>
  <2>1. want = [type \in Kept |-> <<>>]
    BY <1>1 DEF Init, Kept
  <2>2. QED
    BY <2>1
<1>4. QED
  BY <1>2, <1>3 DEF SettingsInv, SettingsStayInField

\* settings_apply puts the value where it belongs, or does nothing.
LEMMA ApplyKeeps == SettingsInv /\ Apply => SettingsInv'
<1>1. SUFFICES ASSUME SettingsInv, Apply PROVE SettingsInv'
  OBVIOUS
<1>2. PICK type \in Setting, val \in Vals :
        /\ config' = Applied(type, val)
        /\ want' = IF type \in Fences \cup Homes \/ (type \in Alarms /\ InRange(val[1]))
                   THEN [want EXCEPT ![type] = val] ELSE want
  BY <1>1 DEF Apply, setting_value_s
<1>3. UNCHANGED booted /\ DOMAIN config = Config /\ val \in [1 .. ValSize -> Nat \ {0}]
  BY <1>1, Layout DEF Apply, SettingsInv
<1>4. CASE type \in Alarms /\ InRange(val[1])
  <2>1. config' = [config EXCEPT ![AlarmAt + type] = val[1]]
    BY <1>2, <1>4 DEF Applied, Alarms, Fences, Homes
  <2>2. type \in Kept /\ AlarmAt + type \in Config
    BY <1>4, Layout DEF Alarms, Kept, DeviceName, Config
  <2>3. Puts(type, val)
    BY <1>2, <1>3, <1>4, <2>1, <2>2, AlarmCell DEF Puts
  <2>4. QED
    BY <1>1, <2>2, <2>3, PutsKeeps
<1>5. CASE type \in Fences
  <2>1. PICK at \in Config : at = FenceAt + 2 * (type - 3) /\ at + 1 \in Config
    BY <1>5, Layout DEF Fences, Config
  <2>2. config' = [config EXCEPT ![at] = val[1], ![at + 1] = val[2]]
    BY <1>2, <1>5, <2>1 DEF Applied, Alarms, Fences, Homes
  <2>3. type \in Kept /\ at # at + 1
    BY <1>5, <2>1, Layout DEF Fences, Kept, DeviceName, Config
  <2>4. DOMAIN CellsOf(type) = {1, 2} /\ CellsOf(type)[1] = at /\ CellsOf(type)[2] = at + 1
    BY <1>5, <2>1, FenceCells
  <2>5. Puts(type, val)
    BY <1>2, <1>3, <1>5, <2>1, <2>2, <2>3, <2>4 DEF Puts
  <2>6. QED
    BY <1>1, <2>3, <2>5, PutsKeeps
<1>6. CASE type \in Homes
  <2>1. PICK off \in Nat : off = HomeOffset(type) /\ off + ValSize <= HomeLen
                           /\ off = (type - 5) * ValSize
    <3>1. CASE type = 5
      BY <3>1, Layout DEF HomeOffset
    <3>2. CASE type = 6
      BY <3>2, Layout DEF HomeOffset
    <3>3. QED
      BY <1>6, <3>1, <3>2 DEF Homes
  <2>2. config' = [c \in Config |->
                     LET i == c - HomeAt - off
                     IN  IF i \in 0 .. ValSize - 1 /\ c - HomeAt < HomeLen
                         THEN val[i + 1] ELSE config[c]]
    BY <1>2, <1>6, <2>1 DEF Applied, Alarms, Fences, Homes
  <2>3. type \in Kept /\ DOMAIN CellsOf(type) = 1 .. ValSize
        /\ \A i \in 1 .. ValSize : CellsOf(type)[i] = HomeAt + off + i - 1
    BY <1>6, <2>1, HomeCells DEF Homes, Kept, DeviceName
  <2>4. ASSUME NEW i \in 1 .. ValSize
        PROVE  config'[HomeAt + off + i - 1] = val[i]
    <3>1. PICK c \in Config : c = HomeAt + off + i - 1
      BY <2>1, Layout DEF Config, HomeAt
    <3>2. c - HomeAt - off = i - 1 /\ c - HomeAt < HomeLen
      BY <2>1, <3>1, Layout DEF HomeAt
    <3>3. c - HomeAt - off \in 0 .. ValSize - 1 /\ (c - HomeAt - off) + 1 = i
      BY <3>2, Layout
    <3>4. config'[c] = val[(c - HomeAt - off) + 1]
      BY <2>2, <3>2, <3>3
    <3>5. QED
      BY <3>1, <3>3, <3>4
  <2>5. ASSUME NEW c \in Config, config'[c] # config[c]
        PROVE  \E i \in 1 .. ValSize : HomeAt + off + i - 1 = c
    <3>1. c - HomeAt - off \in 0 .. ValSize - 1
      BY <2>2, <2>5
    <3>2. PICK i \in 1 .. ValSize : i = (c - HomeAt - off) + 1
      BY <2>1, <3>1, Layout DEF Config, HomeAt
    <3>3. HomeAt + off + i - 1 = c
      BY <2>1, <3>2, Layout, SMTT(30) DEF Config, HomeAt
    <3>4. QED
      BY <3>3
  <2>6. Puts(type, val)
    <3>1. DOMAIN config' = Config
      BY <2>2
    <3>2. want' = [want EXCEPT ![type] = val]
      BY <1>2, <1>6
    <3>3. QED
      BY <1>3, <2>3, <2>4, <2>5, <3>1, <3>2 DEF Puts
  <2>7. QED
    BY <1>1, <2>3, <2>6, PutsKeeps
<1>7. CASE ~((type \in Alarms /\ InRange(val[1])) \/ type \in Fences \/ type \in Homes)
  <2>1. config' = config /\ want' = want
    BY <1>2, <1>7 DEF Applied
  <2>2. QED
    BY <1>1, <1>3, <2>1 DEF SettingsInv, SettingsStayInField
<1>8. QED
  BY <1>4, <1>5, <1>6, <1>7

\* config_set_alarm puts one cell.
LEMMA SetAlarmKeeps == SettingsInv /\ SetAlarm => SettingsInv'
<1>1. SUFFICES ASSUME SettingsInv, SetAlarm PROVE SettingsInv'
  OBVIOUS
<1>2. PICK i \in Alarms, val \in Vals :
        /\ config' = [config EXCEPT ![AlarmAt + i] = val[1]]
        /\ want' = [want EXCEPT ![i] = val]
  BY <1>1 DEF SetAlarm
<1>3. UNCHANGED booted /\ DOMAIN config = Config
  BY <1>1 DEF SetAlarm, SettingsInv
<1>4. i \in Kept /\ AlarmAt + i \in Config
  BY Layout DEF Alarms, Kept, DeviceName, Config
<1>5. Puts(i, val)
  BY <1>2, <1>3, <1>4, AlarmCell DEF Puts
<1>6. QED
  BY <1>1, <1>4, <1>5, PutsKeeps

\* A restart loads the record and forgets what was set.
LEMMA RestartKeeps == SettingsInv /\ Restart => SettingsInv'
<1>1. SUFFICES ASSUME SettingsInv, Restart PROVE SettingsInv'
  OBVIOUS
<1>2. DOMAIN config' = Config /\ config' = booted'
  BY <1>1 DEF Restart, Loaded
<1>3. want' \in [Kept -> {<<>>} \cup Vals] /\ \A u \in Kept : want'[u] = <<>>
  BY <1>1 DEF Restart, SettingsInv
<1>4. QED
  BY <1>2, <1>3 DEF SettingsInv, SettingsStayInField

\* For every layout, value and order of calls: a setting changes its own field
\* of the running record and no other.
THEOREM SettingsStay == Spec => []SettingsStayInField
<1>1. SettingsInv /\ [Next]_vars => SettingsInv'
  <2>1. SUFFICES ASSUME SettingsInv, [Next]_vars PROVE SettingsInv'
    OBVIOUS
  <2>2. CASE Apply
    BY <2>1, <2>2, ApplyKeeps
  <2>3. CASE SetAlarm
    BY <2>1, <2>3, SetAlarmKeeps
  <2>4. CASE Restart
    BY <2>1, <2>4, RestartKeeps
  <2>5. CASE StartEvent \/ EndEvent \/ OtherPage \/ Format \/ UNCHANGED vars
    <3>1. UNCHANGED <<config, booted, want>>
      BY <2>5 DEF StartEvent, EndEvent, OtherPage, Format, vars
    <3>2. QED
      BY <2>1, <3>1 DEF SettingsInv, SettingsStayInField
  <2>6. QED
    BY <2>1, <2>2, <2>3, <2>4, <2>5 DEF Next
<1>2. SettingsInv => SettingsStayInField
  BY DEF SettingsInv
<1>3. QED
  BY <1>1, <1>2, SettingsInit, PTL DEF Spec

-----------------------------------------------------------------------------
(* The stored alarms.                                                      *)

\* The sizes the storage adds, and where the cells of the record lie in page 0.
LEMMA PageZero ==
  /\ PageSize \in Nat /\ StorageSize \in Nat /\ MaxEvents \in Nat
  /\ PageSize > DataStart /\ PageSize + MaxEvents < StorageSize
  /\ 0 \in Page /\ LastAt \in Config /\ Config \subseteq Offset /\ Offset \subseteq Addr
  /\ \A i \in Alarms : /\ AlarmAt + i \in Nat /\ AlarmAt + i \in Config
                        /\ AlarmAt + i \in Offset /\ AlarmAt + i \in Addr
                        /\ AlarmAt + i # LastAt
  /\ \A p \in Page : p \in Nat /\ (p # 0 => \A c \in Config : c - p \notin Offset)
<1>1. /\ PageSize \in Nat /\ StorageSize \in Nat /\ MaxEvents \in Nat
      /\ PageSize > DataStart /\ PageSize + MaxEvents < StorageSize
  BY SettingsAssumption, GeometryAssumption
<1>2. /\ DataStart \in Nat /\ LastAt = DataStart - 1 /\ DataStart > 0
      /\ \A i \in Alarms : AlarmAt + i \in Nat /\ AlarmAt + i < LastAt
  BY Layout DEF LastAt, DataStart, JumpsAt, Alarms
<1>3. LastAt \in Config /\ Config \subseteq Offset /\ Offset \subseteq Addr
      /\ \A i \in Alarms : /\ AlarmAt + i \in Config /\ AlarmAt + i \in Offset
                            /\ AlarmAt + i \in Addr /\ AlarmAt + i # LastAt
  BY <1>1, <1>2 DEF Config, Offset, Addr
<1>4. 0 \in Page
  BY <1>1, <1>2 DEF Page, Addr
<1>5. ASSUME NEW p \in Page, p # 0
      PROVE  \A c \in Config : c - p \notin Offset
  <2>1. p \in Nat /\ p % PageSize = 0
    BY <1>1 DEF Page, Addr
  <2>2. p >= PageSize
    <3>1. p < PageSize => p % PageSize = p
      BY <1>1, <1>2, <2>1
    <3> QED
      BY <1>1, <1>5, <2>1, <3>1
  <2> QED
    BY <1>1, <1>2, <2>1, <2>2 DEF Config, Offset
<1>6. \A p \in Page : p \in Nat
  BY <1>1 DEF Page, Addr
<1> QED
  BY <1>1, <1>2, <1>3, <1>4, <1>5, <1>6

\* What a store is made of.
IsStore(s) ==
  s = [flash |-> s.flash, page |-> s.page, dirty |-> s.dirty, data |-> s.data]

\* A clean store that has these alarms on the chip and in the cache.
Holds(s, alarms) ==
  /\ \A i \in Alarms : s.flash[AlarmAt + i] = alarms[i]
  /\ s.page = 0 => \A i \in Alarms : s.data[AlarmAt + i] = alarms[i]

StoredInv ==
  /\ IsStore(store) /\ ~store.dirty /\ store.page \in Page \cup {NoPage}
  /\ kept # <<>> => kept = [i \in Alarms |-> kept[i]] /\ Holds(store, kept)

\* Loading a page into a clean cache changes nothing on the chip.
LEMMA Loads ==
  ASSUME NEW s, IsStore(s), ~s.dirty, NEW p
  PROVE  /\ IsStore(GetPage(s, p)) /\ ~GetPage(s, p).dirty /\ GetPage(s, p).page = p
         /\ GetPage(s, p).flash = s.flash
         /\ \A alarms : Holds(s, alarms) => Holds(GetPage(s, p), alarms)
<1>1. CASE p = s.page
  BY <1>1 DEF GetPage
<1>2. CASE p # s.page
  <2>1. GetPage(s, p) = [flash |-> s.flash, page |-> p, dirty |-> s.dirty,
                         data |-> FlashRead(s.flash, p)]
    BY <1>2 DEF GetPage, Flush, IsStore
  <2>2. ASSUME NEW i \in Alarms
        PROVE  FlashRead(s.flash, 0)[AlarmAt + i] = s.flash[AlarmAt + i]
    <3>1. PICK c \in Offset : c = AlarmAt + i /\ c \in Nat
      BY PageZero
    <3>2. FlashRead(s.flash, 0)[c] = s.flash[0 + c]
      BY DEF FlashRead
    <3> QED
      BY <3>1, <3>2
  <2> QED
    BY <2>1, <2>2 DEF IsStore, Holds
<1> QED
  BY <1>1, <1>2

\* What is written out: the page as it was changed, and so the chip.
LEMMA WrittenIs ==
  ASSUME NEW s, IsStore(s), NEW cells
  PROVE  \E d : /\ d = [i \in Offset |-> IF i \in DOMAIN cells THEN cells[i] ELSE s.data[i]]
               /\ Written(s, cells) = [flash |-> FlashWrite(s.flash, s.page, d), page |-> s.page,
                                       dirty |-> FALSE, data |-> d]
<1>1. PICK d : d = [i \in Offset |-> IF i \in DOMAIN cells THEN cells[i] ELSE s.data[i]]
  OBVIOUS
<1>2. PICK f, p, b, e : s = [flash |-> f, page |-> p, dirty |-> b, data |-> e]
  BY DEF IsStore
<1>3. PICK t : t = [s EXCEPT !.data = d, !.dirty = TRUE]
  OBVIOUS
<1>4. t = [flash |-> f, page |-> p, dirty |-> TRUE, data |-> d] /\ s.flash = f /\ s.page = p
  BY <1>2, <1>3
<1>5. Written(s, cells) = Flush(t)
  BY <1>1, <1>3 DEF Written
<1>6. Flush(t) = [flash |-> FlashWrite(f, p, d), page |-> p, dirty |-> FALSE, data |-> d]
  BY <1>4 DEF Flush
<1> QED
  BY <1>1, <1>4, <1>5, <1>6

\* A page that is changed and written out stays in the cache, clean.
LEMMA Writes ==
  ASSUME NEW s, IsStore(s), NEW cells
  PROVE  /\ IsStore(Written(s, cells)) /\ ~Written(s, cells).dirty
         /\ Written(s, cells).page = s.page
<1>1. PICK d, f : Written(s, cells) = [flash |-> f, page |-> s.page, dirty |-> FALSE, data |-> d]
  BY WrittenIs
<1> QED
  BY <1>1 DEF IsStore

\* What logger_end_event writes leaves the alarms alone.
LEMMA EndKeepsAlarms ==
  ASSUME NEW s, IsStore(s), s.page = 0, NEW addr, NEW alarms, Holds(s, alarms)
  PROVE  Holds(Written(s, EndCells(addr)), alarms)
<1>1. PICK cells : cells = EndCells(addr) /\ DOMAIN cells = {LastAt}
  <2>1. DOMAIN EndCells(addr) = {LastAt}
    BY DEF EndCells
  <2> QED
    BY <2>1
<1>2. PICK d : /\ d = [i \in Offset |-> IF i \in DOMAIN cells THEN cells[i] ELSE s.data[i]]
               /\ Written(s, cells) = [flash |-> FlashWrite(s.flash, 0, d), page |-> 0,
                                       dirty |-> FALSE, data |-> d]
  BY WrittenIs
<1>3. ASSUME NEW i \in Alarms
      PROVE  /\ d[AlarmAt + i] = alarms[i]
             /\ FlashWrite(s.flash, 0, d)[AlarmAt + i] = alarms[i]
  <2>1. PICK c : /\ c = AlarmAt + i /\ c \in Nat /\ c \in Offset /\ c \in Addr /\ c # LastAt
    BY PageZero
  <2>2. d[c] = s.data[c]
    BY <1>1, <1>2, <2>1
  <2>3. FlashWrite(s.flash, 0, d)[c] = d[c]
    BY <2>1 DEF FlashWrite
  <2> QED
    BY <2>1, <2>2, <2>3 DEF Holds
<1> QED
  BY <1>1, <1>2, <1>3 DEF Holds

\* Storing an alarm, past the cache.
LEMMA SetAlarmStores == StoredInv /\ SetAlarm => StoredInv'
<1> SUFFICES ASSUME StoredInv, SetAlarm PROVE StoredInv'
  OBVIOUS
<1>1. PICK d : /\ d = [a \in Offset |-> IF a \in Config THEN config'[a] ELSE Zero]
               /\ store' = [store EXCEPT !.flash = FlashWrite(@, 0, d)]
               /\ kept' = IF store.page = 0 THEN <<>> ELSE AlarmCells(config')
  BY DEF SetAlarm
<1>2. PICK f, p, b, e : store = [flash |-> f, page |-> p, dirty |-> b, data |-> e]
  BY DEF StoredInv, IsStore
<1>3. PICK g : g = FlashWrite(f, 0, d)
  OBVIOUS
<1>4. store' = [flash |-> g, page |-> p, dirty |-> b, data |-> e]
  BY <1>1, <1>2, <1>3
<1>5. IsStore(store') /\ ~store'.dirty
  BY <1>2, <1>4 DEF StoredInv, IsStore
<1>6. ASSUME kept' # <<>>
      PROVE  /\ kept' = [i \in Alarms |-> config'[AlarmAt + i]]
             /\ Holds(store', kept')
  <2>1. kept' = [i \in Alarms |-> config'[AlarmAt + i]] /\ p # 0
    BY <1>1, <1>2, <1>6 DEF AlarmCells
  <2>2. ASSUME NEW i \in Alarms
        PROVE  g[AlarmAt + i] = config'[AlarmAt + i]
    <3>1. PICK c : /\ c = AlarmAt + i /\ c \in Nat /\ c \in Offset /\ c \in Addr /\ c \in Config
      BY PageZero
    <3>2. g[c] = d[c]
      BY <1>3, <3>1 DEF FlashWrite
    <3> QED
      BY <1>1, <3>1, <3>2
  <2> QED
    BY <1>4, <2>1, <2>2 DEF Holds
<1> QED
  BY <1>2, <1>4, <1>5, <1>6 DEF StoredInv

\* Every step keeps the invariant.
LEMMA StoredStep == StoredInv /\ [Next]_vars => StoredInv'
<1> SUFFICES ASSUME StoredInv, [Next]_vars PROVE StoredInv'
  OBVIOUS
<1>1. IsStore(store) /\ ~store.dirty /\ 0 \in Page
  BY PageZero DEF StoredInv
<1>2. CASE Apply \/ UNCHANGED vars
  BY <1>2 DEF Apply, vars, StoredInv
<1>3. CASE SetAlarm
  BY <1>3, SetAlarmStores
<1>4. CASE Restart
  <2>1. PICK d : store' = [store EXCEPT !.page = NoPage, !.dirty = FALSE, !.data = d]
    BY <1>4 DEF Restart
  <2>2. PICK f, p, b, e : store = [flash |-> f, page |-> p, dirty |-> b, data |-> e]
    BY <1>1 DEF IsStore
  <2>3. store' = [flash |-> f, page |-> NoPage, dirty |-> FALSE, data |-> d] /\ store.flash = f
    BY <2>1, <2>2
  <2>4. kept' = kept /\ NoPage # 0
    BY <1>4 DEF Restart, NoPage
  <2> QED
    BY <2>3, <2>4 DEF StoredInv, IsStore, Holds
<1>5. CASE StartEvent
  <2>1. PICK s, cells, more, page :
          /\ s = Written(GetPage(store, page), cells)
          /\ store' = Written(GetPage(s, 0), more) /\ kept' = <<>>
    BY <1>5 DEF StartEvent
  <2>2. IsStore(GetPage(store, page))
    BY <1>1, Loads
  <2>3. IsStore(s) /\ ~s.dirty
    BY <2>1, <2>2, Writes
  <2>4. IsStore(GetPage(s, 0)) /\ GetPage(s, 0).page = 0
    BY <2>3, Loads
  <2>5. IsStore(store') /\ ~store'.dirty /\ store'.page = 0
    BY <2>1, <2>4, Writes
  <2> QED
    BY <1>1, <2>1, <2>5 DEF StoredInv
<1>6. CASE EndEvent
  <2>1. store' = Written(GetPage(store, 0), EndCells(open)) /\ kept' = kept
    BY <1>6 DEF EndEvent
  <2>2. PICK s : /\ s = GetPage(store, 0) /\ IsStore(s) /\ s.page = 0
                 /\ kept # <<>> => Holds(s, kept)
    BY <1>1, Loads DEF StoredInv
  <2>3. PICK addr, t : addr = open /\ t = Written(s, EndCells(addr)) /\ t = store'
    BY <2>1, <2>2
  <2>4. IsStore(t) /\ ~t.dirty /\ t.page = 0
    BY <2>2, <2>3, Writes
  <2>5. kept # <<>> => Holds(t, kept)
    BY <2>2, <2>3, EndKeepsAlarms
  <2> QED
    BY <1>1, <2>1, <2>3, <2>4, <2>5 DEF StoredInv
<1>7. CASE OtherPage
  <2>1. PICK p \in Page : store' = GetPage(store, p) /\ kept' = kept
    BY <1>7 DEF OtherPage
  <2>2. PICK s : /\ s = GetPage(store, p) /\ IsStore(s) /\ ~s.dirty /\ s.page = p
                 /\ kept # <<>> => Holds(s, kept)
    BY <1>1, Loads DEF StoredInv
  <2> QED
    BY <2>1, <2>2 DEF StoredInv
<1>8. CASE Format
  <2>1. PICK cells : store' = Written(GetPage(store, 0), cells) /\ kept' = <<>>
    BY <1>8 DEF Format
  <2>2. IsStore(GetPage(store, 0)) /\ GetPage(store, 0).page = 0
    BY <1>1, Loads
  <2>3. IsStore(store') /\ ~store'.dirty /\ store'.page = 0
    BY <2>1, <2>2, Writes
  <2> QED
    BY <1>1, <2>1, <2>3 DEF StoredInv
<1> QED
  BY <1>2, <1>3, <1>4, <1>5, <1>6, <1>7, <1>8 DEF Next

\* An alarm that config_store_persistent put on the chip while the page with the
\* record was not cached is what the next reset loads, whatever the settings, the
\* logger and the resets do, until a start rewrites the header or the storage is
\* formatted.
THEOREM SettingsStoredSurvive == Spec => []StoredAlarmsSurvive
<1>1. StoredInv => StoredAlarmsSurvive
  <2> SUFFICES ASSUME StoredInv, kept # <<>>
               PROVE  AlarmCells(store.flash) = kept /\ AlarmCells(View(store)) = kept
    BY DEF StoredAlarmsSurvive
  <2>1. Holds(store, kept) /\ kept = [i \in Alarms |-> kept[i]] /\ store.page \in Page \cup {NoPage}
    BY DEF StoredInv
  <2>2. ASSUME NEW i \in Alarms
        PROVE  View(store)[AlarmAt + i] = kept[i]
    <3>1. PICK c : /\ c = AlarmAt + i /\ c \in Nat /\ c \in Offset /\ c \in Addr /\ c \in Config
      BY PageZero
    <3>2. View(store)[c] = IF store.page # NoPage /\ c - store.page \in Offset
                           THEN store.data[c - store.page] ELSE store.flash[c]
      BY <3>1 DEF View
    <3>3. CASE store.page = 0
      BY <2>1, <3>1, <3>2, <3>3 DEF NoPage, Holds
    <3>4. CASE store.page # 0
      BY <2>1, <3>1, <3>2, <3>4, PageZero DEF Holds
    <3> QED
      BY <3>3, <3>4
  <2> QED
    BY <2>1, <2>2 DEF AlarmCells, Holds
<1>2. Init => StoredInv
  BY DEF Init, StoredInv, IsStore
<1> QED
  BY <1>1, <1>2, StoredStep, PTL DEF Spec

=============================================================================
