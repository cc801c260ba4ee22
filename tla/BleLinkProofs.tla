----------------------------- MODULE BleLinkProofs -----------------------------
(***************************************************************************)
(* What the radio link keeps for every queue length, number of credits and *)
(* bound: its types, that no interrupt is lost, that no exchange meets an  *)
(* access to the flash chip, and that no credit of the radio appears or    *)
(* vanishes.                                                               *)
(***************************************************************************)
EXTENDS BleLink, SequenceTheorems, FiniteSetTheorems, TLAPS

\* The main task is in flash_read or flash_write only with accesses left.
OpsPending ==
  pc["main"] \in {"flash", "flash_lock", "flash_xfer", "flash_unlock"} => ops # <<>>

TypeInv == TypeOK /\ OpsPending

-----------------------------------------------------------------------------
(* The bounds are natural numbers, the sizes positive ones: what the steps  *)
(* below use of the assumption on the constants.                            *)
LEMMA ConstantTypes ==
  /\ QueueLength \in Nat /\ CreditLimit \in Nat /\ ChipCredits \in Nat
  /\ SetupMessages \in Nat /\ MaxPolls \in Nat
  /\ MaxTransmits \in Nat /\ MaxFlash \in Nat
  /\ MaxNotices \in Nat /\ MaxDrops \in Nat
BY LinkAssumption

(* The link powers up in a state of its types (config_globals,              *)
(* config_ble_task, config_nrf8001).                                        *)
LEMMA TypeInit == Init => TypeInv
<1>1. SUFFICES ASSUME Init PROVE TypeInv
  OBVIOUS
<1>2. chip \in RadioState
  BY <1>1, ConstantTypes DEF Init, config_nrf8001, RadioState, Mode, Command, None, Event, Started
<1>3. spent \in Bounds
  BY <1>1, ConstantTypes DEF Init, config_nrf8001, Bounds
<1>4. pc \in [Task -> MainPlace \cup BlePlace] /\ cmd \in [Task -> Command]
  BY <1>1 DEF Init, config_nrf8001, Task, MainPlace, BlePlace, Sending, Command
<1>5. queue \in Seq(Command) /\ Len(queue) <= QueueLength /\ ops \in Seq(Access)
  BY <1>1, ConstantTypes DEF Init, config_nrf8001
<1>6. bus \in 0 .. 1 /\ ready \in 0 .. 1 /\ credits \in 0 .. CreditLimit
  BY <1>1, ConstantTypes DEF Init, config_nrf8001
<1>7. reqn \in BOOLEAN /\ selected \in BOOLEAN /\ pipeOpen \in BOOLEAN
  BY <1>1 DEF Init, config_nrf8001
<1>8. out \in Command \cup {None} /\ in \in Event \cup {None}
  BY <1>1 DEF Init, config_nrf8001
<1>9. pc["main"] \in MainPlace /\ pc["ble"] \in BlePlace /\ OpsPending
  BY <1>1 DEF Init, config_nrf8001, Task, MainPlace, BlePlace, OpsPending
<1>10. QED
  BY <1>2, <1>3, <1>4, <1>5, <1>6, <1>7, <1>8, <1>9 DEF TypeInv, TypeOK

(* The radio stays a radio whatever it tells.                               *)
LEMMA TellsType ==
  ASSUME NEW c \in RadioState, NEW event \in Event
  PROVE  Tells(c, event) \in RadioState
<1>1. Append(c.events, event) \in Seq(Event)
  BY DEF RadioState
<1>2. QED
  BY <1>1 DEF Tells, RadioState

(* A setup message moves the radio on by one (ACI_EVT_CMD_RSP).             *)
LEMMA ConfiguredType ==
  ASSUME NEW c \in RadioState, NEW mode \in Mode, c.setup + 1 <= SetupMessages
  PROVE  Configured(c, mode) \in RadioState
<1>1. c.setup + 1 \in 0 .. SetupMessages
  BY ConstantTypes DEF RadioState
<1>2. QED
  BY <1>1 DEF Configured, RadioState

(* Each command is answered with the state of a radio (ACI_EVT_CMD_RSP and  *)
(* the events behind it).                                                   *)
LEMMA AnswerType ==
  ASSUME NEW c \in RadioState
  PROVE  Answer(c) \in RadioState
<1>1. {"continue", "response", "pipe_error", "started_standby"} \subseteq Event
  BY DEF Event, Started, Quiet
<1>2. c.mode \in Mode /\ "standby" \in Mode /\ c.setup \in Nat
  BY DEF RadioState, Mode
<1>3. AnswerSetup(c) \in RadioState
  <2>1. CASE c.setup + 1 <= SetupMessages
    <3>1. Configured(c, c.mode) \in RadioState /\ Configured(c, "standby") \in RadioState
      BY <1>2, <2>1, ConfiguredType
    <3>2. Tells(Configured(c, c.mode), "continue") \in RadioState
      BY <1>1, <3>1, TellsType
    <3>3. Tells(Tells(Configured(c, "standby"), "response"), "started_standby")
            \in RadioState
      BY <1>1, <3>1, TellsType
    <3>4. QED
      BY <1>2, <2>1, <3>2, <3>3, ConstantTypes DEF AnswerSetup
  <2>2. CASE ~(c.setup + 1 <= SetupMessages)
    <3>1. Tells(c, "response") \in RadioState
      BY <1>1, TellsType
    <3>2. QED
      BY <1>2, <2>2, <3>1, ConstantTypes DEF AnswerSetup
  <2>3. QED
    BY <2>1, <2>2
<1>4. AnswerConnect(c) \in RadioState
  <2> DEFINE d == [c EXCEPT !.mode = IF @ = "standby" THEN "advertising" ELSE @]
  <2>1. d \in RadioState
    BY DEF RadioState, Mode
  <2>2. QED
    BY <1>1, <2>1, TellsType DEF AnswerConnect
<1>5. AnswerData(c) \in RadioState
  <2>1. c.used < ChipCredits => c.used + 1 \in 0 .. ChipCredits
    BY ConstantTypes DEF RadioState
  <2>2. c.used < ChipCredits => [c EXCEPT !.used = @ + 1] \in RadioState
    BY <2>1 DEF RadioState
  <2>3. [c EXCEPT !.refused = @ + 1] \in RadioState
    BY DEF RadioState
  <2>4. QED
    BY <1>1, <2>2, <2>3, TellsType DEF AnswerData
<1>6. c.received \in {"none", "setup", "connect", "data"}
  BY DEF RadioState, Command, None
<1>7. \/ Answer(c) = c \/ Answer(c) = AnswerSetup(c)
      \/ Answer(c) = AnswerConnect(c) \/ Answer(c) = AnswerData(c)
  <2>1. CASE c.received = "none"
    BY <2>1 DEF Answer, None
  <2>2. CASE c.received = "setup"
    BY <2>2 DEF Answer, None
  <2>3. CASE c.received = "connect"
    BY <2>3 DEF Answer, None
  <2>4. CASE c.received = "data"
    BY <2>4 DEF Answer, None
  <2>5. QED
    BY <1>6, <2>1, <2>2, <2>3, <2>4
<1>8. QED
  BY <1>3, <1>4, <1>5, <1>7

(* A task that moves leaves the other one where it is.                      *)
LEMMA GotoMain ==
  ASSUME pc \in [Task -> MainPlace \cup BlePlace], NEW place \in MainPlace,
         Goto("main", place)
  PROVE  /\ pc' \in [Task -> MainPlace \cup BlePlace]
         /\ pc'["main"] = place /\ pc'["ble"] = pc["ble"]
BY DEF Goto, Task

(* The same for a move of the ble task.                                     *)
LEMMA GotoBle ==
  ASSUME pc \in [Task -> MainPlace \cup BlePlace], NEW place \in BlePlace,
         Goto("ble", place)
  PROVE  /\ pc' \in [Task -> MainPlace \cup BlePlace]
         /\ pc'["ble"] = place /\ pc'["main"] = pc["main"]
BY DEF Goto, Task

(* Sending a command keeps the types, whichever task does it.               *)
LEMMA SendType ==
  ASSUME TypeInv, NEW task \in Task, Send(task)
  PROVE  TypeInv'
<1> USE DEF kernel, lines, locals, world
<1>1. /\ {"lock", "request"} \subseteq MainPlace \cap BlePlace
      /\ "idle" \in MainPlace /\ {"top_up", "wait"} \subseteq BlePlace
  BY DEF MainPlace, BlePlace, Sending
<1>2. ASSUME NEW place \in MainPlace \cup BlePlace, Goto(task, place),
             task = "main" => place \in {"lock", "request", "idle"},
             task = "ble"  => place \in BlePlace,
             ops' = ops
      PROVE  /\ pc' \in [Task -> MainPlace \cup BlePlace]
             /\ pc'["main"] \in MainPlace /\ pc'["ble"] \in BlePlace
             /\ OpsPending'
  BY <1>1, <1>2 DEF TypeInv, TypeOK, OpsPending, Goto, Task
<1>3. CASE SendQueue(task)
  <2>1. queue' \in Seq(Command) /\ Len(queue') <= QueueLength
    BY <1>3, ConstantTypes DEF SendQueue, TypeInv, TypeOK
  <2>2. QED
    BY <1>1, <1>2, <1>3, <2>1 DEF SendQueue, TypeInv, TypeOK
<1>4. CASE SendLock(task)
  BY <1>1, <1>2, <1>4 DEF SendLock, BusTake, TypeInv, TypeOK
<1>5. CASE SendRequest(task)
  <2>1. AfterSend(task) \in MainPlace \cup BlePlace
        /\ (task = "main" => AfterSend(task) = "idle")
        /\ (task = "ble" => AfterSend(task) \in BlePlace)
    BY <1>1 DEF AfterSend
  <2>2. QED
    BY <1>2, <1>5, <2>1 DEF SendRequest, TypeInv, TypeOK
<1>6. QED
  BY <1>3, <1>4, <1>5 DEF Send

(* What a flash operation consists of is a non-empty sequence of accesses   *)
(* (flash_read, flash_write).                                               *)
LEMMA FlashOps ==
  ASSUME NEW s \in {FlashRead} \cup {FlashWrite(polls) : polls \in 1 .. MaxPolls}
  PROVE  s \in Seq(Access) /\ s # <<>>
<1>1. FlashRead \in Seq(Access) /\ FlashRead # <<>>
  BY DEF FlashRead, Access
<1>2. ASSUME NEW polls \in 1 .. MaxPolls
      PROVE  FlashWrite(polls) \in Seq(Access) /\ FlashWrite(polls) # <<>>
  <2>1. polls \in Nat
    BY ConstantTypes
  <2>2. [i \in 1 .. polls |-> "plain"] \in Seq(Access)
    BY <2>1 DEF Access
  <2>3. <<"buffer", "plain">> \in Seq(Access) /\ Len(<<"buffer", "plain">>) = 2
    BY DEF Access
  <2>4. QED
    BY <2>2, <2>3, ConcatProperties DEF FlashWrite
<1>3. QED
  BY <1>1, <1>2

(* Every step of the main task keeps the types (ble_tx_helper, flash.c).    *)
LEMMA MainType ==
  ASSUME TypeInv, Main
  PROVE  TypeInv'
<1> USE DEF kernel, lines, locals, world
<1>1. {"idle", "credit", "queue", "flash", "flash_lock", "flash_xfer", "flash_unlock"}
        \subseteq MainPlace
  BY DEF MainPlace, Sending
<1>2. CASE Transmit
  <2>1. spent' \in Bounds
    <3>1. spent.transmits + 1 \in 0 .. MaxTransmits /\ spent \in Bounds
      BY <1>2, ConstantTypes, SMTT(30) DEF Transmit, Bounds, TypeInv, TypeOK
    <3>2. QED
      BY <1>2, <3>1 DEF Transmit, Bounds
  <2>2. QED
    BY <1>1, <1>2, <2>1, GotoMain DEF Transmit, TypeInv, TypeOK, OpsPending
<1>3. CASE TakeCredit
  <2>1. credits' \in 0 .. CreditLimit
    BY <1>3, ConstantTypes DEF TakeCredit, TypeInv, TypeOK
  <2>2. cmd' \in [Task -> Command]
    BY <1>3 DEF TakeCredit, TypeInv, TypeOK, Task, Command
  <2>3. QED
    BY <1>1, <1>3, <2>1, <2>2, GotoMain DEF TakeCredit, TypeInv, TypeOK, OpsPending
<1>4. CASE Send("main")
  BY <1>4, SendType DEF Task
<1>5. CASE FlashCall
  <2>1. spent' \in Bounds
    <3>1. spent.flash + 1 \in 0 .. MaxFlash /\ spent \in Bounds
      BY <1>5, ConstantTypes, SMTT(30) DEF FlashCall, Bounds, TypeInv, TypeOK
    <3>2. QED
      BY <1>5, <3>1 DEF FlashCall, Bounds
  <2>2. ops' \in Seq(Access) /\ ops' # <<>>
    BY <1>5, FlashOps DEF FlashCall
  <2>3. QED
    BY <1>1, <1>5, <2>1, <2>2, GotoMain DEF FlashCall, TypeInv, TypeOK, OpsPending
<1>6. CASE BufferSelect
  BY <1>1, <1>6, GotoMain DEF BufferSelect, TypeInv, TypeOK, OpsPending
<1>7. CASE FlashLock
  BY <1>1, <1>7, GotoMain DEF FlashLock, BusTake, TypeInv, TypeOK, OpsPending
<1>8. CASE FlashDeselect
  BY <1>1, <1>8, GotoMain DEF FlashDeselect, TypeInv, TypeOK, OpsPending
<1>9. CASE FlashUnlock
  <2>1. ops \in Seq(Access) /\ ops # <<>>
    BY <1>9 DEF FlashUnlock, TypeInv, TypeOK, OpsPending
  <2>2. ops' \in Seq(Access)
    BY <1>9, <2>1 DEF FlashUnlock
  <2>3. QED
    BY <1>1, <1>9, <2>2, GotoMain DEF FlashUnlock, BusGive, TypeInv, TypeOK, OpsPending
<1>10. QED
  BY <1>2, <1>3, <1>4, <1>5, <1>6, <1>7, <1>8, <1>9 DEF Main

(* What the radio is after it delivered its oldest event and took a command *)
(* (nrf8001_exchange_cmds).                                                 *)
LEMMA ExchangeType ==
  ASSUME TypeInv
  PROVE  Delivered \in RadioState
<1>1. chip.events \in Seq(Event) /\ out \in Command \cup {None} /\ chip \in RadioState
  BY DEF TypeInv, TypeOK, RadioState
<1> DEFINE rest == IF chip.events = <<>> THEN <<>> ELSE Tail(chip.events)
<1>2. rest \in Seq(Event)
  BY <1>1
<1> HIDE DEF rest
<1>3. [chip EXCEPT !.received = out, !.rdyn = FALSE, !.events = rest] \in RadioState
  BY <1>1, <1>2 DEF RadioState
<1>4. QED
  BY <1>3 DEF Delivered, rest

(* No answer pulls RDYN low: that is a step of its own (RadioReady).        *)
LEMMA AnswerKeepsRdyn ==
  ASSUME NEW c \in RadioState
  PROVE  Answer(c).rdyn = c.rdyn
<1>1. c.received \in {"none", "setup", "connect", "data"}
  BY DEF RadioState, Command, None
<1>2. /\ AnswerSetup(c).rdyn = c.rdyn
      /\ AnswerConnect(c).rdyn = c.rdyn
      /\ AnswerData(c).rdyn = c.rdyn
  BY DEF AnswerSetup, AnswerConnect, AnswerData, Configured, Tells, RadioState
<1>3. QED
  BY <1>1, <1>2 DEF Answer, None

(* Every step of the ble task keeps the types (task_ble,                    *)
(* nrf8001_handle_event).                                                   *)
LEMMA BleType ==
  ASSUME TypeInv, Ble
  PROVE  TypeInv'
<1> USE DEF kernel, lines, locals, world
<1>1. {"wait", "receive", "lock_null", "begin", "transfer", "unlock", "handle",
       "queue", "top_up", "halted"} \subseteq BlePlace
  BY DEF BlePlace, Sending
<1>2. CASE TakeReady
  BY <1>1, <1>2, GotoBle DEF TakeReady, TypeInv, TypeOK, OpsPending
<1>3. CASE ReceiveCommand
  <2>1. queue \in Seq(Command) /\ queue # <<>>
    BY <1>3 DEF ReceiveCommand, TypeInv, TypeOK
  <2>2. /\ queue' \in Seq(Command) /\ out' \in Command
        /\ Len(queue') <= QueueLength
    BY <1>3, <2>1, ConstantTypes DEF ReceiveCommand, TypeInv, TypeOK
  <2>3. QED
    BY <1>1, <1>3, <2>2, GotoBle DEF ReceiveCommand, TypeInv, TypeOK, OpsPending
<1>4. CASE ReceiveNothing
  BY <1>1, <1>4, GotoBle DEF ReceiveNothing, TypeInv, TypeOK, OpsPending
<1>5. CASE LockNull
  BY <1>1, <1>5, GotoBle DEF LockNull, BusTake, TypeInv, TypeOK, OpsPending
<1>6. CASE ExchangeBegin
  BY <1>1, <1>6, GotoBle DEF ExchangeBegin, TypeInv, TypeOK, OpsPending
<1>7. CASE ExchangeEnd
  <2>1. chip.events \in Seq(Event) /\ out \in Command \cup {None} /\ chip \in RadioState
    BY DEF TypeInv, TypeOK, RadioState
  <2>2. in' \in Event \cup {None}
    BY <1>7, <2>1 DEF ExchangeEnd
  <2>3. chip' \in RadioState
    BY <1>7, ExchangeType, AnswerType DEF ExchangeEnd, Delivered
  <2>4. QED
    BY <1>1, <1>7, <2>2, <2>3, GotoBle DEF ExchangeEnd, TypeInv, TypeOK, OpsPending
<1>8. CASE Unlock
  BY <1>1, <1>8, GotoBle DEF Unlock, BusGive, TypeInv, TypeOK, OpsPending
<1>9. ASSUME NEW events, NEW command \in Command, HandleSending(events, command)
      PROVE  TypeInv'
  <2>1. cmd' \in [Task -> Command]
    BY <1>9 DEF HandleSending, TypeInv, TypeOK, Task
  <2>2. QED
    BY <1>1, <1>9, <2>1, GotoBle DEF HandleSending, TypeInv, TypeOK, OpsPending
<1>10. CASE HandleSetup
  BY <1>9, <1>10 DEF HandleSetup, Command
<1>11. CASE HandleConnect
  BY <1>9, <1>11 DEF HandleConnect, Command
<1>12. ASSUME NEW n \in Nat, GiveCredits(n),
              UNCHANGED <<bus, ready, queue, lines, locals, pipeOpen, world>>
       PROVE  TypeInv'
  <2>1. credits' \in 0 .. CreditLimit
    BY <1>12, ConstantTypes DEF GiveCredits, TypeInv, TypeOK
  <2>2. Goto("ble", "wait") \/ Goto("ble", "halted")
    BY <1>12 DEF GiveCredits
  <2>3. QED
    BY <1>1, <1>12, <2>1, <2>2, GotoBle DEF TypeInv, TypeOK, OpsPending
<1>13. CASE TopUp
  <2>1. Missing \in Nat
    BY ConstantTypes DEF Missing, TypeInv, TypeOK
  <2>2. QED
    BY <1>12, <1>13, <2>1 DEF TopUp
<1>14. CASE HandleCredit
  BY <1>12, <1>14 DEF HandleCredit
<1>15. CASE HandlePipes
  <2>1. pipeOpen' \in BOOLEAN
    BY <1>15 DEF HandlePipes
  <2>2. QED
    BY <1>1, <1>15, <2>1, GotoBle DEF HandlePipes, TypeInv, TypeOK, OpsPending
<1>16. CASE HandleQuiet
  BY <1>1, <1>16, GotoBle DEF HandleQuiet, TypeInv, TypeOK, OpsPending
<1>17. CASE HandleUnknown
  BY <1>1, <1>17, GotoBle DEF HandleUnknown, TypeInv, TypeOK, OpsPending
<1>18. CASE Send("ble")
  BY <1>18, SendType DEF Task
<1>19. QED
  BY <1>2, <1>3, <1>4, <1>5, <1>6, <1>7, <1>8, <1>10, <1>11, <1>13, <1>14, <1>15,
     <1>16, <1>17, <1>18 DEF Ble

(* What the radio does on its own keeps its type, and touches nothing of    *)
(* the device but the semaphore its interrupt gives (nrf8001_isr).          *)
LEMMA RadioType ==
  ASSUME TypeInv, Radio
  PROVE  TypeInv'
<1> USE DEF kernel, lines, locals
<1>1. chip \in RadioState /\ spent \in Bounds
  BY DEF TypeInv, TypeOK
<1>2. {"connected", "opened", "credit", "data_received", "closed", "disconnected"}
        \subseteq Event
  BY DEF Event, Quiet
<1>3. ASSUME NEW c \in RadioState, RadioBecomes(c), spent' \in Bounds
      PROVE  TypeInv'
  BY <1>3 DEF RadioBecomes, TypeInv, TypeOK, OpsPending
<1>4. CASE RadioReady
  <2>1. chip' \in RadioState
    BY <1>1, <1>4 DEF RadioReady, RadioState
  <2>2. QED
    BY <1>4, <2>1 DEF RadioReady, TypeInv, TypeOK, OpsPending
<1>5. CASE RadioConnects
  <2>1. [chip EXCEPT !.mode = "connected", !.pipe = TRUE] \in RadioState
    BY <1>1 DEF RadioState, Mode
  <2>2. Tells(Tells([chip EXCEPT !.mode = "connected", !.pipe = TRUE], "connected"), "opened")
          \in RadioState
    BY <1>2, <2>1, TellsType
  <2>3. QED
    BY <1>1, <1>3, <1>5, <2>2 DEF RadioConnects
<1>6. CASE RadioSends
  <2>1. chip.used - 1 \in 0 .. ChipCredits
    BY <1>1, <1>6, ConstantTypes DEF RadioSends, RadioState
  <2>2. [chip EXCEPT !.used = @ - 1] \in RadioState
    BY <1>1, <2>1 DEF RadioState
  <2>3. Tells([chip EXCEPT !.used = @ - 1], "credit") \in RadioState
    BY <1>2, <2>2, TellsType
  <2>4. QED
    BY <1>1, <1>3, <1>6, <2>3 DEF RadioSends
<1>7. CASE RadioNotices
  <2>1. spent.notices + 1 \in 0 .. MaxNotices
    BY <1>1, <1>7, ConstantTypes DEF RadioNotices, Bounds
  <2>2. spent' \in Bounds
    BY <1>1, <1>7, <2>1 DEF RadioNotices, Bounds
  <2>3. Tells(chip, "data_received") \in RadioState
    BY <1>1, <1>2, TellsType
  <2>4. ASSUME NEW open \in BOOLEAN
        PROVE  Tells([chip EXCEPT !.pipe = open], IF open THEN "opened" ELSE "closed")
                 \in RadioState
    <3>1. [chip EXCEPT !.pipe = open] \in RadioState
      BY <1>1 DEF RadioState
    <3>2. (IF open THEN "opened" ELSE "closed") \in Event
      BY <1>2
    <3> QED
      BY <3>1, <3>2, TellsType
  <2>5. QED
    BY <1>3, <1>7, <2>2, <2>3, <2>4 DEF RadioNotices
<1>8. CASE RadioDrops
  <2>1. spent.drops + 1 \in 0 .. MaxDrops
    BY <1>1, <1>8, ConstantTypes DEF RadioDrops, Bounds
  <2>2. spent' \in Bounds
    BY <1>1, <1>8, <2>1 DEF RadioDrops, Bounds
  <2>3. 0 \in 0 .. ChipCredits /\ "standby" \in Mode
    BY ConstantTypes DEF Mode
  <2>4. [chip EXCEPT !.mode = "standby", !.used = 0, !.pipe = FALSE] \in RadioState
    BY <1>1, <2>3 DEF RadioState
  <2>5. Tells([chip EXCEPT !.mode = "standby", !.used = 0, !.pipe = FALSE], "disconnected")
          \in RadioState
    BY <1>2, <2>4, TellsType
  <2>6. QED
    BY <1>3, <1>8, <2>2, <2>5 DEF RadioDrops
<1>9. QED
  BY <1>4, <1>5, <1>6, <1>7, <1>8 DEF Radio

-----------------------------------------------------------------------------
(* Every step keeps the types, whoever takes it.                            *)
LEMMA TypeStep ==
  ASSUME TypeInv, [Next]_vars
  PROVE  TypeInv'
<1>1. CASE Next
  BY <1>1, MainType, BleType, RadioType DEF Next
<1>2. CASE UNCHANGED vars
  BY <1>2 DEF vars, kernel, lines, locals, world, TypeInv, TypeOK, OpsPending
<1>3. QED
  BY <1>1, <1>2

(* The types of the link are an invariant, together with the fact that the  *)
(* flash driver has something left to do while it is at work.               *)
LEMMA TypeInvariant == Spec => []TypeInv
<1>1. Init => TypeInv
  BY TypeInit
<1>2. TypeInv /\ [Next]_vars => TypeInv'
  BY TypeStep
<1>3. QED
  BY <1>1, <1>2, PTL DEF Spec

(* Every variable of the link keeps its type: no semaphore counts beyond    *)
(* its limit, no queue grows beyond its length.                             *)
THEOREM LinkTypeCorrect == Spec => []TypeOK
<1>1. TypeInv => TypeOK
  BY DEF TypeInv
<1>2. QED
  BY <1>1, TypeInvariant, PTL

-----------------------------------------------------------------------------
(* ReadyNotLost is inductive on its own, given the types: only the radio    *)
(* lowers RDYN, and it gives the semaphore with it; the ble task keeps the  *)
(* obligation from the take of the semaphore to the end of the exchange.    *)

(* The ble task leaves the wait only with the semaphore in hand, and reaches *)
(* the end of an exchange only by making it.                                *)
LEMMA ReadyStep ==
  ASSUME TypeInv, ReadyNotLost, Next
  PROVE  ReadyNotLost'
<1> USE DEF kernel, lines, locals, world
<1>1. /\ pc \in [Task -> MainPlace \cup BlePlace] /\ chip \in RadioState
      /\ ready \in 0 .. 1
  BY DEF TypeInv, TypeOK
<1>2. CASE UNCHANGED <<chip, ready>> /\ pc'["ble"] = pc["ble"]
  BY <1>2 DEF ReadyNotLost
<1>3. CASE Main
  <2>1. /\ {"idle", "credit", "queue", "flash", "flash_lock", "flash_xfer",
             "flash_unlock", "lock", "request"} \subseteq MainPlace
        /\ AfterSend("main") = "idle"
    BY DEF MainPlace, Sending, AfterSend
  <2>2. UNCHANGED <<chip, ready>>
    BY <1>3 DEF Main, Transmit, TakeCredit, Send, SendQueue, SendLock, SendRequest,
       FlashCall, BufferSelect, FlashLock, FlashDeselect, FlashUnlock
  <2>3. \E place \in MainPlace : Goto("main", place)
    BY <1>3, <2>1 DEF Main, Transmit, TakeCredit, Send, SendQueue, SendLock,
       SendRequest, FlashCall, BufferSelect, FlashLock, FlashDeselect, FlashUnlock
  <2>4. QED
    BY <1>1, <1>2, <2>2, <2>3, GotoMain
<1>4. CASE Radio
  <2>1. CASE RadioReady
    BY <2>1 DEF RadioReady, ReadyNotLost
  <2>2. CASE \/ RadioConnects \/ RadioSends \/ RadioNotices \/ RadioDrops
    <3>1. chip'.rdyn = chip.rdyn /\ UNCHANGED <<pc, ready>>
      BY <1>1, <2>2 DEF RadioConnects, RadioSends, RadioNotices, RadioDrops,
         RadioBecomes, Tells, RadioState
    <3>2. QED
      BY <3>1 DEF ReadyNotLost
  <2>3. QED
    BY <1>4, <2>1, <2>2 DEF Radio
<1>5. CASE Ble
  <2> DEFINE Answering == {"receive", "lock_null", "begin", "transfer"}
  <2>1. ASSUME NEW place \in BlePlace, Goto("ble", place), UNCHANGED <<chip, ready>>,
               pc["ble"] \in Answering => place \in Answering
        PROVE  ReadyNotLost'
    BY <1>1, <2>1, GotoBle DEF ReadyNotLost
  <2>2. {"wait", "receive", "lock_null", "begin", "transfer", "unlock", "handle",
         "queue", "lock", "request", "top_up", "halted"} \subseteq BlePlace
    BY DEF BlePlace, Sending
  <2>3. CASE TakeReady
    BY <1>1, <2>2, <2>3, GotoBle DEF TakeReady, ReadyNotLost
  <2>4. CASE ReceiveCommand \/ ReceiveNothing \/ LockNull \/ ExchangeBegin
    BY <2>1, <2>2, <2>4 DEF ReceiveCommand, ReceiveNothing, LockNull, ExchangeBegin
  <2>5. CASE ExchangeEnd
    <3>1. Delivered \in RadioState /\ Delivered.rdyn = FALSE
      BY <1>1, ExchangeType DEF Delivered, RadioState
    <3>2. chip'.rdyn = FALSE
      BY <2>5, <3>1, AnswerKeepsRdyn DEF ExchangeEnd
    <3>3. QED
      BY <3>2 DEF ReadyNotLost
  <2>6. CASE \/ Unlock \/ HandleSetup \/ HandleConnect \/ HandlePipes
             \/ HandleQuiet \/ HandleUnknown
    BY <2>1, <2>2, <2>6 DEF Unlock, HandleSetup, HandleConnect, HandleSending, Handles,
       HandlePipes, HandleQuiet, HandleUnknown
  <2>7. CASE TopUp \/ HandleCredit
    BY <2>1, <2>2, <2>7 DEF TopUp, HandleCredit, Handles, GiveCredits
  <2>8. CASE Send("ble")
    BY <2>1, <2>2, <2>8 DEF Send, SendQueue, SendLock, SendRequest, AfterSend
  <2>9. QED
    BY <1>5, <2>3, <2>4, <2>5, <2>6, <2>7, <2>8 DEF Ble
<1>6. QED
  BY <1>3, <1>4, <1>5 DEF Next

(* No interrupt of the radio is lost, whatever the bounds.                  *)
THEOREM LinkReadyNotLost == Spec => []ReadyNotLost
<1>1. Init => ReadyNotLost
  BY DEF Init, config_nrf8001, ReadyNotLost
<1>2. TypeInv /\ ReadyNotLost /\ [Next]_vars => ReadyNotLost'
  BY ReadyStep DEF vars, kernel, world, ReadyNotLost
<1>3. QED
  BY <1>1, <1>2, TypeInvariant, PTL DEF Spec

-----------------------------------------------------------------------------
(* Who is on the bus, with two senders and the flash driver competing for   *)
(* it.                                                                      *)

OwnInv == TypeInv /\ BusOwned

\* The flash driver cannot be on the bus while an exchange is, since the sender of the
\* command, or the ble task itself, has the lock or is about to take it.
LEMMA OwnApart ==
  ASSUME OwnInv, BleHolds
  PROVE  ~MainHolds /\ (bus = 0 \/ pc["main"] = "lock")
<1>1. /\ Len(queue) \in Nat /\ pc["ble"] # "lock" /\ bus \in 0 .. 1
      /\ Len(queue) + One(BleHolds)
           <= One(bus = 0 /\ ~MainHolds) + One(pc["main"] = "lock") + One(pc["ble"] = "lock")
  BY DEF OwnInv, TypeInv, TypeOK, BusOwned, BleHolds
<1>2. One(bus = 0 /\ ~MainHolds) + One(pc["main"] = "lock") >= 1
  BY <1>1 DEF One
<1>3. MainHolds => pc["main"] # "lock"
  BY DEF MainHolds
<1> QED
  BY <1>2, <1>3 DEF One

\* Sending keeps the account, whichever task does it: what joins the queue is waited for
\* with the lock still to take, and the lock is taken when nobody has it.
LEMMA OwnSend ==
  ASSUME OwnInv, NEW task \in Task, Send(task)
  PROVE  BusOwned'
<1> USE DEF kernel, lines, locals, world
<1>1. /\ pc \in [Task -> MainPlace \cup BlePlace] /\ queue \in Seq(Command)
      /\ cmd[task] \in Command /\ Len(queue) \in Nat /\ bus \in 0 .. 1 /\ BusOwned
      /\ task \in {"main", "ble"}
  BY DEF OwnInv, TypeInv, TypeOK, Task
<1>2. CASE SendQueue(task)
  <2>1. Len(queue') = Len(queue) + 1 /\ bus' = bus
    BY <1>1, <1>2 DEF SendQueue
  <2>2. pc[task] = "queue" /\ pc'[task] = "lock"
        /\ \A other \in Task \ {task} : pc'[other] = pc[other]
    BY <1>1, <1>2 DEF SendQueue, Goto
  <2> QED
    BY <1>1, <2>1, <2>2 DEF BusOwned, MainHolds, BleHolds, One, Task
<1>3. CASE SendLock(task)
  <2>1. queue' = queue /\ bus = 1 /\ bus' = 0
    BY <1>3 DEF SendLock, BusTake
  <2>2. pc[task] = "lock" /\ pc'[task] = "request"
        /\ \A other \in Task \ {task} : pc'[other] = pc[other]
    BY <1>1, <1>3 DEF SendLock, Goto
  <2> QED
    BY <1>1, <2>1, <2>2 DEF BusOwned, MainHolds, BleHolds, One, Task
<1>4. CASE SendRequest(task)
  <2>1. queue' = queue /\ bus' = bus
    BY <1>4 DEF SendRequest
  <2>2. /\ pc[task] = "request" /\ pc'[task] \in {"idle", "top_up", "wait"}
        /\ \A other \in Task \ {task} : pc'[other] = pc[other]
    BY <1>1, <1>4 DEF SendRequest, Goto, AfterSend
  <2> QED
    BY <1>1, <2>1, <2>2 DEF BusOwned, MainHolds, BleHolds, One, Task
<1> QED
  BY <1>2, <1>3, <1>4 DEF Send

\* The flash driver takes the bus only when it is free, and gives what it took.
LEMMA OwnMain ==
  ASSUME OwnInv, Main
  PROVE  BusOwned'
<1> USE DEF kernel, lines, locals, world
<1>1. /\ pc \in [Task -> MainPlace \cup BlePlace] /\ Len(queue) \in Nat /\ bus \in 0 .. 1
      /\ {"idle", "credit", "queue", "flash", "flash_lock", "flash_xfer", "flash_unlock"}
           \subseteq MainPlace
      /\ BusOwned
  BY DEF OwnInv, TypeInv, TypeOK, MainPlace, Sending
<1>2. ASSUME NEW place \in MainPlace \ {"lock", "flash_xfer", "flash_unlock"},
             Goto("main", place), UNCHANGED <<bus, queue>>,
             pc["main"] \notin {"lock", "flash_xfer", "flash_unlock"}
      PROVE  BusOwned'
  <2>1. pc'["main"] = place /\ pc'["ble"] = pc["ble"]
    BY <1>1, <1>2, GotoMain
  <2> QED
    BY <1>1, <1>2, <2>1 DEF BusOwned, MainHolds, BleHolds, One
<1>3. CASE Transmit \/ TakeCredit \/ FlashCall \/ BufferSelect
  <2>1. /\ UNCHANGED <<bus, queue>> /\ pc["main"] \in {"idle", "credit", "flash"}
        /\ \E place \in {"credit", "queue", "flash", "flash_lock"} : Goto("main", place)
    BY <1>3 DEF Transmit, TakeCredit, FlashCall, BufferSelect
  <2> QED
    BY <1>1, <1>2, <2>1 DEF MainPlace, Sending
<1>4. CASE Send("main")
  BY <1>4, OwnSend DEF Task
<1>5. CASE FlashLock
  <2>1. /\ bus = 1 /\ bus' = 0 /\ queue' = queue
        /\ pc["main"] \in {"flash", "flash_lock"}
        /\ pc'["main"] = "flash_xfer" /\ pc'["ble"] = pc["ble"]
    BY <1>1, <1>5, GotoMain DEF FlashLock, BusTake
  <2> QED
    BY <1>1, <2>1 DEF BusOwned, MainHolds, BleHolds, One
<1>6. CASE FlashDeselect
  <2>1. /\ UNCHANGED <<bus, queue>> /\ pc["main"] = "flash_xfer"
        /\ pc'["main"] = "flash_unlock" /\ pc'["ble"] = pc["ble"]
    BY <1>1, <1>6, GotoMain DEF FlashDeselect
  <2> QED
    BY <1>1, <2>1 DEF BusOwned, MainHolds, BleHolds, One
<1>7. CASE FlashUnlock
  <2>1. /\ bus' = 1 /\ queue' = queue /\ pc["main"] = "flash_unlock"
        /\ pc'["main"] \in {"idle", "flash"} /\ pc'["ble"] = pc["ble"]
    BY <1>1, <1>7, GotoMain DEF FlashUnlock, BusGive
  <2> QED
    BY <1>1, <2>1 DEF BusOwned, MainHolds, BleHolds, One
<1>8. QED
  BY <1>3, <1>4, <1>5, <1>6, <1>7 DEF Main

(* What the ble task receives it exchanges, and the bus it gives after the  *)
(* exchange is not one the flash driver has taken.                          *)
LEMMA OwnBle ==
  ASSUME OwnInv, Ble
  PROVE  BusOwned'
<1> USE DEF kernel, lines, locals, world
<1>1. /\ pc \in [Task -> MainPlace \cup BlePlace] /\ queue \in Seq(Command)
      /\ {"wait", "receive", "lock_null", "begin", "transfer", "unlock", "handle",
          "queue", "lock", "request", "top_up", "halted"} \subseteq BlePlace
      /\ BusOwned /\ bus \in 0 .. 1 /\ Len(queue) \in Nat
  BY DEF OwnInv, TypeInv, TypeOK, BlePlace, Sending
<1>2. ASSUME NEW place \in BlePlace, Goto("ble", place)
      PROVE  pc'["ble"] = place /\ pc'["main"] = pc["main"]
  BY <1>1, <1>2, GotoBle
<1>3. ASSUME NEW place \in BlePlace \ {"lock", "begin", "transfer", "unlock"},
             Goto("ble", place), UNCHANGED <<bus, queue>>,
             pc["ble"] \notin {"lock", "begin", "transfer", "unlock"}
      PROVE  BusOwned'
  BY <1>1, <1>2, <1>3 DEF BusOwned, MainHolds, BleHolds, One
<1>4. CASE \/ TakeReady \/ ReceiveNothing \/ HandleSetup \/ HandleConnect \/ TopUp
           \/ HandleCredit \/ HandlePipes \/ HandleQuiet \/ HandleUnknown
  <2>1. /\ UNCHANGED <<bus, queue>> /\ pc["ble"] \in {"wait", "receive", "handle", "top_up"}
        /\ \E place \in {"receive", "lock_null", "queue", "wait", "halted"} :
             Goto("ble", place)
    BY <1>4 DEF TakeReady, ReceiveNothing, HandleSetup, HandleConnect, HandleSending, Handles,
       TopUp, HandleCredit, GiveCredits, HandlePipes, HandleQuiet, HandleUnknown
  <2> QED
    BY <1>1, <1>3, <2>1
<1>5. CASE ReceiveCommand
  <2>1. /\ bus' = bus /\ Len(queue') = Len(queue) - 1
        /\ pc["ble"] = "receive" /\ pc'["ble"] = "begin" /\ pc'["main"] = pc["main"]
    BY <1>1, <1>2, <1>5 DEF ReceiveCommand
  <2> QED
    BY <1>1, <2>1 DEF BusOwned, MainHolds, BleHolds, One
<1>6. CASE LockNull
  <2>1. /\ bus = 1 /\ bus' = 0 /\ queue' = queue
        /\ pc["ble"] = "lock_null" /\ pc'["ble"] = "begin" /\ pc'["main"] = pc["main"]
    BY <1>1, <1>2, <1>6 DEF LockNull, BusTake
  <2> QED
    BY <1>1, <2>1 DEF BusOwned, MainHolds, BleHolds, One
<1>7. CASE ExchangeBegin \/ ExchangeEnd
  <2>1. /\ UNCHANGED <<bus, queue>> /\ pc["ble"] \in {"begin", "transfer"}
        /\ pc'["ble"] \in {"transfer", "unlock"} /\ pc'["main"] = pc["main"]
    BY <1>1, <1>2, <1>7 DEF ExchangeBegin, ExchangeEnd
  <2> QED
    BY <1>1, <2>1 DEF BusOwned, MainHolds, BleHolds, One
<1>8. CASE Unlock
  <2>1. /\ bus' = 1 /\ queue' = queue /\ pc["ble"] = "unlock" /\ pc'["main"] = pc["main"]
        /\ pc'["ble"] \in {"wait", "handle"}
    BY <1>1, <1>2, <1>8 DEF Unlock, BusGive
  <2>2. ~MainHolds
    BY <2>1, OwnApart DEF BleHolds
  <2> QED
    BY <1>1, <2>1, <2>2 DEF BusOwned, MainHolds, BleHolds, One
<1>9. CASE Send("ble")
  BY <1>9, OwnSend DEF Task
<1>10. QED
  BY <1>4, <1>5, <1>6, <1>7, <1>8, <1>9 DEF Ble

(* The invariant behind both theorems below.                                *)
LEMMA OwnInvariant == Spec => []OwnInv
<1>1. Init => OwnInv
  <2> SUFFICES ASSUME Init PROVE OwnInv
    OBVIOUS
  <2>1. /\ Len(queue) = 0 /\ bus = 1 /\ pc["main"] = "idle" /\ pc["ble"] = "wait"
    BY DEF Init, config_nrf8001, Task
  <2> QED
    BY <2>1, TypeInit DEF OwnInv, BusOwned, MainHolds, BleHolds, One
<1>2. OwnInv /\ [Next]_vars => OwnInv'
  <2> SUFFICES ASSUME OwnInv, [Next]_vars PROVE OwnInv'
    OBVIOUS
  <2>1. TypeInv'
    BY TypeStep DEF OwnInv
  <2>2. BusOwned'
    <3>1. CASE Main
      BY <3>1, OwnMain
    <3>2. CASE Ble
      BY <3>2, OwnBle
    <3>3. CASE Radio
      <4>1. UNCHANGED <<pc, bus, queue>>
        BY <3>3 DEF Radio, RadioReady, RadioConnects, RadioSends, RadioNotices,
           RadioDrops, RadioBecomes, kernel
      <4>2. QED
        BY <4>1 DEF OwnInv, BusOwned, MainHolds, BleHolds
    <3>4. CASE UNCHANGED vars
      BY <3>4 DEF vars, kernel, OwnInv, BusOwned, MainHolds, BleHolds
    <3>5. QED
      BY <3>1, <3>2, <3>3, <3>4 DEF Next
  <2>3. QED
    BY <2>1, <2>2 DEF OwnInv
<1>3. QED
  BY <1>1, <1>2, PTL DEF Spec

(* However packets, flash accesses and commands of the ble task itself      *)
(* compete for the lock: for every command that waits or is exchanged,      *)
(* somebody other than the flash driver has the lock, or its sender has yet *)
(* to take it.                                                              *)
THEOREM LinkBusOwned == Spec => []BusOwned
<1>1. OwnInv => BusOwned
  BY DEF OwnInv
<1>2. QED
  BY <1>1, OwnInvariant, PTL

(* No exchange with the radio ever meets an access to the flash chip, and   *)
(* the bus is taken for it unless the ble task was faster than a sender     *)
(* that has not locked yet: what is left of the comment above               *)
(* nrf8001_exchange_cmds.                                                   *)
THEOREM LinkExchangeOwnsBus == Spec => []ExchangeOwnsBus
<1>1. OwnInv => ExchangeOwnsBus
  BY OwnApart DEF ExchangeOwnsBus
<1>2. QED
  BY <1>1, OwnInvariant, PTL

-----------------------------------------------------------------------------
(* CreditsConserved counts the credits wherever they are, in the queue and  *)
(* among the events of the radio too.  What counting does with a sequence   *)
(* that grows at its end or loses its head.                                 *)

\* The places of an element.
Places(seq, x) == {i \in 1 .. Len(seq) : seq[i] = x}

\* What is counted is a finite set of numbers.
LEMMA CountPlaces ==
  ASSUME NEW S, NEW s \in Seq(S), NEW x
  PROVE  /\ Count(s, x) = Cardinality(Places(s, x))
         /\ IsFiniteSet(Places(s, x)) /\ Count(s, x) \in Nat
<1>1. Len(s) \in Nat /\ DOMAIN s = 1 .. Len(s)
  OBVIOUS
<1>2. IsFiniteSet(1 .. Len(s)) /\ Places(s, x) \in SUBSET (1 .. Len(s))
  BY <1>1, FS_Interval DEF Places
<1>3. IsFiniteSet(Places(s, x))
  BY <1>2, FS_Subset
<1>4. Count(s, x) = Cardinality(Places(s, x))
  BY <1>1 DEF Count, Places
<1> QED
  BY <1>3, <1>4, FS_CardinalityType

\* An element that is nowhere counts nothing.
LEMMA CountNone ==
  ASSUME NEW S, NEW s \in Seq(S), NEW x, \A i \in 1 .. Len(s) : s[i] # x
  PROVE  Count(s, x) = 0
<1>1. Places(s, x) = {}
  BY DEF Places
<1> QED
  BY <1>1, CountPlaces, FS_EmptySet

\* A new last element counts if it is the one counted.
LEMMA CountAppend ==
  ASSUME NEW S, NEW s \in Seq(S), NEW e \in S, NEW x
  PROVE  Count(Append(s, e), x) = Count(s, x) + One(e = x)
<1>1. /\ Append(s, e) \in Seq(S) /\ Len(s) \in Nat /\ Len(Append(s, e)) = Len(s) + 1
      /\ \A i \in 1 .. Len(s) : Append(s, e)[i] = s[i]
      /\ Append(s, e)[Len(s) + 1] = e
  OBVIOUS
<1>2. Len(s) + 1 \notin Places(s, x)
  BY <1>1 DEF Places
<1>3. Places(Append(s, e), x) = IF e = x THEN Places(s, x) \cup {Len(s) + 1} ELSE Places(s, x)
  <2>1. ASSUME NEW i
        PROVE  i \in Places(Append(s, e), x)
                 <=> i \in Places(s, x) \/ (i = Len(s) + 1 /\ e = x)
    BY <1>1 DEF Places
  <2> QED
    BY <2>1
<1>4. /\ Count(s, x) = Cardinality(Places(s, x)) /\ IsFiniteSet(Places(s, x))
      /\ Count(Append(s, e), x) = Cardinality(Places(Append(s, e), x))
      /\ Count(s, x) \in Nat
  BY <1>1, CountPlaces
<1>5. Cardinality(Places(s, x) \cup {Len(s) + 1}) = Cardinality(Places(s, x)) + 1
  BY <1>2, <1>4, FS_AddElement
<1> QED
  BY <1>3, <1>4, <1>5 DEF One

\* What the sequence loses with its head.
LEMMA CountTail ==
  ASSUME NEW S, NEW s \in Seq(S), s # <<>>, NEW x
  PROVE  Count(s, x) = Count(Tail(s), x) + One(Head(s) = x)
<1>1. /\ Tail(s) \in Seq(S) /\ Len(s) \in Nat \ {0} /\ Len(Tail(s)) = Len(s) - 1
      /\ \A i \in 1 .. Len(s) - 1 : Tail(s)[i] = s[i + 1]
      /\ Head(s) = s[1]
  OBVIOUS
<1> DEFINE Rest == Places(s, x) \ {1}
           shift == [i \in Places(Tail(s), x) |-> i + 1]
<1>2. \A i \in Places(Tail(s), x) : i \in Int /\ i + 1 \in Rest
  BY <1>1 DEF Places
<1>3. \A j \in Rest : j - 1 \in Places(Tail(s), x) /\ (j - 1) + 1 = j
  <2> SUFFICES ASSUME NEW j \in Rest
               PROVE  j - 1 \in Places(Tail(s), x) /\ (j - 1) + 1 = j
    OBVIOUS
  <2>1. j \in Nat /\ j # 1 /\ j >= 1 /\ j <= Len(s) /\ s[j] = x
    BY <1>1 DEF Places
  <2>2. j - 1 \in 1 .. Len(s) - 1 /\ (j - 1) + 1 = j
    BY <1>1, <2>1
  <2>3. Tail(s)[j - 1] = s[j]
    BY <1>1, <2>2
  <2> QED
    BY <1>1, <2>1, <2>2, <2>3 DEF Places
<1>4. shift \in Bijection(Places(Tail(s), x), Rest)
  <2>1. shift \in [Places(Tail(s), x) -> Rest]
    BY <1>2
  <2>2. \A a, b \in Places(Tail(s), x) : shift[a] = shift[b] => a = b
    BY <1>2
  <2>3. \A j \in Rest : \E i \in Places(Tail(s), x) : shift[i] = j
    BY <1>3
  <2> QED
    BY <2>1, <2>2, <2>3 DEF Bijection, Injection, Surjection, IsInjective
<1>5. Cardinality(Places(Tail(s), x)) = Cardinality(Rest)
  BY <1>1, <1>4, CountPlaces, FS_Bijection DEF ExistsBijection
<1>6. Cardinality(Rest) = IF 1 \in Places(s, x) THEN Cardinality(Places(s, x)) - 1
                                                ELSE Cardinality(Places(s, x))
  BY CountPlaces, FS_RemoveElement
<1>7. 1 \in Places(s, x) <=> Head(s) = x
  BY <1>1 DEF Places
<1> QED
  <2>1. /\ Count(s, x) = Cardinality(Places(s, x)) /\ Count(s, x) \in Nat
        /\ Count(Tail(s), x) = Cardinality(Places(Tail(s), x))
    BY <1>1, CountPlaces
  <2> QED
    BY <1>5, <1>6, <1>7, <2>1 DEF One

-----------------------------------------------------------------------------
(* What the answers of the radio add to its events and take from its        *)
(* buffers.                                                                 *)

NoneOf(s, kinds) == \A i \in 1 .. Len(s) : s[i] \notin kinds

\* A new last element of another kind, and the loss of the head.
LEMMA NoneOfSeq ==
  ASSUME NEW S, NEW s \in Seq(S), NEW kinds, NoneOf(s, kinds)
  PROVE  /\ \A e \in S : e \notin kinds => NoneOf(Append(s, e), kinds)
         /\ s # <<>> => NoneOf(Tail(s), kinds) /\ Head(s) \notin kinds
<1>1. ASSUME NEW e \in S, e \notin kinds
      PROVE  NoneOf(Append(s, e), kinds)
  <2>1. /\ Len(s) \in Nat /\ Len(Append(s, e)) = Len(s) + 1
        /\ \A i \in 1 .. Len(s) : Append(s, e)[i] = s[i]
        /\ Append(s, e)[Len(s) + 1] = e
    OBVIOUS
  <2> QED
    BY <1>1, <2>1 DEF NoneOf
<1>2. ASSUME s # <<>>
      PROVE  NoneOf(Tail(s), kinds) /\ Head(s) \notin kinds
  <2>1. /\ Len(s) \in Nat \ {0} /\ Len(Tail(s)) = Len(s) - 1 /\ Head(s) = s[1]
        /\ \A i \in 1 .. Len(s) - 1 : Tail(s)[i] = s[i + 1]
    BY <1>2
  <2> QED
    BY <2>1 DEF NoneOf
<1> QED
  BY <1>1, <1>2

\* An event more changes nothing else about the radio.
LEMMA TellsEffect ==
  ASSUME NEW c \in RadioState, NEW event \in Event
  PROVE  /\ Tells(c, event) \in RadioState
         /\ Tells(c, event).events = Append(c.events, event)
         /\ Tells(c, event).mode = c.mode /\ Tells(c, event).setup = c.setup
         /\ Tells(c, event).used = c.used /\ Tells(c, event).refused = c.refused
         /\ Count(Tells(c, event).events, "credit")
              = Count(c.events, "credit") + One(event = "credit")
<1>1. /\ Tells(c, event).events = Append(c.events, event)
      /\ Tells(c, event).mode = c.mode /\ Tells(c, event).setup = c.setup
      /\ Tells(c, event).used = c.used /\ Tells(c, event).refused = c.refused
  BY DEF Tells, RadioState
<1>2. c.events \in Seq(Event)
  BY DEF RadioState
<1> QED
  BY <1>1, <1>2, TellsType, CountAppend

\* The four answers, each by what it does.
LEMMA AnswerCases ==
  ASSUME NEW c \in RadioState
  PROVE  \/ c.received = "none" /\ Answer(c) = c
         \/ c.received = "setup" /\ Answer(c) = AnswerSetup(c)
         \/ c.received = "connect" /\ Answer(c) = AnswerConnect(c)
         \/ c.received = "data" /\ Answer(c) = AnswerData(c)
<1>1. c.received \in {"none", "setup", "connect", "data"}
  BY DEF RadioState, Command, None
<1> QED
  BY <1>1 DEF Answer, None

\* A setup message (AnswerSetup), by how far the setup is.
LEMMA SetupEffect ==
  ASSUME NEW c \in RadioState
  PROVE  /\ c.setup + 1 < SetupMessages =>
              /\ AnswerSetup(c).events = Append(c.events, "continue")
              /\ AnswerSetup(c).mode = c.mode /\ AnswerSetup(c).setup = c.setup + 1
         /\ c.setup + 1 = SetupMessages =>
              /\ AnswerSetup(c).events
                   = Append(Append(c.events, "response"), "started_standby")
              /\ AnswerSetup(c).mode = "standby" /\ AnswerSetup(c).setup = SetupMessages
         /\ c.setup = SetupMessages =>
              /\ AnswerSetup(c).events = Append(c.events, "response")
              /\ AnswerSetup(c).mode = c.mode /\ AnswerSetup(c).setup = SetupMessages
         /\ AnswerSetup(c).used = c.used /\ AnswerSetup(c).refused = c.refused
         /\ AnswerSetup(c).pipe = c.pipe
<1>1. c.setup \in Nat /\ SetupMessages \in Nat
  BY ConstantTypes DEF RadioState
<1>2. ASSUME NEW d, NEW mode, d = Configured(c, mode)
      PROVE  /\ d = [d EXCEPT !.events = c.events] /\ DOMAIN d = DOMAIN c
             /\ d.events = c.events /\ d.used = c.used
             /\ d.refused = c.refused /\ d.pipe = c.pipe
             /\ d.mode = mode /\ d.setup = c.setup + 1
  BY <1>2 DEF Configured, RadioState
<1>3. ASSUME NEW d, DOMAIN d = DOMAIN c, NEW event
      PROVE  /\ DOMAIN Tells(d, event) = DOMAIN c
             /\ Tells(d, event).events = Append(d.events, event)
             /\ Tells(d, event).used = d.used /\ Tells(d, event).mode = d.mode
             /\ Tells(d, event).refused = d.refused /\ Tells(d, event).pipe = d.pipe
             /\ Tells(d, event).setup = d.setup
  BY <1>3 DEF Tells, RadioState
<1>4. CASE c.setup + 1 < SetupMessages
  <2>1. AnswerSetup(c) = Tells(Configured(c, c.mode), "continue")
    BY <1>4 DEF AnswerSetup
  <2> QED
    BY <1>1, <1>2, <1>3, <1>4, <2>1
<1>5. CASE c.setup + 1 = SetupMessages
  <2>1. AnswerSetup(c) = Tells(Tells(Configured(c, "standby"), "response"), "started_standby")
    BY <1>1, <1>5 DEF AnswerSetup
  <2> QED
    BY <1>1, <1>2, <1>3, <1>5, <2>1, SMTT(30)
<1>6. CASE ~(c.setup + 1 <= SetupMessages)
  <2>1. AnswerSetup(c) = Tells(c, "response")
    BY <1>1, <1>6 DEF AnswerSetup
  <2> QED
    BY <1>1, <1>3, <1>6, <2>1
<1>7. c.setup + 1 < SetupMessages \/ c.setup + 1 = SetupMessages
        \/ ~(c.setup + 1 <= SetupMessages)
  BY <1>1
<1> QED
  BY <1>4, <1>5, <1>6, <1>7

\* No answer returns a credit; data takes one, to a free buffer of an open pipe or for good.
LEMMA AnswerCredits ==
  ASSUME NEW c \in RadioState
  PROVE  /\ Count(Answer(c).events, "credit") = Count(c.events, "credit")
         /\ Answer(c).pipe = c.pipe
         /\ c.received # "data" =>
              Answer(c).used = c.used /\ Answer(c).refused = c.refused
         /\ c.received = "data" =>
              IF c.mode = "connected" /\ c.pipe /\ c.used < ChipCredits
              THEN Answer(c).used = c.used + 1 /\ Answer(c).refused = c.refused
              ELSE Answer(c).used = c.used /\ Answer(c).refused = c.refused + 1
<1>1. /\ c.events \in Seq(Event) /\ c.setup \in 0 .. SetupMessages
      /\ {"continue", "response", "pipe_error", "started_standby"} \subseteq Event
  BY DEF RadioState, Event, Started, Quiet
<1>2. \A s \in Seq(Event), e \in Event :
        e # "credit" => Count(Append(s, e), "credit") = Count(s, "credit")
  <2> SUFFICES ASSUME NEW s \in Seq(Event), NEW e \in Event, e # "credit"
               PROVE  Count(Append(s, e), "credit") = Count(s, "credit")
    OBVIOUS
  <2>1. Count(Append(s, e), "credit") = Count(s, "credit") + One(e = "credit")
    BY CountAppend
  <2>2. Count(s, "credit") \in Nat
    BY CountPlaces
  <2> QED
    BY <2>1, <2>2 DEF One
<1>3. CASE c.received = "none" /\ Answer(c) = c
  BY <1>3
<1>4. CASE c.received = "setup" /\ Answer(c) = AnswerSetup(c)
  <2>1. \/ Answer(c).events = Append(c.events, "continue")
        \/ Answer(c).events = Append(Append(c.events, "response"), "started_standby")
        \/ Answer(c).events = Append(c.events, "response")
    BY <1>1, <1>4, SetupEffect, ConstantTypes
  <2>2. Append(c.events, "response") \in Seq(Event)
    BY <1>1
  <2>3. /\ Count(Append(c.events, "continue"), "credit") = Count(c.events, "credit")
        /\ Count(Append(c.events, "response"), "credit") = Count(c.events, "credit")
        /\ Count(Append(Append(c.events, "response"), "started_standby"), "credit")
             = Count(Append(c.events, "response"), "credit")
    BY <1>1, <1>2, <2>2
  <2>5. Count(Answer(c).events, "credit") = Count(c.events, "credit")
    BY <2>1, <2>3
  <2> QED
    BY <1>4, <2>5, SetupEffect
<1>5. CASE c.received = "connect" /\ Answer(c) = AnswerConnect(c)
  <2>1. /\ Answer(c).events = Append(c.events, "response") /\ Answer(c).used = c.used
        /\ Answer(c).refused = c.refused /\ Answer(c).pipe = c.pipe
    BY <1>5 DEF AnswerConnect, Tells, RadioState
  <2> QED
    BY <1>1, <1>2, <1>5, <2>1
<1>6. CASE c.received = "data" /\ Answer(c) = AnswerData(c)
  <2>1. CASE c.mode = "connected" /\ c.pipe /\ c.used < ChipCredits
    BY <1>6, <2>1 DEF AnswerData, RadioState
  <2>2. CASE ~(c.mode = "connected" /\ c.pipe /\ c.used < ChipCredits)
    <3>1. /\ Answer(c).events = Append(c.events, "pipe_error") /\ Answer(c).used = c.used
          /\ Answer(c).refused = c.refused + 1 /\ Answer(c).pipe = c.pipe
      BY <1>6, <2>2 DEF AnswerData, Tells, RadioState
    <3> QED
      BY <1>1, <1>2, <1>6, <2>2, <3>1
  <2> QED
    BY <2>1, <2>2
<1> QED
  BY <1>3, <1>4, <1>5, <1>6, AnswerCases

\* Once set up the radio is never started again, and leaves standby only when it is told
\* to connect; it has an error to report only for data it could not take.
LEMMA AnswerRunning ==
  ASSUME NEW c \in RadioState
  PROVE  /\ c.setup = SetupMessages =>
              /\ Answer(c).setup = SetupMessages
              /\ NoneOf(c.events, Started) => NoneOf(Answer(c).events, Started)
              /\ Answer(c).mode = IF c.received = "connect" /\ c.mode = "standby"
                                  THEN "advertising" ELSE c.mode
         /\ \A kinds \in SUBSET {"opened", "credit", "pipe_error"} :
              /\ NoneOf(c.events, kinds)
              /\ Answer(c).refused = c.refused \/ "pipe_error" \notin kinds
              => NoneOf(Answer(c).events, kinds)
<1>1. /\ c.events \in Seq(Event) /\ c.setup \in 0 .. SetupMessages
      /\ {"continue", "response", "pipe_error", "started_standby"} \subseteq Event
  BY DEF RadioState, Event, Started, Quiet
<1>2. /\ Append(c.events, "response") \in Seq(Event)
  BY <1>1
<1> DEFINE Others(kinds) ==
      NoneOf(c.events, kinds) =>
        \A e \in {"continue", "response", "pipe_error", "started_standby"} :
          e \notin kinds =>
            /\ NoneOf(Append(c.events, e), kinds)
            /\ "response" \notin kinds => NoneOf(Append(Append(c.events, "response"), e), kinds)
<1>3. \A kinds : Others(kinds)
  BY <1>1, <1>2, NoneOfSeq
<1> HIDE DEF Others
<1>4. CASE c.received = "none" /\ Answer(c) = c
  BY <1>4
<1>5. CASE c.received = "setup" /\ Answer(c) = AnswerSetup(c)
  <2>1. \/ Answer(c).events = Append(c.events, "continue")
        \/ Answer(c).events = Append(Append(c.events, "response"), "started_standby")
        \/ Answer(c).events = Append(c.events, "response")
    BY <1>1, <1>5, SetupEffect, ConstantTypes
  <2>2. \A kinds \in SUBSET {"opened", "credit", "pipe_error"} :
          NoneOf(c.events, kinds) => NoneOf(Answer(c).events, kinds)
    <3> SUFFICES ASSUME NEW kinds \in SUBSET {"opened", "credit", "pipe_error"},
                        NoneOf(c.events, kinds)
                 PROVE  NoneOf(Answer(c).events, kinds)
      OBVIOUS
    <3>1. "continue" \notin kinds /\ "response" \notin kinds /\ "started_standby" \notin kinds
      OBVIOUS
    <3> QED
      BY <1>3, <2>1, <3>1 DEF Others
  <2>3. c.setup = SetupMessages =>
          /\ Answer(c).events = Append(c.events, "response")
          /\ Answer(c).mode = c.mode /\ Answer(c).setup = SetupMessages
    BY <1>5, SetupEffect
  <2>4. NoneOf(c.events, Started) => NoneOf(Append(c.events, "response"), Started)
    BY <1>3 DEF Others, Started
  <2> QED
    BY <1>5, <2>2, <2>3, <2>4
<1>6. CASE c.received = "connect" /\ Answer(c) = AnswerConnect(c)
  <2>1. /\ Answer(c).events = Append(c.events, "response") /\ Answer(c).setup = c.setup
        /\ Answer(c).mode = IF c.mode = "standby" THEN "advertising" ELSE c.mode
    BY <1>6 DEF AnswerConnect, Tells, RadioState
  <2>2. \A kinds \in SUBSET {"opened", "credit", "pipe_error"} :
          NoneOf(c.events, kinds) => NoneOf(Append(c.events, "response"), kinds)
    BY <1>3 DEF Others
  <2>3. NoneOf(c.events, Started) => NoneOf(Append(c.events, "response"), Started)
    BY <1>3 DEF Others, Started
  <2> QED
    BY <1>6, <2>1, <2>2, <2>3
<1>7. CASE c.received = "data" /\ Answer(c) = AnswerData(c)
  <2>1. CASE c.mode = "connected" /\ c.pipe /\ c.used < ChipCredits
    <3>1. Answer(c).events = c.events /\ Answer(c).mode = c.mode /\ Answer(c).setup = c.setup
      BY <1>7, <2>1 DEF AnswerData, RadioState
    <3> QED
      BY <1>7, <3>1
  <2>2. CASE ~(c.mode = "connected" /\ c.pipe /\ c.used < ChipCredits)
    <3>1. /\ Answer(c).events = Append(c.events, "pipe_error")
          /\ Answer(c).mode = c.mode /\ Answer(c).setup = c.setup
          /\ Answer(c).refused = c.refused + 1 /\ c.refused \in Nat
      BY <1>7, <2>2 DEF AnswerData, Tells, RadioState
    <3>2. \A kinds : NoneOf(c.events, kinds) /\ "pipe_error" \notin kinds
                       => NoneOf(Append(c.events, "pipe_error"), kinds)
      BY <1>3 DEF Others
    <3> QED
      BY <1>7, <2>2, <3>1, <3>2 DEF Started
  <2> QED
    BY <2>1, <2>2
<1> QED
  BY <1>4, <1>5, <1>6, <1>7, AnswerCases

\* No command makes the radio connected: that takes a client.
LEMMA AnswerMode ==
  ASSUME NEW c \in RadioState
  PROVE  Answer(c).mode = "connected" => c.mode = "connected"
<1>1. c.setup \in 0 .. SetupMessages /\ SetupMessages \in Nat
  BY ConstantTypes DEF RadioState
<1>2. CASE c.received = "setup" /\ Answer(c) = AnswerSetup(c)
  BY <1>1, <1>2, SetupEffect
<1>3. CASE c.received = "connect" /\ Answer(c) = AnswerConnect(c)
  BY <1>3 DEF AnswerConnect, Tells, RadioState
<1>4. CASE c.received = "data" /\ Answer(c) = AnswerData(c)
  BY <1>4 DEF AnswerData, Tells, RadioState
<1> QED
  BY <1>2, <1>3, <1>4, AnswerCases

\* The exchange takes the oldest event from the radio and hands it the command.
LEMMA DeliveredEffect ==
  ASSUME TypeInv, ExchangeEnd
  PROVE  /\ Delivered \in RadioState /\ Delivered.received = out
         /\ Delivered.mode = chip.mode /\ Delivered.setup = chip.setup
         /\ Delivered.used = chip.used /\ Delivered.refused = chip.refused
         /\ Delivered.pipe = chip.pipe
         /\ Count(chip.events, "credit")
              = Count(Delivered.events, "credit") + One(in' = "credit")
         /\ \A kinds : NoneOf(chip.events, kinds) =>
              NoneOf(Delivered.events, kinds) /\ (in' \notin kinds \/ in' = "none")
<1>1. chip \in RadioState /\ chip.events \in Seq(Event)
  BY DEF TypeInv, TypeOK, RadioState
<1>2. /\ Delivered \in RadioState /\ Delivered.received = out
      /\ Delivered.mode = chip.mode /\ Delivered.setup = chip.setup
      /\ Delivered.used = chip.used /\ Delivered.refused = chip.refused
      /\ Delivered.pipe = chip.pipe
      /\ Delivered.events = IF chip.events = <<>> THEN <<>> ELSE Tail(chip.events)
  BY <1>1, ExchangeType DEF Delivered, RadioState
<1>3. in' = IF chip.events = <<>> THEN "none" ELSE Head(chip.events)
  BY DEF ExchangeEnd, None
<1>4. CASE chip.events = <<>>
  <2>1. Delivered.events = chip.events /\ in' = "none"
    BY <1>2, <1>3, <1>4
  <2>2. Count(chip.events, "credit") \in Nat
    BY <1>1, CountPlaces
  <2> QED
    BY <1>2, <2>1, <2>2 DEF One
<1>5. CASE chip.events # <<>>
  BY <1>1, <1>2, <1>3, <1>5, CountTail, NoneOfSeq
<1> QED
  BY <1>2, <1>4, <1>5

-----------------------------------------------------------------------------
(* CreditsConserved.  The semaphore is filled to the count of the radio when *)
(* the radio starts (TopUp), and that is no mistake only because nobody can  *)
(* have spent a credit by then: the setup, from the radio's first event to   *)
(* the command to connect, is a chain in which each link is the only one     *)
(* (FreshInv), it ends before a client can open a pipe (NoClient), and once  *)
(* it has ended nothing starts it again (Running).                           *)

Holding    == {"unlock", "handle", "queue", "lock", "request", "top_up"}
Exchanging == {"begin", "transfer"}
ForClient  == {"opened", "credit", "pipe_error"}

\* No connection was made yet, and the radio was not told to look for one.
Fresh == spent.drops = 0 /\ chip.mode \in {"setup", "standby"}

\* Nothing of a client is under way.
NoClient ==
  /\ ~pipeOpen /\ pc["main"] \notin {"credit", "queue"}
  /\ chip.used = 0 /\ chip.refused = 0 /\ NoneOf(queue, {"data"}) /\ out # "data"
  /\ in \notin ForClient /\ NoneOf(chip.events, ForClient)

\* The command the radio is waiting for before it connects.
Due == IF chip.mode = "setup" THEN "setup" ELSE "connect"

\* The events that make the ble task send that command.
Asks(event) ==
  \/ event = "started_setup" /\ chip.mode = "setup"
  \/ event = "continue" /\ chip.mode = "setup" /\ credits = ChipCredits
  \/ event = "started_standby" /\ chip.mode = "standby" /\ credits = ChipCredits

\* The radio has yet to hand that event over,
Announced ==
  /\ queue = <<>>
  /\ pc["ble"] \in {"wait", "receive", "lock_null", "unlock", "handle"} \cup Exchanging
  /\ pc["ble"] \in Exchanging => out = None
  /\ pc["ble"] \in {"unlock", "handle"} => in \in {None, "response"}
  /\ \E event \in Event :
       /\ Asks(event)
       /\ chip.events \in {<<event>>, <<"response", event>>}

\* or the ble task is handling it,
Handled ==
  /\ queue = <<>> /\ chip.events = <<>>
  /\ pc["ble"] \in {"unlock", "handle", "queue"} /\ Asks(in)
  /\ pc["ble"] = "queue" => cmd["ble"] = Due

\* or the command is in the queue,
Queued ==
  /\ queue = <<Due>> /\ chip.events = <<>>
  /\ \/ pc["ble"] \in {"lock", "request"} /\ Asks(in)
     \/ pc["ble"] = "top_up"
     \/ pc["ble"] \in {"wait", "receive"} /\ credits = ChipCredits

\* or on its way to the radio.
Taken ==
  /\ queue = <<>> /\ chip.events = <<>>
  /\ pc["ble"] \in Exchanging /\ out = Due /\ credits = ChipCredits

FreshInv ==
  /\ chip.mode = "setup" <=> chip.setup < SetupMessages
  /\ Announced \/ Handled \/ Queued \/ Taken

Running ==
  /\ chip.setup = SetupMessages /\ NoneOf(chip.events, Started)
  /\ pc["ble"] \in Holding => in \notin Started
  /\ pc["ble"] # "top_up"

\* Until a connection is lost no data is too much for the radio, and until the client
\* changes a pipe none is refused.
NoError ==
  /\ chip.refused = 0 =>
       pc["ble"] # "halted" /\ in # "pipe_error" /\ NoneOf(chip.events, {"pipe_error"})
  /\ chip.mode # "connected" => NoClient
  /\ ~Fresh => CreditsAccounted = ChipCredits
  /\ spent.notices = 0 => chip.refused = 0 /\ (chip.mode = "connected" => chip.pipe)

\* The inductive invariant for CreditsConserved.
CreditInv ==
  /\ TypeInv
  /\ cmd["main"] = "data" /\ cmd["ble"] # "data"
  /\ pc["ble"] = "lock_null" => out = None
  /\ CreditsAccounted <= ChipCredits
  /\ IF Fresh THEN FreshInv ELSE Running
  /\ spent.drops = 0 => NoError

\* The counts are natural numbers.
LEMMA CreditTypes ==
  ASSUME TypeInv
  PROVE  /\ credits \in Nat /\ chip.used \in Nat /\ chip.refused \in Nat
         /\ ChipCredits \in Nat /\ CreditLimit \in Nat
         /\ Count(queue, "data") \in Nat /\ Count(chip.events, "credit") \in Nat
         /\ chip \in RadioState /\ chip.events \in Seq(Event) /\ queue \in Seq(Command)
         /\ pc \in [Task -> MainPlace \cup BlePlace]
<1>1. /\ credits \in 0 .. CreditLimit /\ chip \in RadioState /\ queue \in Seq(Command)
      /\ pc \in [Task -> MainPlace \cup BlePlace]
  BY DEF TypeInv, TypeOK
<1>2. /\ chip.used \in 0 .. ChipCredits /\ chip.events \in Seq(Event)
      /\ chip.refused \in Nat
  BY <1>1 DEF RadioState
<1>3. Count(queue, "data") \in Nat /\ Count(chip.events, "credit") \in Nat
  BY <1>1, <1>2, CountPlaces
<1> QED
  BY <1>1, <1>2, <1>3, ConstantTypes

\* The credits that are neither in the semaphore nor in a sequence nor in the radio:
\* of the command the main task is about to queue, of the one the ble task is handing
\* over, and of the event it has taken but not handled.
Pledged == One(pc["main"] = "queue")
Going   == One(pc["ble"] \in Exchanging /\ out = "data")
Coming  == One(pc["ble"] \in {"unlock", "handle"} /\ in = "credit")

\* The eight places of a credit, before and after a step.
LEMMA Ledger ==
  ASSUME TypeInv, [Next]_vars
  PROVE  /\ CreditsAccounted = credits + Count(queue, "data") + chip.used + chip.refused
                              + Count(chip.events, "credit") + Pledged + Going + Coming
         /\ CreditsAccounted' = credits' + Count(queue, "data")' + chip.used' + chip.refused'
                               + Count(chip.events, "credit")' + Pledged' + Going' + Coming'
         /\ {credits, credits', chip.used, chip.used', chip.refused, chip.refused',
             Pledged, Pledged', Going, Going', Coming, Coming',
             Count(queue, "data"), Count(queue, "data")',
             Count(chip.events, "credit"), Count(chip.events, "credit")', ChipCredits,
             CreditLimit} \subseteq Nat
<1>1. /\ {Pledged, Pledged', Going, Going', Coming, Coming'} \subseteq Nat
  BY DEF Pledged, Going, Coming, One
<1>2. {credits, chip.used, chip.refused, Count(queue, "data"), Count(chip.events, "credit"),
       ChipCredits, CreditLimit} \subseteq Nat
  BY CreditTypes
<1>3. {credits', chip.used', chip.refused', Count(queue, "data")',
       Count(chip.events, "credit")'} \subseteq Nat
  <2>1. TypeInv'
    BY TypeStep
  <2>2. /\ credits' \in 0 .. CreditLimit /\ chip' \in RadioState /\ queue' \in Seq(Command)
    BY <2>1 DEF TypeInv, TypeOK
  <2>3. /\ chip'.used \in 0 .. ChipCredits /\ chip'.events \in Seq(Event)
        /\ chip'.refused \in Nat
    BY <2>2 DEF RadioState
  <2>4. Count(queue', "data") \in Nat /\ Count(chip'.events, "credit") \in Nat
    BY <2>2, <2>3, CountPlaces
  <2> QED
    BY <2>2, <2>3, <2>4, ConstantTypes
<1>4. /\ CreditsAccounted = credits + Count(queue, "data") + chip.used + chip.refused
                           + Count(chip.events, "credit") + Pledged + Going + Coming
      /\ CreditsAccounted' = credits' + Count(queue, "data")' + chip.used' + chip.refused'
                            + Count(chip.events, "credit")' + Pledged' + Going' + Coming'
  <2>1. \A a, b, c, d, e, f, g, h \in Nat : (a + b + c + d + e + f + g) + h
                                               = a + b + c + h + d + e + f + g
    OBVIOUS
  <2>2. /\ CreditsAccounted
             = (credits + Count(queue, "data") + chip.used + Count(chip.events, "credit")
                + Pledged + Going + Coming) + chip.refused
        /\ CreditsAccounted'
             = (credits' + Count(queue, "data")' + chip.used' + Count(chip.events, "credit")'
                + Pledged' + Going' + Coming') + chip.refused'
    BY Zenon DEF CreditsAccounted, CreditsAnywhere, Pledged, Going, Coming, Exchanging
  <2> QED
    BY <1>1, <1>2, <1>3, <2>1, <2>2
<1> QED
  BY <1>1, <1>2, <1>3, <1>4

\* The main task turns a credit into data in the queue.
LEMMA MainCredits ==
  ASSUME TypeInv, cmd["main"] = "data", Main
  PROVE  CreditsAccounted' = CreditsAccounted
<1> USE DEF kernel, lines, locals, world
<1>1. /\ {"idle", "credit", "queue", "flash", "flash_lock", "flash_xfer",
           "flash_unlock", "lock", "request"} \subseteq MainPlace
      /\ AfterSend("main") = "idle" /\ queue \in Seq(Command)
      /\ pc \in [Task -> MainPlace \cup BlePlace]
  BY CreditTypes DEF MainPlace, Sending, AfterSend
<1>2. UNCHANGED <<chip, out, in>> /\ pc'["ble"] = pc["ble"]
  <2>1. UNCHANGED <<chip, out, in>>
    BY DEF Main, Transmit, TakeCredit, Send, SendQueue, SendLock, SendRequest, FlashCall,
       BufferSelect, FlashLock, FlashDeselect, FlashUnlock
  <2>2. \E place \in MainPlace : Goto("main", place)
    BY <1>1 DEF Main, Transmit, TakeCredit, Send, SendQueue, SendLock, SendRequest,
       FlashCall, BufferSelect, FlashLock, FlashDeselect, FlashUnlock
  <2> QED
    BY <1>1, <2>1, <2>2, GotoMain
<1>3. UNCHANGED <<chip.used, chip.refused, Count(chip.events, "credit"), Going, Coming>>
  BY <1>2 DEF Going, Coming
<1>4. [Next]_vars
  BY DEF Next
<1>5. CASE TakeCredit
  <2>1. /\ credits' = credits - 1 /\ queue' = queue
        /\ pc["main"] = "credit" /\ pc'["main"] = "queue"
    BY <1>1, <1>5, GotoMain DEF TakeCredit
  <2>2. Pledged = 0 /\ Pledged' = 1 /\ Count(queue, "data")' = Count(queue, "data")
    BY <2>1 DEF Pledged, One
  <2> QED
    BY <1>3, <1>4, <2>1, <2>2, Ledger
<1>6. CASE SendQueue("main")
  <2>1. /\ credits' = credits /\ queue' = Append(queue, "data") /\ "data" \in Command
        /\ pc["main"] = "queue" /\ pc'["main"] = "lock"
    BY <1>1, <1>6, GotoMain DEF SendQueue, Command
  <2>2. Count(queue, "data")' = Count(queue, "data") + 1
    <3>1. Count(queue', "data") = Count(queue, "data") + One("data" = "data")
      BY <1>1, <2>1, CountAppend
    <3> QED
      BY <3>1 DEF One
  <2>3. Pledged = 1 /\ Pledged' = 0
    BY <2>1 DEF Pledged, One
  <2> QED
    BY <1>3, <1>4, <2>1, <2>2, <2>3, Ledger, SMTT(30)
<1>7. CASE \/ Transmit \/ SendLock("main") \/ SendRequest("main") \/ FlashCall
           \/ BufferSelect \/ FlashLock \/ FlashDeselect \/ FlashUnlock
  <2>1. UNCHANGED <<credits, queue>>
    BY <1>7 DEF Transmit, SendLock, SendRequest, FlashCall, BufferSelect, FlashLock,
       FlashDeselect, FlashUnlock
  <2>2. pc["main"] # "queue" /\ \E place \in MainPlace \ {"queue"} : Goto("main", place)
    BY <1>1, <1>7 DEF Transmit, SendLock, SendRequest, FlashCall, BufferSelect,
       FlashLock, FlashDeselect, FlashUnlock
  <2>3. pc'["main"] # "queue"
    BY <1>1, <2>2, GotoMain
  <2>4. Pledged' = Pledged /\ Count(queue, "data")' = Count(queue, "data")
    BY <2>1, <2>2, <2>3 DEF Pledged, One
  <2> QED
    BY <1>3, <1>4, <2>1, <2>4, Ledger
<1> QED
  BY <1>5, <1>6, <1>7 DEF Main, Send

\* The ble task carries the credits to the radio and back.
LEMMA BleCredits ==
  ASSUME TypeInv, cmd["ble"] # "data", pc["ble"] = "lock_null" => out = None,
         CreditsAccounted <= ChipCredits, Ble, ~TopUp
  PROVE  CreditsAccounted' = CreditsAccounted
<1> USE DEF kernel, lines, locals, world
<1>1. /\ queue \in Seq(Command) /\ pc \in [Task -> MainPlace \cup BlePlace]
      /\ {"wait", "receive", "lock_null", "begin", "transfer", "unlock", "handle",
          "queue", "lock", "request", "top_up", "halted"} \subseteq BlePlace
  BY CreditTypes DEF BlePlace, Sending
<1>2. [Next]_vars
  BY DEF Next
<1>3. pc'["main"] = pc["main"]
  <2>1. \E place \in BlePlace : Goto("ble", place)
    BY <1>1 DEF Ble, TakeReady, ReceiveCommand, ReceiveNothing, LockNull, ExchangeBegin,
       ExchangeEnd, Unlock, HandleSetup, HandleConnect, HandleSending, TopUp, HandleCredit,
       GiveCredits, HandlePipes, HandleQuiet, HandleUnknown, Send, SendQueue, SendLock,
       SendRequest, AfterSend
  <2> QED
    BY <1>1, <2>1, GotoBle
<1>4. Pledged' = Pledged
  BY <1>3 DEF Pledged
<1>5. CASE ReceiveCommand
  <2>1. /\ queue # <<>> /\ queue' = Tail(queue) /\ out' = Head(queue)
        /\ pc["ble"] = "receive" /\ pc'["ble"] = "begin" /\ UNCHANGED <<credits, chip, in>>
    BY <1>1, <1>5, GotoBle DEF ReceiveCommand
  <2>2. Count(queue, "data") = Count(queue, "data")' + One(out' = "data")
    BY <1>1, <2>1, CountTail
  <2>3. Going = 0 /\ Going' = One(out' = "data") /\ Coming = 0 /\ Coming' = 0
    BY <2>1 DEF Going, Coming, One, Exchanging
  <2>4. /\ UNCHANGED <<chip.used, chip.refused, Count(chip.events, "credit")>>
        /\ Count(queue, "data") = Count(queue, "data")' + Going'
    BY <2>1, <2>2, <2>3
  <2>5. UNCHANGED credits /\ Going = 0 /\ Coming = 0 /\ Coming' = 0
    BY <2>1, <2>3
  <2> QED
    BY <1>2, <1>4, <2>4, <2>5, Ledger
<1>6. CASE ExchangeEnd
  <2>1. /\ pc["ble"] = "transfer" /\ pc'["ble"] = "unlock"
        /\ UNCHANGED <<credits, queue, out>> /\ chip' = Answer(Delivered)
    BY <1>1, <1>6, GotoBle DEF ExchangeEnd
  <2>2. /\ Count(chip.events, "credit")' = Count(Delivered.events, "credit")
        /\ out = "data"  => chip.used' + chip.refused' = chip.used + chip.refused + 1
        /\ out # "data" => chip.used' = chip.used /\ chip.refused' = chip.refused
    <3>1. /\ Delivered \in RadioState /\ Delivered.received = out
          /\ Delivered.used = chip.used /\ Delivered.refused = chip.refused
      BY <1>6, DeliveredEffect
    <3>2. chip.used \in Nat /\ chip.refused \in Nat
      BY CreditTypes
    <3> QED
      BY <2>1, <3>1, <3>2, AnswerCredits
  <2>3. /\ Going = One(out = "data") /\ Going' = 0
        /\ Coming = 0 /\ Coming' = One(in' = "credit")
    BY <2>1 DEF Going, Coming, One, Exchanging
  <2>4. /\ Count(chip.events, "credit") = Count(Delivered.events, "credit") + Coming'
    BY <1>6, <2>3, DeliveredEffect
  <2>5. Count(queue, "data")' = Count(queue, "data")
    BY <2>1
  <2>6. CASE out = "data"
    <3>1. Going = 1
      BY <2>3, <2>6 DEF One
    <3> QED
      BY <1>2, <1>4, <2>1, <2>2, <2>3, <2>4, <2>5, <2>6, <3>1, Ledger
  <2>7. CASE out # "data"
    <3>1. Going = 0 /\ chip.used' = chip.used /\ chip.refused' = chip.refused
      BY <2>2, <2>3, <2>7 DEF One
    <3> QED
      BY <1>2, <1>4, <2>1, <2>2, <2>3, <2>4, <2>5, <3>1, Ledger
  <2> QED
    BY <2>6, <2>7
<1>7. CASE HandleCredit
  <2>1. pc["ble"] = "handle" /\ in = "credit" /\ UNCHANGED <<queue, chip, out, in>>
    BY <1>7 DEF HandleCredit, Handles
  <2>2. Coming = 1 /\ Going = 0
    BY <2>1 DEF Coming, Going, One, Exchanging
  <2>3. credits + 1 <= CreditLimit
    BY <1>2, <2>2, Ledger, LinkAssumption
  <2>4. credits' = credits + 1 /\ pc'["ble"] = "wait"
    BY <1>1, <1>7, <2>3, GotoBle DEF HandleCredit, GiveCredits
  <2>5. /\ Coming' = 0 /\ Going' = 0
        /\ UNCHANGED <<Count(queue, "data"), chip.used, chip.refused,
                   Count(chip.events, "credit")>>
    BY <2>1, <2>4 DEF Coming, Going, One, Exchanging
  <2> QED
    BY <1>2, <1>4, <2>2, <2>4, <2>5, Ledger
<1>8. CASE SendQueue("ble")
  <2>1. /\ pc["ble"] = "queue" /\ pc'["ble"] = "lock" /\ UNCHANGED <<credits, chip>>
        /\ queue' = Append(queue, cmd["ble"]) /\ cmd["ble"] \in Command
    BY <1>1, <1>8, GotoBle DEF SendQueue, TypeInv, TypeOK, Task
  <2>2. Count(queue, "data")' = Count(queue, "data")
    <3>1. Count(queue', "data") = Count(queue, "data") + One(cmd["ble"] = "data")
      BY <1>1, <2>1, CountAppend
    <3>2. Count(queue, "data") \in Nat
      BY <1>1, CountPlaces
    <3> QED
      BY <3>1, <3>2 DEF One
  <2>3. /\ Going = 0 /\ Going' = 0 /\ Coming = 0 /\ Coming' = 0
        /\ UNCHANGED <<chip.used, chip.refused, Count(chip.events, "credit")>>
    BY <2>1 DEF Coming, Going, One, Exchanging
  <2> QED
    BY <1>2, <1>4, <2>1, <2>2, <2>3, Ledger
<1>9. CASE ReceiveNothing \/ LockNull \/ ExchangeBegin \/ Unlock
  <2>1. UNCHANGED <<credits, queue, chip, in>>
    BY <1>9 DEF ReceiveNothing, LockNull, ExchangeBegin, Unlock
  <2>2. Going' = Going /\ Coming' = Coming
    <3>1. CASE ReceiveNothing
      BY <1>1, <3>1, GotoBle DEF ReceiveNothing, Going, Coming, One, Exchanging
    <3>2. CASE LockNull
      BY <1>1, <3>2, GotoBle DEF LockNull, Going, Coming, One, Exchanging, None
    <3>3. CASE ExchangeBegin
      BY <1>1, <3>3, GotoBle DEF ExchangeBegin, Going, Coming, One, Exchanging
    <3>4. CASE Unlock
      BY <1>1, <3>4, GotoBle DEF Unlock, Going, Coming, One, Exchanging, None
    <3> QED
      BY <1>9, <3>1, <3>2, <3>3, <3>4
  <2>3. UNCHANGED <<Count(queue, "data"), chip.used, chip.refused,
                   Count(chip.events, "credit")>>
    BY <2>1
  <2> QED
    BY <1>2, <1>4, <2>1, <2>2, <2>3, Ledger
<1>10. CASE \/ TakeReady \/ HandleSetup \/ HandleConnect \/ HandlePipes \/ HandleQuiet
            \/ HandleUnknown \/ SendLock("ble") \/ SendRequest("ble")
  <2>1. UNCHANGED <<credits, queue, chip, out, in>>
    BY <1>10 DEF TakeReady, HandleSetup, HandleConnect, HandleSending, HandlePipes,
       HandleQuiet, HandleUnknown, SendLock, SendRequest
  <2>2. /\ pc["ble"] \notin Exchanging
        /\ ~(pc["ble"] \in {"unlock", "handle"} /\ in = "credit")
    BY <1>10 DEF TakeReady, HandleSetup, HandleConnect, HandleSending, Handles,
       HandlePipes, HandleQuiet, HandleUnknown, SendLock, SendRequest, Exchanging,
       Started, Quiet
  <2>3. \E place \in BlePlace \ (Exchanging \cup {"unlock", "handle"}) : Goto("ble", place)
    BY <1>1, <1>10 DEF TakeReady, HandleSetup, HandleConnect, HandleSending, Handles,
       HandlePipes, HandleQuiet, HandleUnknown, SendLock, SendRequest, Exchanging, AfterSend
  <2>4. pc'["ble"] \notin Exchanging \cup {"unlock", "handle"}
    BY <1>1, <2>3, GotoBle
  <2>5. /\ Going' = Going /\ Coming' = Coming
        /\ UNCHANGED <<Count(queue, "data"), chip.used, chip.refused,
                   Count(chip.events, "credit")>>
    BY <2>1, <2>2, <2>4 DEF Going, Coming, One
  <2> QED
    BY <1>2, <1>4, <2>1, <2>5, Ledger
<1> QED
  BY <1>5, <1>6, <1>7, <1>8, <1>9, <1>10 DEF Ble, Send

\* What the radio does on its own.
LEMMA RadioEffect ==
  ASSUME TypeInv, Radio
  PROVE  /\ UNCHANGED <<pc, queue, credits, cmd, out, in, pipeOpen>>
         /\ chip'.setup = chip.setup /\ chip'.refused = chip.refused
         /\ \/ /\ chip'.events = chip.events /\ chip'.mode = chip.mode
               /\ chip'.pipe = chip.pipe
               /\ chip'.used = chip.used /\ spent' = spent
            \/ /\ chip.mode = "advertising" /\ chip'.mode = "connected"
               /\ chip'.events = Append(Append(chip.events, "connected"), "opened")
               /\ chip'.pipe /\ chip'.used = chip.used /\ spent' = spent
            \/ /\ chip.used > 0 /\ chip'.mode = chip.mode
               /\ chip'.events = Append(chip.events, "credit") /\ chip'.pipe = chip.pipe
               /\ chip'.used = chip.used - 1 /\ spent' = spent
            \/ /\ chip.mode = "connected" /\ chip'.mode = "connected"
               /\ \E event \in {"data_received", "closed", "opened"} :
                    chip'.events = Append(chip.events, event)
               /\ chip'.used = chip.used /\ spent'.drops = spent.drops
               /\ spent'.notices = spent.notices + 1
            \/ /\ chip.mode = "connected" /\ chip'.mode = "standby"
               /\ chip'.events = Append(chip.events, "disconnected")
               /\ chip'.used = 0 /\ spent'.drops = spent.drops + 1
<1> USE DEF kernel, locals, RadioBecomes, Tells
<1>1. chip \in RadioState /\ spent \in Bounds
  BY DEF TypeInv, TypeOK
<1>2. CASE RadioReady
  BY <1>1, <1>2 DEF RadioReady, RadioState
<1>3. CASE RadioConnects
  BY <1>1, <1>3 DEF RadioConnects, RadioState
<1>4. CASE RadioSends
  BY <1>1, <1>4 DEF RadioSends, RadioState
<1>5. CASE RadioNotices
  <2>1. \E event \in {"data_received", "closed", "opened"} :
          chip'.events = Append(chip.events, event)
    BY <1>1, <1>5 DEF RadioNotices, RadioState
  <2>2. /\ chip'.mode = chip.mode /\ chip'.used = chip.used /\ chip'.setup = chip.setup
        /\ chip'.refused = chip.refused
    BY <1>1, <1>5 DEF RadioNotices, RadioState
  <2>3. spent'.drops = spent.drops /\ spent'.notices = spent.notices + 1
    BY <1>1, <1>5 DEF RadioNotices, Bounds
  <2> QED
    BY <1>5, <2>1, <2>2, <2>3 DEF RadioNotices
<1>6. CASE RadioDrops
  BY <1>1, <1>6 DEF RadioDrops, RadioState, Bounds
<1> QED
  BY <1>2, <1>3, <1>4, <1>5, <1>6 DEF Radio

\* The radio gives the credit back when it has sent the data; what a lost connection
\* leaves unsent is lost with it.
LEMMA RadioCredits ==
  ASSUME TypeInv, Radio
  PROVE  /\ CreditsAccounted' <= CreditsAccounted
         /\ spent'.drops = spent.drops => CreditsAccounted' = CreditsAccounted
<1>1. chip.events \in Seq(Event)
  BY CreditTypes
<1>2. /\ {"connected", "opened", "credit", "data_received", "closed", "disconnected"}
           \subseteq Event
      /\ spent.drops \in Nat
  BY ConstantTypes DEF Event, Quiet, TypeInv, TypeOK, Bounds
<1>3. [Next]_vars
  BY DEF Next
<1>4. UNCHANGED <<credits, chip.refused, Pledged, Going, Coming, Count(queue, "data")>>
  BY RadioEffect DEF Pledged, Going, Coming
<1>5. /\ \A s \in Seq(Event), e \in Event :
           /\ Append(s, e) \in Seq(Event)
           /\ e # "credit" => Count(Append(s, e), "credit") = Count(s, "credit")
      /\ Count(Append(chip.events, "credit"), "credit") = Count(chip.events, "credit") + 1
  <2>1. ASSUME NEW s \in Seq(Event), NEW e \in Event
        PROVE  /\ Append(s, e) \in Seq(Event)
               /\ e # "credit" => Count(Append(s, e), "credit") = Count(s, "credit")
               /\ e = "credit" => Count(Append(s, e), "credit") = Count(s, "credit") + 1
    <3>1. Count(Append(s, e), "credit") = Count(s, "credit") + One(e = "credit")
      BY CountAppend
    <3>2. Count(s, "credit") \in Nat
      BY CountPlaces
    <3> QED
      BY <3>1, <3>2 DEF One
  <2> QED
    BY <1>1, <1>2, <2>1
<1>6. CASE chip'.events = chip.events /\ chip'.used = chip.used
  <2>1. UNCHANGED <<chip.used, Count(chip.events, "credit")>>
    BY <1>6
  <2> QED
    BY <1>3, <1>4, <2>1, Ledger
<1>7. CASE /\ chip'.events = Append(Append(chip.events, "connected"), "opened")
           /\ chip'.used = chip.used
  <2>1. "connected" \in Event /\ "opened" \in Event
    BY <1>2
  <2>2. /\ Append(chip.events, "connected") \in Seq(Event)
        /\ Count(Append(chip.events, "connected"), "credit") = Count(chip.events, "credit")
    BY <1>1, <1>5, <2>1
  <2>3. Count(Append(Append(chip.events, "connected"), "opened"), "credit")
          = Count(Append(chip.events, "connected"), "credit")
    BY <1>5, <2>1, <2>2
  <2>4. UNCHANGED <<chip.used, Count(chip.events, "credit")>>
    BY <1>7, <2>2, <2>3
  <2> QED
    BY <1>3, <1>4, <2>4, Ledger
<1>8. CASE chip'.events = Append(chip.events, "credit") /\ chip'.used = chip.used - 1
  <2>1. /\ Count(chip.events, "credit")' = Count(chip.events, "credit") + 1
        /\ chip.used' = chip.used - 1
    BY <1>5, <1>8
  <2> QED
    BY <1>3, <1>4, <2>1, Ledger
<1>9. CASE /\ \E event \in {"data_received", "closed", "opened"} :
                chip'.events = Append(chip.events, event)
           /\ chip'.used = chip.used
  <2>1. UNCHANGED <<chip.used, Count(chip.events, "credit")>>
    BY <1>1, <1>2, <1>5, <1>9
  <2> QED
    BY <1>3, <1>4, <2>1, Ledger
<1>10. CASE /\ chip'.events = Append(chip.events, "disconnected")
            /\ chip'.used = 0 /\ spent'.drops = spent.drops + 1
  <2>1. Count(chip.events, "credit")' = Count(chip.events, "credit") /\ chip.used' = 0
    BY <1>1, <1>2, <1>5, <1>10
  <2>2. spent'.drops # spent.drops
    BY <1>2, <1>10
  <2> QED
    BY <1>3, <1>4, <2>1, <2>2, Ledger
<1> QED
  BY <1>6, <1>7, <1>8, <1>9, <1>10, RadioEffect

\* Without a client all credits are in the semaphore.
LEMMA AllInSemaphore ==
  ASSUME TypeInv, NoClient
  PROVE  CreditsAccounted = credits
<1>1. Count(queue, "data") = 0 /\ Count(chip.events, "credit") = 0
  <2>1. queue \in Seq(Command) /\ chip.events \in Seq(Event)
    BY CreditTypes
  <2> QED
    BY <2>1, CountNone DEF NoClient, NoneOf, ForClient
<1>2. Pledged = 0 /\ Going = 0 /\ Coming = 0
  BY DEF Pledged, Going, Coming, One, NoClient, ForClient
<1>4. credits \in Nat
  BY CreditTypes
<1>5. CreditsAccounted = (credits + Count(queue, "data") + chip.used
                         + Count(chip.events, "credit") + Pledged + Going + Coming)
                         + chip.refused
  BY Zenon DEF CreditsAccounted, CreditsAnywhere, Pledged, Going, Coming, Exchanging
<1> QED
  BY <1>1, <1>2, <1>4, <1>5 DEF NoClient

\* Before the first connection the main task does nothing to the radio, and the radio
\* nothing of its own: the chain of the setup is where the ble task has it.
LEMMA FreshOthers ==
  ASSUME CreditInv, Fresh, Main \/ Radio
  PROVE  Fresh' /\ FreshInv'
<1> USE DEF kernel, lines, locals, world
<1>1. TypeInv /\ NoClient /\ FreshInv /\ chip.mode \in {"setup", "standby"} /\ spent.drops = 0
  BY DEF CreditInv, NoError, Fresh
<1>2. /\ UNCHANGED <<queue, credits, out, in, cmd["ble"], pc["ble"], chip.mode, chip.events,
                     chip.setup>>
      /\ spent'.drops = 0
  <2>1. CASE Main
    <3>1. ~Transmit /\ ~TakeCredit /\ ~SendQueue("main")
      BY <1>1 DEF NoClient, Transmit, TakeCredit, SendQueue
    <3>2. UNCHANGED <<queue, credits, out, in, cmd, chip>>
      BY <2>1, <3>1 DEF Main, Send, SendLock, SendRequest, FlashCall, BufferSelect,
         FlashLock, FlashDeselect, FlashUnlock
    <3>3. spent'.drops = spent.drops
      BY <1>1, <2>1, <3>1 DEF Main, Send, SendLock, SendRequest, FlashCall, BufferSelect,
         FlashLock, FlashDeselect, FlashUnlock, TypeInv, TypeOK, Bounds
    <3>4. pc'["ble"] = pc["ble"]
      <4>1. \E place \in MainPlace : Goto("main", place)
        BY <2>1, <3>1 DEF Main, Send, SendLock, SendRequest, FlashCall, BufferSelect,
           FlashLock, FlashDeselect, FlashUnlock, AfterSend, MainPlace, Sending
      <4> QED
        BY <1>1, <4>1, GotoMain DEF TypeInv, TypeOK
    <3> QED
      BY <1>1, <3>2, <3>3, <3>4
  <2>2. CASE Radio
    <3>1. chip.used = 0
      BY <1>1 DEF NoClient
    <3> QED
      BY <1>1, <2>2, <3>1, RadioEffect
  <2> QED
    BY <2>1, <2>2
<1>3. Asks(in)' <=> Asks(in)
  BY <1>2 DEF Asks
<1>4. \A event \in Event : Asks(event)' <=> Asks(event)
  BY <1>2 DEF Asks
<1> QED
  BY <1>1, <1>2, <1>3, <1>4 DEF Fresh, FreshInv, Announced, Handled, Queued, Taken, Due

\* Two events, one told after the other.
LEMMA TwoEvents ==
  ASSUME NEW a \in Event, NEW b \in Event
  PROVE  Append(<<a>>, b) = <<a, b>>
<1> DEFINE one == <<a>>
           two == <<a, b>>
<1>1. one \in Seq(Event) /\ Len(one) = 1 /\ one[1] = a
  OBVIOUS
<1>2. two \in Seq(Event) /\ Len(two) = 2 /\ two[1] = a /\ two[2] = b
  OBVIOUS
<1>3. Append(one, b) = two
  <2> HIDE DEF one, two
  <2>1. /\ Append(one, b) \in Seq(Event) /\ Len(Append(one, b)) = 2
        /\ Append(one, b)[1] = a /\ Append(one, b)[2] = b
    <3>1. /\ Append(one, b) \in Seq(Event) /\ Len(Append(one, b)) = Len(one) + 1
          /\ \A i \in 1 .. Len(one) : Append(one, b)[i] = one[i]
          /\ Append(one, b)[Len(one) + 1] = b
      <4>1. one \in Seq(Event)
        BY <1>1
      <4> QED
        BY <4>1
    <3>2. Len(one) + 1 = 2 /\ 1 \in 1 .. Len(one)
      BY <1>1
    <3> QED
      BY <1>1, <3>1, <3>2
  <2>2. \A i \in 1 .. Len(two) : Append(one, b)[i] = two[i]
    BY <1>2, <2>1
  <2> QED
    BY <1>2, <2>1, <2>2, SeqEqual
<1> QED
  BY <1>3

\* The exchange moves the chain on: from an event to the handling of it, and from a
\* command to the next event or, after the command to connect, to its end.
LEMMA FreshExchange ==
  ASSUME CreditInv, Fresh, ExchangeEnd
  PROVE  IF Fresh' THEN FreshInv' ELSE Running' /\ credits = ChipCredits
<1> USE DEF kernel, lines, locals, world
<1>1. /\ TypeInv /\ FreshInv /\ chip.mode \in {"setup", "standby"} /\ spent.drops = 0
      /\ chip \in RadioState /\ chip.events \in Seq(Event) /\ chip.setup \in 0 .. SetupMessages
      /\ SetupMessages \in Nat /\ pc \in [Task -> MainPlace \cup BlePlace]
      /\ "unlock" \in BlePlace
  BY ConstantTypes DEF CreditInv, Fresh, TypeInv, TypeOK, RadioState, BlePlace
<1>2. /\ pc["ble"] = "transfer" /\ pc'["ble"] = "unlock"
      /\ UNCHANGED <<queue, credits, out, cmd, spent>> /\ chip' = Answer(Delivered)
      /\ in' = IF chip.events = <<>> THEN None ELSE Head(chip.events)
  BY <1>1, GotoBle DEF ExchangeEnd
<1>3. /\ Delivered \in RadioState /\ Delivered.received = out
      /\ Delivered.mode = chip.mode /\ Delivered.setup = chip.setup
      /\ Delivered.events = IF chip.events = <<>> THEN <<>> ELSE Tail(chip.events)
  <2>1. Delivered.events = IF chip.events = <<>> THEN <<>> ELSE Tail(chip.events)
    BY <1>1 DEF Delivered, RadioState
  <2> QED
    BY <1>1, <2>1, DeliveredEffect
<1>4. CASE Announced
  <2>1. out = "none"
    BY <1>2, <1>4 DEF Announced, Exchanging, None
  <2>2. chip' = Delivered
    BY <1>2, <1>3, <2>1, AnswerCases
  <2>3. /\ chip'.mode = chip.mode /\ chip'.setup = chip.setup
        /\ chip'.events = Tail(chip.events) /\ in' = Head(chip.events)
    BY <1>2, <1>3, <1>4, <2>2 DEF Announced
  <2>4. PICK event \in Event :
          Asks(event) /\ chip.events \in {<<event>>, <<"response", event>>}
    BY <1>4 DEF Announced
  <2>5. queue' = <<>> /\ Asks(event)'
    BY <1>2, <1>4, <2>3, <2>4 DEF Announced, Asks
  <2>6. CASE chip.events = <<event>>
    <3>1. in' = event /\ chip'.events = <<>>
      BY <2>3, <2>6
    <3>2. Handled'
      BY <1>2, <2>3, <2>5, <3>1 DEF Handled, Asks
    <3> QED
      BY <1>1, <1>2, <2>3, <3>2 DEF Fresh, FreshInv
  <2>7. CASE chip.events = <<"response", event>>
    <3>1. in' = "response" /\ chip'.events = <<event>>
      BY <2>3, <2>7
    <3>2. Announced'
      BY <1>2, <2>4, <2>5, <3>1 DEF Announced, Exchanging
    <3> QED
      BY <1>1, <1>2, <2>3, <3>2 DEF Fresh, FreshInv
  <2> QED
    BY <2>4, <2>6, <2>7
<1>5. CASE Taken
  <2>1. /\ queue' = <<>> /\ Delivered.events = <<>> /\ in' = "none"
        /\ out = Due /\ credits = ChipCredits
    BY <1>2, <1>3, <1>5 DEF Taken, None
  <2>2. CASE chip.mode = "setup"
    <3>1. out = "setup" /\ chip' = AnswerSetup(Delivered) /\ chip.setup < SetupMessages
      BY <1>1, <1>2, <1>3, <2>1, <2>2, AnswerCases DEF Due, FreshInv
    <3>2. CASE chip.setup + 1 < SetupMessages
      <4>1. /\ chip'.events = Append(<<>>, "continue") /\ chip'.mode = "setup"
            /\ chip'.setup = chip.setup + 1
        BY <1>3, <2>1, <2>2, <3>1, <3>2, SetupEffect
      <4>2. chip'.events = <<"continue">> /\ "continue" \in Event /\ Asks("continue")'
        BY <1>2, <2>1, <4>1 DEF Event, Asks
      <4>3. Announced'
        BY <1>2, <2>1, <4>2 DEF Announced, Exchanging, None
      <4> QED
        BY <1>1, <1>2, <3>2, <4>1, <4>3 DEF Fresh, FreshInv
    <3>3. CASE chip.setup + 1 = SetupMessages
      <4>1. /\ chip'.events = Append(Append(<<>>, "response"), "started_standby")
            /\ chip'.mode = "standby" /\ chip'.setup = SetupMessages
        BY <1>3, <2>1, <3>1, <3>3, SetupEffect
      <4>2. /\ chip'.events = <<"response", "started_standby">>
            /\ "started_standby" \in Event /\ Asks("started_standby")'
        <5>1. Append(Append(<<>>, "response"), "started_standby")
                = <<"response", "started_standby">>
          <6>1. Append(<<>>, "response") = <<"response">>
            OBVIOUS
          <6>2. "response" \in Event /\ "started_standby" \in Event
            BY DEF Event, Quiet, Started
          <6> QED
            BY <6>1, <6>2, TwoEvents
        <5>2. Asks("started_standby")' /\ "started_standby" \in Event
          BY <1>2, <2>1, <4>1 DEF Event, Started, Asks
        <5> QED
          BY <4>1, <5>1, <5>2
      <4>3. Announced'
        BY <1>2, <2>1, <4>2 DEF Announced, Exchanging, None
      <4> QED
        BY <1>1, <1>2, <4>1, <4>3 DEF Fresh, FreshInv
    <3> QED
      BY <1>1, <3>1, <3>2, <3>3
  <2>3. CASE chip.mode = "standby"
    <3>1. out = "connect" /\ chip.setup = SetupMessages
      BY <1>1, <2>1, <2>3 DEF Due, FreshInv
    <3>2. NoneOf(Delivered.events, Started)
      BY <2>1 DEF NoneOf
    <3>3. chip'.mode = "advertising" /\ chip'.setup = SetupMessages
          /\ NoneOf(chip'.events, Started)
      BY <1>2, <1>3, <2>3, <3>1, <3>2, AnswerRunning
    <3> QED
      BY <1>2, <2>1, <3>3 DEF Fresh, Running, Started
  <2> QED
    BY <1>1, <2>2, <2>3
<1>6. ~Handled /\ ~Queued
  BY <1>2 DEF Handled, Queued
<1> QED
  BY <1>1, <1>4, <1>5, <1>6 DEF FreshInv

\* The other steps of the ble task before the first connection.
LEMMA FreshBle ==
  ASSUME CreditInv, Fresh, Ble, ~ExchangeEnd
  PROVE  /\ Fresh' /\ FreshInv' /\ pc'["ble"] # "halted"
         /\ TopUp => credits' = ChipCredits
<1> USE DEF kernel, lines, locals, world
<1>1. /\ TypeInv /\ NoClient /\ FreshInv /\ chip.mode \in {"setup", "standby"}
      /\ pc \in [Task -> MainPlace \cup BlePlace] /\ queue \in Seq(Command)
      /\ {"wait", "receive", "lock_null", "begin", "transfer", "unlock", "handle",
          "queue", "lock", "request", "top_up", "halted"} \subseteq BlePlace
      /\ pc["ble"] = "lock_null" => out = None
      /\ credits \in Nat /\ ChipCredits \in Nat /\ CreditLimit \in Nat
  BY CreditTypes DEF CreditInv, NoError, Fresh, BlePlace, Sending
<1>2. UNCHANGED <<chip, spent>>
  BY DEF Ble, TakeReady, ReceiveCommand, ReceiveNothing, LockNull, ExchangeBegin,
     Unlock, HandleSetup, HandleConnect, HandleSending, TopUp, HandleCredit,
     HandlePipes, HandleQuiet, HandleUnknown, Send, SendQueue, SendLock, SendRequest
<1>3. Fresh' /\ Due' = Due
  BY <1>2 DEF Fresh, Due
<1>4. SUFFICES /\ Announced' \/ Handled' \/ Queued' \/ Taken'
               /\ pc'["ble"] # "halted"
               /\ TopUp => credits' = ChipCredits
  BY <1>1, <1>2, <1>3 DEF FreshInv
<1>5. ASSUME credits' = credits
      PROVE  \A event : Asks(event)' <=> Asks(event)
  BY <1>2, <1>5 DEF Asks
<1>6. \A event : Asks(event) => event \in {"started_setup", "continue", "started_standby"}
  BY DEF Asks
<1>7. CASE TakeReady
  <2>1. pc["ble"] = "wait" /\ pc'["ble"] = "receive" /\ UNCHANGED <<credits, queue, out, in>>
    BY <1>1, <1>7, GotoBle DEF TakeReady
  <2>2. Announced => Announced'
    BY <1>2, <1>5, <2>1 DEF Announced, Exchanging
  <2>3. Queued => Queued'
    BY <1>2, <1>3, <2>1 DEF Queued
  <2> QED
    BY <1>1, <1>7, <2>1, <2>2, <2>3 DEF FreshInv, Handled, Taken, Exchanging, TopUp
<1>8. CASE ReceiveCommand
  <2>1. /\ pc["ble"] = "receive" /\ pc'["ble"] = "begin" /\ queue # <<>>
        /\ UNCHANGED <<credits, in>> /\ queue' = Tail(queue) /\ out' = Head(queue)
    BY <1>1, <1>8, GotoBle DEF ReceiveCommand
  <2>2. Queued
    BY <1>1, <2>1 DEF FreshInv, Announced, Handled, Taken
  <2>3. queue' = <<>> /\ out' = Due /\ credits = ChipCredits /\ chip'.events = <<>>
    BY <1>2, <2>1, <2>2 DEF Queued
  <2> QED
    BY <1>3, <1>8, <2>1, <2>3 DEF Taken, Exchanging, TopUp
<1>9. CASE ReceiveNothing \/ LockNull \/ ExchangeBegin
  <2>1. CASE Taken
    <3>1. ExchangeBegin
      BY <1>9, <2>1 DEF ReceiveNothing, LockNull, Taken, Exchanging
    <3>2. /\ pc["ble"] = "begin" /\ pc'["ble"] = "transfer"
          /\ UNCHANGED <<credits, queue, out, in>>
      BY <1>1, <3>1, GotoBle DEF ExchangeBegin
    <3> QED
      BY <1>2, <1>3, <2>1, <3>2 DEF Taken, Exchanging, TopUp
  <2>2. CASE Announced
    <3>1. /\ pc["ble"] \in {"receive", "lock_null", "begin"}
          /\ pc'["ble"] \in {"lock_null", "begin", "transfer"}
          /\ pc'["ble"] \in {"begin", "transfer"} => out' = None
          /\ UNCHANGED <<credits, queue>>
      <4>1. CASE ReceiveNothing
        BY <1>1, <4>1, GotoBle DEF ReceiveNothing
      <4>2. CASE LockNull
        BY <1>1, <4>2, GotoBle DEF LockNull
      <4>3. CASE ExchangeBegin
        BY <1>1, <2>2, <4>3, GotoBle DEF ExchangeBegin, Announced, Exchanging
      <4> QED
        BY <1>9, <4>1, <4>2, <4>3
    <3>2. Announced'
      BY <1>2, <1>5, <2>2, <3>1 DEF Announced, Exchanging
    <3> QED
      BY <3>1, <3>2 DEF TopUp
  <2>3. ~Handled /\ ~Queued
    <3>1. pc["ble"] \in {"lock_null", "begin"} \/ (pc["ble"] = "receive" /\ queue = <<>>)
      BY <1>9 DEF ReceiveNothing, LockNull, ExchangeBegin
    <3> QED
      BY <3>1 DEF Handled, Queued
  <2> QED
    BY <1>1, <2>1, <2>2, <2>3 DEF FreshInv
<1>10. CASE Unlock
  <2>1. /\ pc["ble"] = "unlock" /\ pc'["ble"] = IF in = None THEN "wait" ELSE "handle"
        /\ UNCHANGED <<credits, queue, out, in>>
    BY <1>1, <1>10, GotoBle DEF Unlock
  <2>2. Announced => Announced'
    BY <1>2, <1>5, <2>1 DEF Announced, Exchanging
  <2>3. Handled => Handled'
    BY <1>2, <1>3, <1>5, <1>6, <2>1 DEF Handled, None
  <2> QED
    BY <1>1, <2>1, <2>2, <2>3 DEF FreshInv, Queued, Taken, Exchanging, TopUp
<1>11. CASE HandleSetup \/ HandleConnect
  <2>1. /\ pc["ble"] = "handle" /\ pc'["ble"] = "queue"
        /\ UNCHANGED <<credits, queue, out, in>>
        /\ \/ in \in {"started_setup", "continue"} /\ cmd'["ble"] = "setup"
           \/ in \in {"started_standby", "disconnected"} /\ cmd'["ble"] = "connect"
    BY <1>1, <1>11, GotoBle DEF HandleSetup, HandleConnect, HandleSending, Handles, TypeInv,
       TypeOK, Task
  <2>2. Handled
    BY <1>1, <2>1 DEF FreshInv, Announced, Queued, Taken, Exchanging, None
  <2>3. cmd'["ble"] = Due
    BY <2>1, <2>2 DEF Handled, Asks, Due
  <2>4. Handled'
    BY <1>2, <1>3, <1>5, <2>1, <2>2, <2>3 DEF Handled
  <2> QED
    BY <2>1, <2>4 DEF TopUp
<1>12. CASE TopUp
  <2>1. pc["ble"] = "top_up" /\ UNCHANGED <<queue, out, in>>
    BY <1>12 DEF TopUp
  <2>2. credits <= ChipCredits
    BY <1>1, AllInSemaphore DEF CreditInv
  <2>3. credits + Missing = ChipCredits
    BY <1>1, <2>2 DEF Missing
  <2>4. credits' = ChipCredits /\ pc'["ble"] = "wait"
    BY <1>1, <1>12, <2>3, GotoBle, LinkAssumption DEF TopUp, GiveCredits
  <2>5. Queued
    BY <1>1, <2>1 DEF FreshInv, Announced, Handled, Taken, Exchanging
  <2>6. Queued'
    BY <1>2, <1>3, <2>1, <2>4, <2>5 DEF Queued
  <2> QED
    BY <2>4, <2>6
<1>13. CASE HandleCredit \/ HandlePipes \/ HandleUnknown
  <2>1. pc["ble"] = "handle" /\ in \in {"credit", "opened", "closed", "pipe_error"}
    BY <1>13 DEF HandleCredit, HandlePipes, HandleUnknown, Handles
  <2> QED
    BY <1>1, <1>6, <2>1 DEF FreshInv, Announced, Handled, Queued, Taken, Exchanging, None
<1>14. CASE HandleQuiet
  <2>1. /\ pc["ble"] = "handle" /\ pc'["ble"] = "wait" /\ in \in Quiet
        /\ UNCHANGED <<credits, queue, out, in>>
    BY <1>1, <1>14, GotoBle DEF HandleQuiet, Handles
  <2>2. Announced
    BY <1>1, <1>6, <2>1 DEF FreshInv, Handled, Queued, Taken, Exchanging, Quiet
  <2>3. Announced'
    BY <1>2, <1>5, <2>1, <2>2 DEF Announced, Exchanging
  <2> QED
    BY <2>1, <2>3 DEF TopUp
<1>15. CASE SendQueue("ble")
  <2>1. /\ pc["ble"] = "queue" /\ pc'["ble"] = "lock" /\ queue' = Append(queue, cmd["ble"])
        /\ UNCHANGED <<credits, out, in>>
    BY <1>1, <1>15, GotoBle DEF SendQueue
  <2>2. Handled
    BY <1>1, <2>1 DEF FreshInv, Announced, Queued, Taken, Exchanging
  <2>3. queue' = <<Due>>
    BY <2>1, <2>2 DEF Handled
  <2>4. Queued'
    BY <1>2, <1>3, <1>5, <2>1, <2>2, <2>3 DEF Handled, Queued
  <2> QED
    BY <2>1, <2>4 DEF TopUp
<1>16. CASE SendLock("ble") \/ SendRequest("ble")
  <2>1. /\ pc["ble"] \in {"lock", "request"} /\ UNCHANGED <<credits, queue, out, in>>
        /\ \/ pc'["ble"] = "request"
           \/ pc'["ble"] = IF in \in Started THEN "top_up" ELSE "wait"
    BY <1>1, <1>16, GotoBle DEF SendLock, SendRequest, AfterSend
  <2>2. Queued /\ Asks(in)
    BY <1>1, <2>1 DEF FreshInv, Announced, Handled, Queued, Taken, Exchanging
  <2>3. in \notin Started => credits = ChipCredits
    BY <2>2 DEF Asks, Started
  <2>4. Queued'
    BY <1>2, <1>3, <1>5, <2>1, <2>2, <2>3 DEF Queued
  <2> QED
    BY <2>1, <2>4 DEF TopUp
<1> QED
  BY <1>7, <1>8, <1>9, <1>10, <1>11, <1>12, <1>13, <1>14, <1>15, <1>16 DEF Ble, Send

\* Once the setup is over nothing starts it again.
LEMMA RunStep ==
  ASSUME CreditInv, ~Fresh, Next
  PROVE  ~Fresh' /\ Running'
<1> USE DEF kernel, lines, locals, world
<1>1. /\ TypeInv /\ Running /\ chip \in RadioState /\ chip.events \in Seq(Event)
      /\ pc \in [Task -> MainPlace \cup BlePlace] /\ chip.setup = SetupMessages
      /\ spent.drops \in Nat /\ chip.mode \in Mode
      /\ spent.drops # 0 \/ chip.mode \in {"advertising", "connected"}
  BY CreditTypes, ConstantTypes DEF CreditInv, Fresh, Running, TypeInv, TypeOK, RadioState,
     Bounds, Mode
<1>2. CASE Main
  <2>1. UNCHANGED <<chip, in>>
    BY <1>2 DEF Main, Transmit, TakeCredit, Send, SendQueue, SendLock, SendRequest,
       FlashCall, BufferSelect, FlashLock, FlashDeselect, FlashUnlock
  <2>2. spent'.drops = spent.drops
    BY <1>1, <1>2 DEF Main, Transmit, TakeCredit, Send, SendQueue, SendLock, SendRequest,
       FlashCall, BufferSelect, FlashLock, FlashDeselect, FlashUnlock, TypeInv, TypeOK, Bounds
  <2>3. \E place \in MainPlace : Goto("main", place)
    BY <1>2 DEF Main, Transmit, TakeCredit, Send, SendQueue, SendLock, SendRequest,
       FlashCall, BufferSelect, FlashLock, FlashDeselect, FlashUnlock, AfterSend,
       MainPlace, Sending
  <2>4. pc'["ble"] = pc["ble"]
    BY <1>1, <2>3, GotoMain
  <2> QED
    BY <1>1, <2>1, <2>2, <2>4 DEF Fresh, Running
<1>3. CASE Radio
  <2>1. /\ UNCHANGED <<pc, in>> /\ chip'.setup = chip.setup
        /\ spent'.drops = spent.drops \/ spent'.drops = spent.drops + 1
        /\ spent'.drops = spent.drops =>
             chip'.mode = chip.mode \/ chip'.mode = "connected"
    BY <1>1, <1>3, RadioEffect
  <2>2. NoneOf(chip'.events, Started)
    <3>1. \A s \in Seq(Event), e \in Event :
            NoneOf(s, Started) /\ e \notin Started
              => Append(s, e) \in Seq(Event) /\ NoneOf(Append(s, e), Started)
      BY NoneOfSeq
    <3>2. /\ {"connected", "opened", "credit", "data_received", "closed", "disconnected"}
               \subseteq Event \ Started
      BY DEF Event, Quiet, Started
    <3>3. \A e \in {"connected", "opened", "credit", "data_received", "closed",
                    "disconnected"} :
            Append(chip.events, e) \in Seq(Event) /\ NoneOf(Append(chip.events, e), Started)
      BY <1>1, <3>1, <3>2 DEF Running
    <3>4. NoneOf(Append(Append(chip.events, "connected"), "opened"), Started)
      BY <3>1, <3>2, <3>3
    <3> QED
      BY <1>1, <1>3, <3>3, <3>4, RadioEffect DEF Running
  <2> QED
    BY <1>1, <2>1, <2>2 DEF Fresh, Running
<1>4. CASE ExchangeEnd
  <2>1. /\ chip' = Answer(Delivered) /\ spent' = spent
        /\ pc'["ble"] = "unlock"
    BY <1>1, <1>4, GotoBle DEF ExchangeEnd, BlePlace
  <2>2. /\ Delivered \in RadioState /\ Delivered.mode = chip.mode
        /\ Delivered.setup = SetupMessages
        /\ NoneOf(Delivered.events, Started) /\ in' \notin Started
    BY <1>1, <1>4, DeliveredEffect DEF Running, Started
  <2>3. /\ chip'.setup = SetupMessages /\ NoneOf(chip'.events, Started)
        /\ chip'.mode = chip.mode \/ chip'.mode = "advertising"
    BY <2>1, <2>2, AnswerRunning
  <2> QED
    BY <1>1, <2>1, <2>2, <2>3 DEF Fresh, Running
<1>5. CASE Ble /\ ~ExchangeEnd
  <2>1. UNCHANGED <<chip, spent, in>>
    BY <1>5 DEF Ble, TakeReady, ReceiveCommand, ReceiveNothing, LockNull, ExchangeBegin,
       Unlock, HandleSetup, HandleConnect, HandleSending, TopUp, HandleCredit,
       HandlePipes, HandleQuiet, HandleUnknown, Send, SendQueue, SendLock, SendRequest
  <2>2. ~TopUp
    BY <1>1 DEF TopUp, Running
  <2>3. \E place \in BlePlace :
          /\ Goto("ble", place)
          /\ place \in Holding => pc["ble"] \in Holding
          /\ place = "top_up" => in \in Started /\ pc["ble"] = "request"
    <3>1. {"wait", "receive", "lock_null", "begin", "transfer", "unlock", "handle",
           "queue", "lock", "request", "top_up", "halted"} \subseteq BlePlace
      BY DEF BlePlace, Sending
    <3> QED
      BY <1>5, <2>2, <3>1 DEF Ble, TakeReady, ReceiveCommand, ReceiveNothing, LockNull,
         ExchangeBegin, Unlock, HandleSetup, HandleConnect, HandleSending, Handles,
         HandleCredit, GiveCredits, HandlePipes, HandleQuiet, HandleUnknown, Send,
         SendQueue, SendLock, SendRequest, AfterSend, Holding
  <2>4. /\ pc'["ble"] \in Holding => pc["ble"] \in Holding
        /\ pc'["ble"] = "top_up" => in \in Started /\ pc["ble"] = "request"
    BY <1>1, <2>3, GotoBle
  <2> QED
    BY <1>1, <2>1, <2>4 DEF Fresh, Running, Holding
<1> QED
  BY <1>2, <1>3, <1>4, <1>5 DEF Next

\* As long as no connection was lost and none is made, nothing of a client gets under way.
LEMMA NoClientStep ==
  ASSUME CreditInv, NoClient, Next, spent.drops = 0, spent'.drops = 0,
         chip.mode # "connected", chip'.mode # "connected"
  PROVE  NoClient'
<1> USE DEF kernel, lines, locals, world
<1>1. /\ TypeInv /\ chip \in RadioState /\ chip.events \in Seq(Event) /\ queue \in Seq(Command)
      /\ pc \in [Task -> MainPlace \cup BlePlace] /\ cmd["ble"] # "data"
      /\ cmd \in [Task -> Command]
  BY CreditTypes DEF CreditInv, TypeInv, TypeOK
<1>2. CASE Main
  <2>1. ~Transmit /\ ~TakeCredit /\ ~SendQueue("main")
    BY DEF NoClient, Transmit, TakeCredit, SendQueue
  <2>2. UNCHANGED <<queue, pipeOpen, out, in, chip>>
    BY <1>2, <2>1 DEF Main, Send, SendLock, SendRequest, FlashCall, BufferSelect,
       FlashLock, FlashDeselect, FlashUnlock
  <2>3. \E place \in MainPlace \ {"credit", "queue"} : Goto("main", place)
    BY <1>2, <2>1 DEF Main, Send, SendLock, SendRequest, FlashCall, BufferSelect,
       FlashLock, FlashDeselect, FlashUnlock, AfterSend, MainPlace, Sending
  <2>4. pc'["main"] \notin {"credit", "queue"}
    BY <1>1, <2>3, GotoMain
  <2> QED
    BY <2>2, <2>4 DEF NoClient
<1>3. CASE Radio
  <2>1. chip.used = 0
    BY DEF NoClient
  <2>2. UNCHANGED <<pc, queue, pipeOpen, out, in, chip.used, chip.refused, chip.events>>
    BY <1>1, <1>3, <2>1, RadioEffect
  <2> QED
    BY <2>2 DEF NoClient
<1>4. CASE Ble
  <2>1. pc'["main"] = pc["main"]
    <3>1. {"wait", "receive", "lock_null", "begin", "transfer", "unlock", "handle",
           "queue", "lock", "request", "top_up", "halted"} \subseteq BlePlace
      BY DEF BlePlace, Sending
    <3>2. \E place \in BlePlace : Goto("ble", place)
      BY <1>4, <3>1 DEF Ble, TakeReady, ReceiveCommand, ReceiveNothing, LockNull,
         ExchangeBegin, ExchangeEnd, Unlock, HandleSetup, HandleConnect, HandleSending,
         TopUp, HandleCredit, GiveCredits, HandlePipes, HandleQuiet, HandleUnknown, Send,
         SendQueue, SendLock, SendRequest, AfterSend
    <3> QED
      BY <1>1, <3>2, GotoBle
  <2>2. CASE ReceiveCommand
    <3>1. /\ queue # <<>> /\ queue' = Tail(queue) /\ out' = Head(queue)
          /\ UNCHANGED <<pipeOpen, in, chip>>
      BY <2>2 DEF ReceiveCommand
    <3>2. NoneOf(queue', {"data"}) /\ out' # "data"
      BY <1>1, <3>1, NoneOfSeq DEF NoClient
    <3> QED
      BY <2>1, <3>1, <3>2 DEF NoClient
  <2>3. CASE ExchangeEnd
    <3>1. /\ chip' = Answer(Delivered) /\ UNCHANGED <<queue, pipeOpen, out>>
      BY <2>3 DEF ExchangeEnd
    <3>2. /\ Delivered \in RadioState /\ Delivered.received = out /\ out # "data"
          /\ Delivered.used = 0 /\ Delivered.refused = 0
          /\ NoneOf(Delivered.events, ForClient)
          /\ in' \notin ForClient
      BY <1>1, <2>3, DeliveredEffect DEF NoClient, ForClient
    <3>3. /\ chip'.used = 0 /\ chip'.refused = 0 /\ NoneOf(chip'.events, ForClient)
      <4>1. ForClient \in SUBSET {"opened", "credit", "pipe_error"}
        BY DEF ForClient
      <4> QED
        BY <3>1, <3>2, <4>1, AnswerCredits, AnswerRunning
    <3> QED
      BY <2>1, <3>1, <3>2, <3>3 DEF NoClient
  <2>4. CASE SendQueue("ble")
    <3>1. queue' = Append(queue, cmd["ble"]) /\ UNCHANGED <<pipeOpen, out, in, chip>>
      BY <2>4 DEF SendQueue
    <3>2. NoneOf(queue', {"data"})
      <4>1. cmd["ble"] \in Command /\ cmd["ble"] \notin {"data"}
        BY <1>1 DEF Task
      <4> QED
        BY <1>1, <3>1, <4>1, NoneOfSeq DEF NoClient
    <3> QED
      BY <2>1, <3>1, <3>2 DEF NoClient
  <2>5. CASE HandlePipes
    <3>1. UNCHANGED <<queue, out, in, chip>> /\ in # "opened" /\ pipeOpen' = (in = "opened")
      BY <2>5 DEF HandlePipes, NoClient, ForClient
    <3> QED
      BY <2>1, <3>1 DEF NoClient
  <2>6. CASE ReceiveNothing
    <3>1. out' = None /\ UNCHANGED <<queue, pipeOpen, in, chip>>
      BY <2>6 DEF ReceiveNothing
    <3> QED
      BY <2>1, <3>1 DEF NoClient, None
  <2>7. CASE \/ TakeReady \/ LockNull \/ ExchangeBegin \/ Unlock \/ HandleSetup
             \/ HandleConnect \/ TopUp \/ HandleCredit \/ HandleQuiet \/ HandleUnknown
             \/ SendLock("ble") \/ SendRequest("ble")
    <3>1. UNCHANGED <<queue, pipeOpen, out, in, chip>>
      BY <2>7 DEF TakeReady, LockNull, ExchangeBegin, Unlock, HandleSetup, HandleConnect,
         HandleSending, TopUp, HandleCredit, HandleQuiet, HandleUnknown, SendLock, SendRequest
    <3> QED
      BY <2>1, <3>1 DEF NoClient
  <2> QED
    BY <1>4, <2>2, <2>3, <2>4, <2>5, <2>6, <2>7 DEF Ble, Send
<1> QED
  BY <1>2, <1>3, <1>4 DEF Next

\* Until a connection is lost the radio gets no data it cannot take, and no credit comes
\* back that the semaphore has no room for.
LEMMA ErrorStep ==
  ASSUME CreditInv, Next, spent'.drops = 0, CreditsAccounted' <= ChipCredits
  PROVE  NoError'
<1> USE DEF kernel, lines, locals, world
<1>1. spent.drops = 0
  <2>1. spent.drops \in Nat
    BY ConstantTypes DEF CreditInv, TypeInv, TypeOK, Bounds
  <2>2. CASE Main
    <3>1. spent'.drops = spent.drops
      BY <2>2 DEF Main, Transmit, TakeCredit, Send, SendQueue, SendLock, SendRequest,
         FlashCall, BufferSelect, FlashLock, FlashDeselect, FlashUnlock, CreditInv, TypeInv,
         TypeOK, Bounds
    <3> QED
      BY <3>1
  <2>3. CASE Ble
    <3>1. spent' = spent
      BY <2>3 DEF Ble, TakeReady, ReceiveCommand, ReceiveNothing, LockNull, ExchangeBegin,
         ExchangeEnd, Unlock, HandleSetup, HandleConnect, HandleSending, TopUp, HandleCredit,
         HandlePipes, HandleQuiet, HandleUnknown, Send, SendQueue, SendLock, SendRequest
    <3> QED
      BY <3>1
  <2>4. CASE Radio
    BY <2>1, <2>4, RadioEffect DEF CreditInv
  <2> QED
    BY <2>2, <2>3, <2>4 DEF Next
<1>2. /\ TypeInv /\ NoError /\ chip \in RadioState /\ chip.events \in Seq(Event)
      /\ pc \in [Task -> MainPlace \cup BlePlace] /\ [Next]_vars
      /\ cmd["main"] = "data" /\ cmd["ble"] # "data" /\ CreditsAccounted <= ChipCredits
      /\ pc["ble"] = "lock_null" => out = None
  BY <1>1, CreditTypes DEF CreditInv
\* What the radio refused it does not take back.
<1>8. chip'.refused >= chip.refused /\ chip.refused \in Nat
  <2>1. chip.refused \in Nat
    BY <1>2 DEF RadioState
  <2>2. CASE ExchangeEnd
    <3>1. /\ Delivered \in RadioState /\ Delivered.refused = chip.refused
          /\ chip' = Answer(Delivered)
      BY <1>2, <2>2, DeliveredEffect DEF ExchangeEnd
    <3> QED
      BY <2>1, <3>1, AnswerCredits
  <2>3. CASE Radio
    BY <1>2, <2>1, <2>3, RadioEffect
  <2>4. CASE Main \/ (Ble /\ ~ExchangeEnd)
    <3>1. chip' = chip
      BY <2>4 DEF Main, Transmit, TakeCredit, FlashCall, BufferSelect, FlashLock,
         FlashDeselect, FlashUnlock, Ble, TakeReady, ReceiveCommand, ReceiveNothing, LockNull,
         ExchangeBegin, Unlock, HandleSetup, HandleConnect, HandleSending, TopUp, HandleCredit,
         HandlePipes, HandleQuiet, HandleUnknown, Send, SendQueue, SendLock, SendRequest
    <3> QED
      BY <2>1, <3>1
  <2> QED
    BY <2>1, <2>2, <2>3, <2>4 DEF Next
\* Data goes to the radio only when it has room.
<1>3. ASSUME ExchangeEnd, out = "data"
      PROVE  chip.mode = "connected" /\ chip.used < ChipCredits
  <2>1. Going = 1
    BY <1>3 DEF ExchangeEnd, Going, One, Exchanging
  <2>2. chip.used < ChipCredits
    <3>1. CreditsAccounted <= ChipCredits /\ TypeInv /\ [Next]_vars
      BY <1>2
    <3> QED
      BY <2>1, <3>1, Ledger
  <2> QED
    BY <1>2, <1>3, <2>2 DEF NoError, NoClient
<1>4. ASSUME chip'.refused = 0
      PROVE  pc'["ble"] # "halted"
  <2>5. chip.refused = 0
    BY <1>4, <1>8
  <2>1. CASE Main \/ Radio
    <3>1. CASE Main
      <4>1. \E place \in MainPlace : Goto("main", place)
        BY <3>1 DEF Main, Transmit, TakeCredit, Send, SendQueue, SendLock, SendRequest,
           FlashCall, BufferSelect, FlashLock, FlashDeselect, FlashUnlock, AfterSend,
           MainPlace, Sending
      <4> QED
        BY <1>2, <2>5, <4>1, GotoMain DEF NoError
    <3>2. CASE Radio
      BY <1>2, <2>5, <3>2, RadioEffect DEF NoError
    <3> QED
      BY <2>1, <3>1, <3>2
  <2>2. CASE TopUp
    <3>1. Fresh
      BY <2>2 DEF TopUp, CreditInv, Running
    <3> QED
      BY <2>2, <3>1, FreshBle DEF Ble, ExchangeEnd, TopUp
  <2>3. CASE HandleCredit
    <3>1. Coming = 1
      BY <2>3 DEF HandleCredit, Handles, Coming, One
    <3>2. credits + 1 <= CreditLimit
      <4>1. CreditsAccounted <= ChipCredits /\ TypeInv /\ [Next]_vars
        BY <1>2
      <4>2. credits + 1 <= ChipCredits
        BY <3>1, <4>1, Ledger
      <4> QED
        BY <4>1, <4>2, Ledger, LinkAssumption
    <3>3. Goto("ble", "wait") /\ "wait" \in BlePlace
      BY <2>3, <3>2 DEF HandleCredit, GiveCredits, BlePlace
    <3> QED
      BY <1>2, <3>3, GotoBle
  <2>4. CASE Ble /\ ~TopUp /\ ~HandleCredit
    <3>1. ~HandleUnknown
      BY <1>2, <2>5 DEF HandleUnknown, Handles, NoError
    <3>2. {"wait", "receive", "lock_null", "begin", "transfer", "unlock", "handle",
           "queue", "lock", "request", "top_up"} \subseteq BlePlace \ {"halted"}
      BY DEF BlePlace, Sending
    <3>3. \E place \in BlePlace \ {"halted"} : Goto("ble", place)
      BY <2>4, <3>1, <3>2 DEF Ble, TakeReady, ReceiveCommand, ReceiveNothing, LockNull,
         ExchangeBegin, ExchangeEnd, Unlock, HandleSetup, HandleConnect, HandleSending,
         HandlePipes, HandleQuiet, Send, SendQueue, SendLock, SendRequest, AfterSend
    <3> QED
      BY <1>2, <3>3, GotoBle
  <2> QED
    BY <2>1, <2>2, <2>3, <2>4 DEF Next
<1>5. ASSUME chip'.refused = 0
      PROVE  in' # "pipe_error" /\ NoneOf(chip'.events, {"pipe_error"})
  <2>1. NoneOf(chip.events, {"pipe_error"}) /\ in # "pipe_error" /\ chip.refused = 0
    BY <1>2, <1>5, <1>8 DEF NoError
  <2>2. CASE ExchangeEnd
    <3>1. /\ Delivered \in RadioState /\ Delivered.received = out
          /\ Delivered.refused = chip.refused
          /\ NoneOf(Delivered.events, {"pipe_error"}) /\ in' # "pipe_error"
      BY <1>2, <2>1, <2>2, DeliveredEffect
    <3>2. {"pipe_error"} \in SUBSET {"opened", "credit", "pipe_error"}
      OBVIOUS
    <3>3. chip' = Answer(Delivered)
      BY <2>2 DEF ExchangeEnd
    <3> QED
      BY <1>5, <2>1, <3>1, <3>2, <3>3, AnswerRunning
  <2>3. CASE Main \/ (Ble /\ ~ExchangeEnd)
    <3>1. UNCHANGED <<chip, in>>
      BY <2>3 DEF Main, Transmit, TakeCredit, FlashCall, BufferSelect, FlashLock,
         FlashDeselect, FlashUnlock, Ble, TakeReady, ReceiveCommand, ReceiveNothing, LockNull,
         ExchangeBegin, Unlock, HandleSetup, HandleConnect, HandleSending, TopUp, HandleCredit,
         HandlePipes, HandleQuiet, HandleUnknown, Send, SendQueue, SendLock, SendRequest
    <3> QED
      BY <2>1, <3>1
  <2>4. CASE Radio
    <3>1. \A s \in Seq(Event), e \in Event :
            NoneOf(s, {"pipe_error"}) /\ e # "pipe_error"
              => Append(s, e) \in Seq(Event) /\ NoneOf(Append(s, e), {"pipe_error"})
      <4> SUFFICES ASSUME NEW s \in Seq(Event), NEW e \in Event, NoneOf(s, {"pipe_error"}),
                          e \notin {"pipe_error"}
                   PROVE  NoneOf(Append(s, e), {"pipe_error"})
        OBVIOUS
      <4> QED
        BY NoneOfSeq
    <3>2. \A e \in {"connected", "opened", "credit", "data_received", "closed",
                    "disconnected"} : e \in Event /\ e # "pipe_error"
      BY DEF Event, Quiet
    <3>3. \A e \in {"connected", "opened", "credit", "data_received", "closed",
                    "disconnected"} :
            Append(chip.events, e) \in Seq(Event)
              /\ NoneOf(Append(chip.events, e), {"pipe_error"})
      BY <1>2, <2>1, <3>1, <3>2
    <3>4. NoneOf(Append(Append(chip.events, "connected"), "opened"), {"pipe_error"})
      BY <3>1, <3>2, <3>3
    <3> QED
      BY <1>2, <2>1, <2>4, <3>3, <3>4, RadioEffect
  <2> QED
    BY <2>2, <2>3, <2>4 DEF Next
<1>6. ASSUME chip'.mode # "connected"
      PROVE  NoClient'
  <2>1. chip.mode # "connected"
    <3>1. CASE Main \/ (Ble /\ ~ExchangeEnd)
      <4>1. chip' = chip
        BY <3>1 DEF Main, Transmit, TakeCredit, FlashCall, BufferSelect, FlashLock,
           FlashDeselect, FlashUnlock, Ble, TakeReady, ReceiveCommand, ReceiveNothing,
           LockNull, ExchangeBegin, Unlock, HandleSetup, HandleConnect, HandleSending, TopUp,
           HandleCredit, HandlePipes, HandleQuiet, HandleUnknown, Send, SendQueue, SendLock,
           SendRequest
      <4> QED
        BY <1>6, <4>1
    <3>2. CASE ExchangeEnd
      <4> SUFFICES ASSUME chip.mode = "connected" PROVE FALSE
        OBVIOUS
      <4>1. chip.setup = SetupMessages
        BY DEF CreditInv, Fresh, Running
      <4>2. chip' = Answer(Delivered) /\ Delivered \in RadioState
            /\ Delivered.mode = chip.mode /\ Delivered.setup = chip.setup
        BY <1>2, <3>2, DeliveredEffect DEF ExchangeEnd
      <4>3. chip'.mode = chip.mode
        BY <4>1, <4>2, AnswerRunning
      <4> QED
        BY <1>6, <4>3
    <3>3. CASE Radio
      BY <1>1, <1>2, <1>6, <3>3, RadioEffect
    <3> QED
      BY <3>1, <3>2, <3>3 DEF Next
  <2> QED
    BY <1>1, <1>2, <1>6, <2>1, NoClientStep DEF NoError
<1>7. ASSUME ~Fresh'
      PROVE  CreditsAccounted' = ChipCredits
  <2>1. CreditsAccounted' = CreditsAccounted
    <3>1. CASE Main
      BY <1>2, <3>1, MainCredits
    <3>2. CASE Ble
      <4>1. ~TopUp
        <5>1. CASE Fresh
          BY <1>7, <3>2, <5>1, FreshBle DEF TopUp, ExchangeEnd
        <5>2. CASE ~Fresh
          BY <5>2 DEF TopUp, CreditInv, Running
        <5> QED
          BY <5>1, <5>2
      <4> QED
        BY <1>2, <3>2, <4>1, BleCredits
    <3>3. CASE Radio
      BY <1>1, <1>2, <3>3, RadioCredits
    <3> QED
      BY <3>1, <3>2, <3>3 DEF Next
  <2>2. CASE Fresh
    <3>1. ExchangeEnd
      BY <1>7, <2>2, FreshOthers, FreshBle DEF Next
    <3>2. credits = ChipCredits
      BY <1>7, <2>2, <3>1, FreshExchange
    <3>3. NoClient
      BY <1>2, <2>2 DEF NoError, Fresh
    <3> QED
      BY <1>2, <2>1, <3>2, <3>3, AllInSemaphore
  <2>3. CASE ~Fresh
    BY <1>2, <2>1, <2>3 DEF NoError
  <2> QED
    BY <2>2, <2>3
\* A pipe is closed by the client only, and data for an open one is taken.
<1>9. ASSUME spent'.notices = 0
      PROVE  chip'.refused = 0 /\ (chip'.mode = "connected" => chip'.pipe)
  <2>1. spent.notices \in Nat
    BY <1>2, ConstantTypes DEF TypeInv, TypeOK, Bounds
  <2>2. CASE Radio
    <3>1. spent.notices = 0
      BY <1>1, <1>9, <2>1, <2>2, <1>2, RadioEffect
    <3> QED
      BY <1>1, <1>2, <2>1, <2>2, <1>9, <3>1, RadioEffect DEF NoError
  <2>3. CASE ~Radio
    <3>1. spent.notices = 0
      BY <1>2, <1>9, <2>3 DEF Next, Main, Transmit, TakeCredit, FlashCall, BufferSelect,
         FlashLock, FlashDeselect, FlashUnlock, Ble, TakeReady, ReceiveCommand, ReceiveNothing,
         LockNull, ExchangeBegin, ExchangeEnd, Unlock, HandleSetup, HandleConnect,
         HandleSending, TopUp, HandleCredit, HandlePipes, HandleQuiet, HandleUnknown, Send,
         SendQueue, SendLock, SendRequest, TypeInv, TypeOK, Bounds
    <3>2. chip.refused = 0 /\ (chip.mode = "connected" => chip.pipe)
      BY <1>2, <3>1 DEF NoError
    <3>3. CASE ExchangeEnd
      <4>1. /\ Delivered \in RadioState /\ Delivered.received = out
            /\ Delivered.mode = chip.mode /\ Delivered.used = chip.used
            /\ Delivered.refused = chip.refused /\ Delivered.pipe = chip.pipe
            /\ Delivered.setup = chip.setup /\ chip' = Answer(Delivered)
        BY <1>2, <3>3, DeliveredEffect DEF ExchangeEnd
      <4>2. chip'.refused = 0 /\ chip'.pipe = chip.pipe
        BY <1>3, <3>2, <3>3, <4>1, AnswerCredits
      <4>3. chip'.mode = "connected" => chip.mode = "connected"
        BY <4>1, AnswerMode
      <4> QED
        BY <3>2, <4>2, <4>3
    <3>4. CASE ~ExchangeEnd
      <4>1. chip' = chip
        BY <2>3, <3>4 DEF Next, Main, Transmit, TakeCredit, FlashCall, BufferSelect, FlashLock,
           FlashDeselect, FlashUnlock, Ble, TakeReady, ReceiveCommand, ReceiveNothing,
           LockNull, ExchangeBegin, Unlock, HandleSetup, HandleConnect, HandleSending, TopUp,
           HandleCredit, HandlePipes, HandleQuiet, HandleUnknown, Send, SendQueue, SendLock,
           SendRequest
      <4> QED
        BY <3>2, <4>1
    <3> QED
      BY <3>3, <3>4
  <2> QED
    BY <2>2, <2>3
<1> QED
  BY <1>4, <1>5, <1>6, <1>7, <1>9 DEF NoError

\* The invariant is inductive.
LEMMA CreditStep ==
  ASSUME CreditInv, Next
  PROVE  CreditInv'
<1> USE DEF kernel, lines, locals, world
<1>1. /\ TypeInv /\ [Next]_vars /\ CreditsAccounted <= ChipCredits
      /\ cmd["main"] = "data" /\ cmd["ble"] # "data"
      /\ pc["ble"] = "lock_null" => out = None
      /\ pc \in [Task -> MainPlace \cup BlePlace] /\ cmd \in [Task -> Command]
  BY DEF CreditInv, TypeInv, TypeOK
<1>2. TypeInv'
  BY <1>1, TypeStep
<1>3. cmd'["main"] = "data" /\ cmd'["ble"] # "data"
  BY <1>1 DEF Next, Main, Transmit, TakeCredit, FlashCall, BufferSelect, FlashLock,
     FlashDeselect, FlashUnlock, Ble, TakeReady, ReceiveCommand, ReceiveNothing, LockNull,
     ExchangeBegin, ExchangeEnd, Unlock, HandleSetup, HandleConnect, HandleSending, TopUp,
     HandleCredit, HandlePipes, HandleQuiet, HandleUnknown, Send, SendQueue, SendLock,
     SendRequest, Radio, RadioReady, RadioConnects, RadioSends, RadioNotices, RadioDrops,
     RadioBecomes, Task
<1>4. pc'["ble"] = "lock_null" => out' = None
  <2>1. CASE Main
    <3>1. out' = out
      BY <2>1 DEF Main, Transmit, TakeCredit, Send, SendQueue, SendLock, SendRequest,
         FlashCall, BufferSelect, FlashLock, FlashDeselect, FlashUnlock
    <3>2. \E place \in MainPlace : Goto("main", place)
      BY <2>1 DEF Main, Transmit, TakeCredit, Send, SendQueue, SendLock, SendRequest,
         FlashCall, BufferSelect, FlashLock, FlashDeselect, FlashUnlock, AfterSend,
         MainPlace, Sending
    <3> QED
      BY <1>1, <3>1, <3>2, GotoMain
  <2>2. CASE Radio
    BY <1>1, <2>2, RadioEffect
  <2>3. CASE ReceiveNothing
    BY <2>3 DEF ReceiveNothing
  <2>4. CASE Ble /\ ~ReceiveNothing
    <3>1. {"wait", "receive", "begin", "transfer", "unlock", "handle", "queue", "lock",
           "request", "top_up", "halted"} \subseteq BlePlace \ {"lock_null"}
      BY DEF BlePlace, Sending
    <3>2. \E place \in BlePlace \ {"lock_null"} : Goto("ble", place)
      BY <2>4, <3>1 DEF Ble, TakeReady, ReceiveCommand, LockNull, ExchangeBegin, ExchangeEnd,
         Unlock, HandleSetup, HandleConnect, HandleSending, TopUp, HandleCredit, GiveCredits,
         HandlePipes, HandleQuiet, HandleUnknown, Send, SendQueue, SendLock, SendRequest,
         AfterSend
    <3> QED
      BY <1>1, <3>2, GotoBle
  <2> QED
    BY <2>1, <2>2, <2>3, <2>4 DEF Next
<1>5. IF Fresh' THEN FreshInv' ELSE Running'
  <2>1. CASE Fresh
    BY <2>1, FreshOthers, FreshExchange, FreshBle DEF Next
  <2>2. CASE ~Fresh
    BY <2>2, RunStep
  <2> QED
    BY <2>1, <2>2
<1>6. CreditsAccounted' <= ChipCredits
  <2>1. CreditsAccounted' \in Nat /\ CreditsAccounted \in Nat /\ ChipCredits \in Nat
    BY <1>1, Ledger
  <2>2. CASE Main
    BY <1>1, <2>2, MainCredits
  <2>3. CASE Radio
    BY <1>1, <2>1, <2>3, RadioCredits
  <2>4. CASE Ble /\ ~TopUp
    BY <1>1, <2>4, BleCredits
  <2>5. CASE TopUp
    <3>1. Fresh
      BY <2>5 DEF TopUp, CreditInv, Running
    <3>2. credits' = ChipCredits
      BY <2>5, <3>1, FreshBle DEF Ble, TopUp, ExchangeEnd
    <3>3. NoClient
      BY <3>1 DEF Fresh, CreditInv, NoError
    <3>4. UNCHANGED <<chip, queue, out, in, pipeOpen, pc["main"], spent>>
      <4>1. Goto("ble", "wait") \/ Goto("ble", "halted")
        BY <2>5 DEF TopUp, GiveCredits
      <4>2. pc'["main"] = pc["main"]
        BY <1>1, <4>1, GotoBle DEF BlePlace
      <4> QED
        BY <2>5, <4>2 DEF TopUp
    <3>5. /\ UNCHANGED <<chip.used, chip.refused, Count(chip.events, "credit"),
                       Count(queue, "data"), Pledged>>
          /\ Going' = 0 /\ Coming' = 0
      BY <3>3, <3>4 DEF Pledged, Going, Coming, One, NoClient, ForClient
    <3>6. chip.used = 0 /\ chip.refused = 0 /\ Count(chip.events, "credit") = 0
          /\ Count(queue, "data") = 0 /\ Pledged = 0
      <4>1. queue \in Seq(Command) /\ chip.events \in Seq(Event)
        BY <1>1, CreditTypes
      <4>2. Count(queue, "data") = 0 /\ Count(chip.events, "credit") = 0
        BY <3>3, <4>1, CountNone DEF NoClient, NoneOf, ForClient
      <4> QED
        BY <3>3, <4>2 DEF NoClient, Pledged, One
    <3> QED
      BY <1>1, <3>2, <3>5, <3>6, Ledger
  <2> QED
    BY <2>2, <2>3, <2>4, <2>5 DEF Next
<1>7. spent'.drops = 0 => NoError'
  BY <1>6, ErrorStep
<1> QED
  BY <1>2, <1>3, <1>4, <1>5, <1>6, <1>7 DEF CreditInv

\* For every queue length, number of credits and setup messages and any traffic: no credit
\* of the radio appears, and until a connection is lost none vanishes but with data the
\* radio refuses because the client changed a pipe; unless it refuses some, no assertion of
\* the driver about credits or pipes fails.
THEOREM LinkCreditsConserved == Spec => []CreditsConserved
<1>1. CreditInv => CreditsConserved
  BY DEF CreditInv, NoError, Fresh, CreditsConserved
<1>2. Init => CreditInv
  <2> SUFFICES ASSUME Init PROVE CreditInv
    OBVIOUS
  <2>1. /\ TypeInv /\ credits = 0 /\ queue = <<>> /\ out = "none" /\ in = "none"
        /\ pc["ble"] = "wait" /\ pc["main"] = "idle" /\ spent.drops = 0 /\ ~pipeOpen
        /\ chip.mode = "setup" /\ chip.setup = 0 /\ chip.used = 0 /\ chip.refused = 0
        /\ chip.events = <<"started_setup">>
        /\ cmd["main"] = "data" /\ cmd["ble"] = "setup"
    BY TypeInit DEF Init, config_nrf8001, None, Task
  <2>2. NoClient
    <3>1. NoneOf(<<"started_setup">>, ForClient) /\ NoneOf(<<>>, {"data"})
      BY DEF NoneOf, ForClient
    <3> QED
      BY <2>1, <3>1 DEF NoClient, ForClient
  <2>3. Fresh /\ FreshInv
    <3>1. Announced
      BY <2>1 DEF Announced, Asks, Event, Started, Exchanging
    <3> QED
      BY <2>1, <3>1, ConstantTypes, LinkAssumption DEF Fresh, FreshInv
  <2>4. CreditsAccounted = 0
    BY <2>1, <2>2, AllInSemaphore
  <2>5. NoError
    <3>1. NoneOf(<<"started_setup">>, {"pipe_error"})
      BY DEF NoneOf
    <3> QED
      BY <2>1, <2>2, <2>3, <3>1 DEF NoError
  <2> QED
    BY <2>1, <2>3, <2>4, <2>5, ConstantTypes DEF CreditInv
<1>3. CreditInv /\ [Next]_vars => CreditInv'
  <2>1. ASSUME CreditInv, UNCHANGED vars
        PROVE  CreditInv'
    BY <2>1, TypeStep DEF vars, kernel, lines, locals, world, CreditInv, CreditsAccounted,
       CreditsAnywhere, Fresh,
       FreshInv, Announced, Handled, Queued, Taken, Due, Asks, Running, NoError, NoClient
  <2> QED
    BY <2>1, CreditStep
<1> QED
  BY <1>1, <1>2, <1>3, PTL DEF Spec
=============================================================================
