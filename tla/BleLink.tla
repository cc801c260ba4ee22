------------------------------- MODULE BleLink -------------------------------
(***************************************************************************)
(* The link to the nRF8001 radio: the main task, which transmits and uses  *)
(* the flash chip, the ble task, which alone talks to the radio, the       *)
(* interrupt of the radio's RDYN line, and the radio.  Radio and flash     *)
(* share one SPI bus, guarded by a binary semaphore; a command goes to the *)
(* ble task through a queue.  See task_ble.c, nrf8001.c, spi.c, flash.c.   *)
(*                                                                         *)
(* The two tasks have equal priority, and the alert task, which wakes up   *)
(* every 10 ms, makes the scheduler switch between them: they interleave   *)
(* at every step.  What a transfer does to the bytes of another one on the *)
(* same bus is left out: that two meet there at all is the error.          *)
(*                                                                         *)
(* As in BufferedIO, a definition named Slip... is a plausible mistake in  *)
(* the one that follows it, which the properties must notice.              *)
(***************************************************************************)
EXTENDS Naturals, Sequences, FiniteSets

CONSTANTS QueueLength,    \* CONFIG_TASK_BLE_QUEUE_LEN
          CreditLimit,    \* largest count of the credits semaphore
          ChipCredits,    \* credit_available of the radio's firmware
          SetupMessages,  \* NB_SETUP_MESSAGES
          MaxTransmits,   \* bound: data commands of the main task
          MaxFlash,       \* bound: reads and writes of the flash chip
          MaxPolls,       \* bound: status reads until a page is programmed
          MaxNotices,     \* bound: events the client causes on its own
          MaxDrops        \* bound: lost connections

ASSUME LinkAssumption ==
  /\ {QueueLength, CreditLimit, ChipCredits, SetupMessages, MaxPolls}
       \subseteq Nat \ {0}
  /\ ChipCredits <= CreditLimit
  /\ {MaxTransmits, MaxFlash, MaxNotices, MaxDrops} \subseteq Nat

VARIABLES
  bus,        \* port_locks[..].semphr of SPI1: 1 when the bus is free
  ready,      \* ble_data_g.semphr: 1 when an RDYN interrupt is unanswered
  credits,    \* ble_data_g.credits
  queue,      \* ble_data_g.in
  reqn,       \* the REQN line is low: the radio is asked for an exchange
  selected,   \* the CS line of the flash chip is low
  pipeOpen,   \* PIPE_OPEN of the pipe the main task sends on
  pc,         \* where each task is
  cmd,        \* the command each task hands to ble_send_cmd
  ops,        \* the accesses left of the flash operation of the main task
  out, in,    \* what the ble task exchanges: the locals outgoing and incoming
  chip,       \* the radio
  spent       \* how much of each bound is used up

locals == <<cmd, ops, out, in>>
kernel == <<bus, ready, credits, queue>>
lines  == <<reqn, selected>>
world  == <<chip, spent>>
vars   == <<pc, locals, pipeOpen, kernel, lines, world>>

Task    == {"main", "ble"}
Command == {"setup", "connect", "data"}
None    == "none"               \* nrf8001_nul, or an answer of length 0
Started == {"started_setup", "started_standby"}
Quiet   == {"response", "connected", "data_received"}
Event   == Started \cup Quiet \cup
           {"continue", "disconnected", "opened", "closed", "credit", "pipe_error"}
Access  == {"buffer", "plain"}
Sending == {"queue", "lock", "request"}
MainPlace == Sending \cup {"idle", "credit", "flash", "flash_lock", "flash_xfer",
                          "flash_unlock"}
BlePlace  == Sending \cup {"wait", "receive", "lock_null", "begin", "transfer",
                          "unlock", "handle", "top_up", "halted"}
Mode    == {"setup", "standby", "advertising", "connected"}
Bounds  == [transmits : 0 .. MaxTransmits, flash : 0 .. MaxFlash,
            notices : 0 .. MaxNotices, drops : 0 .. MaxDrops]

\* `received` is the last command the radio took, `used` its full buffers, `pipe` whether
\* the client has the pipe open, `refused` (a history) the data it sent back as an error.
RadioState ==
  [mode : Mode, rdyn : BOOLEAN, setup : 0 .. SetupMessages, used : 0 .. ChipCredits,
   pipe : BOOLEAN, refused : Nat,
   received : Command \cup {None}, events : Seq(Event)]

TypeOK ==
  /\ bus \in 0 .. 1 /\ ready \in 0 .. 1 /\ credits \in 0 .. CreditLimit
  /\ queue \in Seq(Command) /\ Len(queue) <= QueueLength
  /\ reqn \in BOOLEAN /\ selected \in BOOLEAN /\ pipeOpen \in BOOLEAN
  /\ pc \in [Task -> MainPlace \cup BlePlace]
  /\ pc["main"] \in MainPlace /\ pc["ble"] \in BlePlace
  /\ cmd \in [Task -> Command]
  /\ ops \in Seq(Access)
  /\ out \in Command \cup {None} /\ in \in Event \cup {None}
  /\ chip \in RadioState
  /\ spent \in Bounds

-----------------------------------------------------------------------------
(* The semaphores.  Giving a binary semaphore that is already given        *)
(* changes nothing, and nobody looks at the result.                        *)

BusTake == bus = 1 /\ bus' = 0

BusGive == bus' = 1

Goto(task, place) == pc' = [pc EXCEPT ![task] = place]

\* nrf8001_got_credits: when the count is at its limit an assertion fails,
\* and the task stays in the loop of the assertion for ever.
GiveCredits(n) ==
  /\ credits' = IF credits + n <= CreditLimit THEN credits + n ELSE CreditLimit
  /\ Goto("ble", IF credits + n <= CreditLimit THEN "wait" ELSE "halted")

-----------------------------------------------------------------------------
(* ble_send_cmd, called by both tasks: queue the command, lock the bus on  *)
(* its behalf, ask the radio for an exchange.                              *)

AfterSend(task) ==
  IF task = "main" THEN "idle" ELSE IF in \in Started THEN "top_up" ELSE "wait"

SendQueue(task) ==
  /\ pc[task] = "queue" /\ Len(queue) < QueueLength
  /\ queue' = Append(queue, cmd[task])
  /\ Goto(task, "lock")
  /\ UNCHANGED <<bus, ready, credits, lines, locals, pipeOpen, world>>

SendLock(task) ==
  /\ pc[task] = "lock" /\ BusTake
  /\ Goto(task, "request")
  /\ UNCHANGED <<ready, credits, queue, lines, locals, pipeOpen, world>>

SendRequest(task) ==
  /\ pc[task] = "request"
  /\ reqn' = TRUE
  /\ Goto(task, AfterSend(task))
  /\ UNCHANGED <<kernel, selected, locals, pipeOpen, world>>

Send(task) == SendQueue(task) \/ SendLock(task) \/ SendRequest(task)

-----------------------------------------------------------------------------
(* The main task: ble_tx_helper, once per packet, and the flash driver.    *)

Transmit ==
  /\ pc["main"] = "idle" /\ pipeOpen
  /\ spent.transmits < MaxTransmits
  /\ spent' = [spent EXCEPT !.transmits = @ + 1]
  /\ Goto("main", "credit")
  /\ UNCHANGED <<kernel, lines, locals, pipeOpen, chip>>

TakeCredit ==
  /\ pc["main"] = "credit" /\ credits > 0
  /\ credits' = credits - 1
  /\ cmd' = [cmd EXCEPT !["main"] = "data"]
  /\ Goto("main", "queue")
  /\ UNCHANGED <<bus, ready, queue, lines, ops, out, in, pipeOpen, world>>

FlashRead == <<"plain">>
\* The buffer, the commit, and busy_wait_for_ready: status until it is ready.
FlashWrite(polls) == <<"buffer", "plain">> \o [i \in 1 .. polls |-> "plain"]

FlashCall ==
  /\ pc["main"] = "idle" /\ spent.flash < MaxFlash
  /\ ops' \in {FlashRead} \cup {FlashWrite(polls) : polls \in 1 .. MaxPolls}
  /\ spent' = [spent EXCEPT !.flash = @ + 1]
  /\ Goto("main", "flash")
  /\ UNCHANGED <<kernel, lines, cmd, out, in, pipeOpen, chip>>

\* flash_write_buffer selects the chip before it has the bus.
BufferSelect ==
  /\ pc["main"] = "flash" /\ Head(ops) = "buffer"
  /\ selected' = TRUE
  /\ Goto("main", "flash_lock")
  /\ UNCHANGED <<kernel, reqn, locals, pipeOpen, world>>

FlashLock ==
  /\ \/ pc["main"] = "flash_lock"
     \/ pc["main"] = "flash" /\ Head(ops) = "plain"
  /\ BusTake
  /\ selected' = TRUE
  /\ Goto("main", "flash_xfer")
  /\ UNCHANGED <<ready, credits, queue, reqn, locals, pipeOpen, world>>

FlashDeselect ==
  /\ pc["main"] = "flash_xfer"
  /\ selected' = FALSE
  /\ Goto("main", "flash_unlock")
  /\ UNCHANGED <<kernel, reqn, locals, pipeOpen, world>>

SlipFlashUnlock ==              \* unlocks after the last access only
  /\ pc["main"] = "flash_unlock"
  /\ ops' = Tail(ops)
  /\ bus' = IF ops' = <<>> THEN 1 ELSE bus
  /\ Goto("main", IF ops' = <<>> THEN "idle" ELSE "flash")
  /\ UNCHANGED <<ready, credits, queue, lines, cmd, out, in, pipeOpen, world>>

FlashUnlock ==
  /\ pc["main"] = "flash_unlock" /\ BusGive
  /\ ops' = Tail(ops)
  /\ Goto("main", IF ops' = <<>> THEN "idle" ELSE "flash")
  /\ UNCHANGED <<ready, credits, queue, lines, cmd, out, in, pipeOpen, world>>

Main ==
  \/ Transmit \/ TakeCredit \/ Send("main")
  \/ FlashCall \/ BufferSelect \/ FlashLock \/ FlashDeselect \/ FlashUnlock

-----------------------------------------------------------------------------
(* The ble task: the loop of task_ble.                                     *)

TakeReady ==
  /\ pc["ble"] = "wait" /\ ready = 1
  /\ ready' = 0
  /\ Goto("ble", "receive")
  /\ UNCHANGED <<bus, credits, queue, lines, locals, pipeOpen, world>>

\* The sender of a queued command is relied on to have locked the bus.
ReceiveCommand ==
  /\ pc["ble"] = "receive" /\ queue # <<>>
  /\ out' = Head(queue) /\ queue' = Tail(queue)
  /\ Goto("ble", "begin")
  /\ UNCHANGED <<bus, ready, credits, lines, cmd, ops, in, pipeOpen, world>>

SlipReceiveNothing ==           \* without the lock
  /\ pc["ble"] = "receive" /\ queue = <<>>
  /\ out' = None
  /\ Goto("ble", "begin")
  /\ UNCHANGED <<kernel, lines, cmd, ops, in, pipeOpen, world>>

ReceiveNothing ==
  /\ pc["ble"] = "receive" /\ queue = <<>>
  /\ out' = None
  /\ Goto("ble", "lock_null")
  /\ UNCHANGED <<kernel, lines, cmd, ops, in, pipeOpen, world>>

LockNull ==
  /\ pc["ble"] = "lock_null" /\ BusTake
  /\ Goto("ble", "begin")
  /\ UNCHANGED <<ready, credits, queue, lines, locals, pipeOpen, world>>

ExchangeBegin ==
  /\ pc["ble"] = "begin"
  /\ reqn' = TRUE
  /\ Goto("ble", "transfer")
  /\ UNCHANGED <<kernel, selected, locals, pipeOpen, world>>

(* The radio's answer to a command.  It is asked for by each of the setup  *)
(* messages but the last, connects when told to, and takes data when it is *)
(* connected, the pipe is open and a buffer is free; it does not give back *)
(* the credit of data it refuses.                                          *)
Tells(c, event) == [c EXCEPT !.events = Append(@, event)]

Configured(c, mode) == [c EXCEPT !.setup = @ + 1, !.mode = mode]

AnswerSetup(c) ==
  IF c.setup + 1 < SetupMessages
  THEN Tells(Configured(c, c.mode), "continue")
  ELSE IF c.setup + 1 = SetupMessages
       THEN Tells(Tells(Configured(c, "standby"), "response"), "started_standby")
       ELSE Tells(c, "response")

AnswerConnect(c) ==
  Tells([c EXCEPT !.mode = IF @ = "standby" THEN "advertising" ELSE @], "response")

AnswerData(c) ==
  IF c.mode = "connected" /\ c.pipe /\ c.used < ChipCredits
  THEN [c EXCEPT !.used = @ + 1]
  ELSE Tells([c EXCEPT !.refused = @ + 1], "pipe_error")

Answer(c) ==
  CASE c.received = None      -> c
    [] c.received = "setup"   -> AnswerSetup(c)
    [] c.received = "connect" -> AnswerConnect(c)
    [] c.received = "data"    -> AnswerData(c)

\* The radio hands over its oldest event while it takes the command.
Delivered == [chip EXCEPT !.received = out, !.rdyn = FALSE,
                          !.events = IF @ = <<>> THEN <<>> ELSE Tail(@)]

ExchangeEnd ==
  /\ pc["ble"] = "transfer"
  /\ in' = IF chip.events = <<>> THEN None ELSE Head(chip.events)
  /\ chip' = Answer(Delivered)
  /\ reqn' = FALSE
  /\ Goto("ble", "unlock")
  /\ UNCHANGED <<kernel, selected, cmd, ops, out, pipeOpen, spent>>

SlipUnlock ==                   \* drops an interrupt that came meanwhile
  /\ pc["ble"] = "unlock" /\ BusGive
  /\ ready' = 0
  /\ Goto("ble", IF in = None THEN "wait" ELSE "handle")
  /\ UNCHANGED <<credits, queue, lines, locals, pipeOpen, world>>

SlipUnlockAnswered ==           \* leaves early when there is no event
  /\ pc["ble"] = "unlock"
  /\ bus' = IF in = None THEN bus ELSE 1
  /\ Goto("ble", IF in = None THEN "wait" ELSE "handle")
  /\ UNCHANGED <<ready, credits, queue, lines, locals, pipeOpen, world>>

Unlock ==
  /\ pc["ble"] = "unlock" /\ BusGive
  /\ Goto("ble", IF in = None THEN "wait" ELSE "handle")
  /\ UNCHANGED <<ready, credits, queue, lines, locals, pipeOpen, world>>

-----------------------------------------------------------------------------
(* nrf8001_handle_event.  What it puts into the main queue is not modelled *)
(* here: it does not wait for room.                                        *)

Handles(events) == pc["ble"] = "handle" /\ in \in events

HandleSending(events, command) ==
  /\ Handles(events)
  /\ cmd' = [cmd EXCEPT !["ble"] = command]
  /\ Goto("ble", "queue")
  /\ UNCHANGED <<kernel, lines, ops, out, in, pipeOpen, world>>

SlipHandleSetup == HandleSending({"started_setup"}, "setup")

HandleSetup == HandleSending({"started_setup", "continue"}, "setup")

HandleConnect == HandleSending({"started_standby", "disconnected"}, "connect")

\* The count the radio starts with, less what the semaphore already holds.
Missing == IF ChipCredits > credits THEN ChipCredits - credits ELSE 0

SlipTopUp ==                    \* without looking at what is there
  /\ pc["ble"] = "top_up"
  /\ GiveCredits(ChipCredits)
  /\ UNCHANGED <<bus, ready, queue, lines, locals, pipeOpen, world>>

TopUp ==
  /\ pc["ble"] = "top_up"
  /\ GiveCredits(Missing)
  /\ UNCHANGED <<bus, ready, queue, lines, locals, pipeOpen, world>>

HandleCredit ==
  /\ Handles({"credit"})
  /\ GiveCredits(1)
  /\ UNCHANGED <<bus, ready, queue, lines, locals, pipeOpen, world>>

HandlePipes ==
  /\ Handles({"opened", "closed"})
  /\ pipeOpen' = (in = "opened")
  /\ Goto("ble", "wait")
  /\ UNCHANGED <<kernel, lines, locals, world>>

HandleQuiet ==
  /\ Handles(Quiet)
  /\ Goto("ble", "wait")
  /\ UNCHANGED <<kernel, lines, locals, pipeOpen, world>>

\* The default case, assert(0): an endless loop.
HandleUnknown ==
  /\ Handles({"pipe_error"})
  /\ Goto("ble", "halted")
  /\ UNCHANGED <<kernel, lines, locals, pipeOpen, world>>

Ble ==
  \/ TakeReady \/ ReceiveCommand \/ ReceiveNothing \/ LockNull
  \/ ExchangeBegin \/ ExchangeEnd \/ Unlock
  \/ HandleSetup \/ HandleConnect \/ TopUp \/ HandleCredit \/ HandlePipes
  \/ HandleQuiet \/ HandleUnknown
  \/ Send("ble")

-----------------------------------------------------------------------------
(* The radio.  It lowers RDYN when it has an event to deliver or when an   *)
(* exchange is asked for, and the falling edge interrupts the processor:   *)
(* nrf8001_isr gives the semaphore.                                        *)

RadioReady ==
  /\ ~chip.rdyn /\ (chip.events # <<>> \/ reqn)
  /\ chip' = [chip EXCEPT !.rdyn = TRUE]
  /\ ready' = 1
  /\ UNCHANGED <<pc, bus, credits, queue, lines, locals, pipeOpen, spent>>

RadioBecomes(c) ==
  /\ chip' = c
  /\ UNCHANGED <<pc, kernel, lines, locals, pipeOpen>>

RadioConnects ==
  /\ chip.mode = "advertising"
  /\ RadioBecomes(Tells(Tells([chip EXCEPT !.mode = "connected", !.pipe = TRUE],
                               "connected"), "opened"))
  /\ UNCHANGED spent

RadioSends ==
  /\ chip.used > 0
  /\ RadioBecomes(Tells([chip EXCEPT !.used = @ - 1], "credit"))
  /\ UNCHANGED spent

\* The client writes to a pipe, or unsubscribes and subscribes again.
RadioNotices ==
  /\ chip.mode = "connected" /\ spent.notices < MaxNotices
  /\ \/ RadioBecomes(Tells(chip, "data_received"))
     \/ \E open \in BOOLEAN :
          RadioBecomes(Tells([chip EXCEPT !.pipe = open], IF open THEN "opened" ELSE "closed"))
  /\ spent' = [spent EXCEPT !.notices = @ + 1]

\* What the radio had not sent is gone, and so is the credit for it.
RadioDrops ==
  /\ chip.mode = "connected" /\ spent.drops < MaxDrops
  /\ RadioBecomes(Tells([chip EXCEPT !.mode = "standby", !.used = 0, !.pipe = FALSE],
                         "disconnected"))
  /\ spent' = [spent EXCEPT !.drops = @ + 1]

Radio == RadioReady \/ RadioConnects \/ RadioSends \/ RadioNotices \/ RadioDrops

-----------------------------------------------------------------------------
\* config_globals, config_ble_task and config_nrf8001, which resets the radio.
\* The radio after its reset: it announces that it waits for the setup.
config_nrf8001 ==
  /\ reqn = FALSE
  /\ chip = [mode |-> "setup", rdyn |-> FALSE, setup |-> 0, used |-> 0,
             pipe |-> FALSE, refused |-> 0, received |-> None, events |-> <<"started_setup">>]

Init ==
  /\ bus = 1 /\ ready = 0 /\ credits = 0 /\ queue = <<>>
  /\ config_nrf8001 /\ selected = FALSE
  /\ pipeOpen = FALSE
  /\ pc = [task \in Task |-> IF task = "main" THEN "idle" ELSE "wait"]
  /\ cmd = [task \in Task |-> IF task = "main" THEN "data" ELSE "setup"]
  /\ ops = <<>> /\ out = None /\ in = None
  /\ spent = [transmits |-> 0, flash |-> 0, notices |-> 0, drops |-> 0]

Next == Main \/ Ble \/ Radio

Spec == Init /\ [][Next]_vars

(* Each task runs on while it can: the tick lets the other one in.  A      *)
(* waiter for the bus competes with the one who gives it, which is why     *)
(* only the bounded number of flash operations makes weak fairness enough. *)
(* A client connects in the end, and the radio sends what it took.         *)
Fairness ==
  /\ WF_vars(Main /\ pc["main"] # "idle")
  /\ WF_vars(Ble)
  /\ WF_vars(RadioReady)
  /\ WF_vars(RadioConnects)
  /\ WF_vars(RadioSends)

FairSpec == Spec /\ Fairness

-----------------------------------------------------------------------------
(* What the link must keep.                                                *)

One(condition) == IF condition THEN 1 ELSE 0

(* Who is on the bus: the main task between lock and unlock of an access to *)
(* the flash chip, the ble task from the lock to the unlock around an       *)
(* exchange, its own or the one made by the sender of the command.          *)
MainHolds == pc["main"] \in {"flash_xfer", "flash_unlock"}
BleHolds  == pc["ble"] \in {"begin", "transfer", "unlock"}

(* An exchange with the radio never meets an access to the flash chip, and  *)
(* the bus is taken for it, but for one case: the ble task may be faster    *)
(* than the main task, which has queued the command and not yet locked      *)
(* (nrf8001_exchange_cmds and the assumption stated above it, ble_send_cmd, *)
(* flash_read and flash_write_buffer on the same lock).                     *)
ExchangeOwnsBus ==
  BleHolds => ~MainHolds /\ (bus = 0 \/ pc["main"] = "lock")

(* Why: a flash access holds the lock, and for every command that waits or  *)
(* is being exchanged the lock is taken by somebody else than the flash     *)
(* driver, or its sender has yet to take it.  With two senders the lock can *)
(* be taken and no command be there (the two must not both wait for it, see *)
(* EventsAnswered), but never the other way round.                          *)
BusOwned ==
  /\ MainHolds => bus = 0
  /\ Len(queue) + One(BleHolds)
       <= One(bus = 0 /\ ~MainHolds) + One(pc["main"] = "lock") + One(pc["ble"] = "lock")

(* While bytes go to the radio the flash chip does not listen: both hang on *)
(* the bus that port_locks protects (flash_write_buffer, flash_read).  It   *)
(* does not hold, and no run checks it: flash_write_buffer selects first.   *)
FlashDeselected == pc["ble"] = "transfer" => ~selected

(* An interrupt is never lost: as long as RDYN is low, its semaphore is     *)
(* given or the ble task is on its way to the exchange that raises RDYN     *)
(* (nrf8001_isr against the loop of task_ble).                              *)
ReadyNotLost ==
  chip.rdyn => \/ ready = 1
               \/ pc["ble"] \in {"receive", "lock_null", "begin", "transfer"}

Count(seq, x) == Cardinality({i \in DOMAIN seq : seq[i] = x})

CreditsAnywhere ==
  credits + Count(queue, "data") + chip.used + Count(chip.events, "credit")
  + One(pc["main"] = "queue")
  + One(pc["ble"] \in {"begin", "transfer"} /\ out = "data")
  + One(pc["ble"] \in {"unlock", "handle"} /\ in = "credit")

\* With those that went with the data the radio refused.
CreditsAccounted == CreditsAnywhere + chip.refused

(* No credit appears or vanishes: those in the semaphore, those spent on    *)
(* data on its way to the radio, those for data the radio has not sent,     *)
(* those on their way back and those the radio kept with refused data are   *)
(* never more than what the radio gave, and just that many until a          *)
(* connection is lost (ble_tx_helper, the top-up).  So long it refuses data *)
(* only after the client has changed a pipe, and if it refuses none, no     *)
(* assertion of nrf8001_got_credits or nrf8001_handle_event fails: data     *)
(* reaches the radio only with a credit for it, and the semaphore has room  *)
(* for every credit that comes back.                                        *)
CreditsConserved ==
  /\ CreditsAccounted <= ChipCredits
  /\ spent.drops = 0 =>
       /\ chip.mode = "connected" => CreditsAccounted = ChipCredits
       /\ spent.notices = 0 => chip.refused = 0
       /\ chip.refused = 0 => pc["ble"] # "halted"

(* No assertion of nrf8001_handle_event or nrf8001_got_credits fails: every *)
(* event is one the driver knows, no credit is one too many.  It does not   *)
(* hold once a client closed a pipe data was waiting for, or a connection   *)
(* was lost, and no run checks it.                                          *)
NeverHalts == pc["ble"] # "halted"

(* Setup runs to its end and a client gets its connection, also after the   *)
(* connection was lost (the chain of commands sent from the handler).       *)
Connects == []<>(chip.mode = "connected")

(* Whenever the radio pulls RDYN low the ble task exchanges with it in the  *)
(* end (task_ble: "nothing but send and receive messages").                 *)
EventsAnswered == chip.rdyn ~> ~chip.rdyn

(* The main task is never left waiting by the bus or by a full queue: what  *)
(* it started it finishes (ble_tx_helper, flash_read, flash_write).         *)
MainReturns == pc["main"] # "idle" ~> pc["main"] = "idle"
=============================================================================
