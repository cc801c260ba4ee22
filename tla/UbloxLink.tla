------------------------------ MODULE UbloxLink ------------------------------
(***************************************************************************)
(* The link to the u-blox GPS receiver.  The receive interrupt             *)
(* (ublox_isr.c) parses the bytes of a message into the only buffer there  *)
(* is and announces a whole message at the front of the queue of the GPS   *)
(* task; the task (task_gps.c, ublox.c) sets the receiver up, takes        *)
(* commands from the same queue and reads messages out of the buffer while *)
(* the interrupt may already fill it again.                                *)
(*                                                                         *)
(* The interrupt is modelled byte by byte.  A byte has Base values, which  *)
(* a run makes few: lengths, checksums and the two sync bytes, which may   *)
(* turn up anywhere, keep their arithmetic.  read_offset, which nobody     *)
(* reads, is left out.                                                     *)
(*                                                                         *)
(* As in BufferedIO, a definition named Slip... is a plausible mistake in  *)
(* the one that follows it, which the properties must notice.              *)
(***************************************************************************)
EXTENDS Integers, Sequences

CONSTANTS Base,           \* values of a byte, 256
          Sync1, Sync2,   \* UBX_SYNC_BYTE_1 and _2
          Word,           \* values of the counter `remaining`, 2^16
          BufferLen,      \* USART_ISR_BUFFER_LEN
          QueueLength,    \* of the queue of the GPS task
          MaxRetries,     \* MAX_RETRIES
          PointerSize,    \* sizeof(config) in ublox_update_port_settings
          Kind,           \* the messages of the receiver
          ClassId, Body,  \* their class and id, and their content
          MaxReports,     \* bound: messages the receiver sends unasked
          MaxCommands,    \* bound: commands of the main task
          MaxNoise        \* bound: bytes lost or changed on the wire

Byte == 0 .. Base - 1

ASSUME WireAssumption ==
  /\ Base \in Nat /\ {Sync1, Sync2} \subseteq Byte /\ Sync1 # Sync2
  /\ Word \in Nat /\ Base * Base <= Word
  /\ BufferLen \in Nat /\ BufferLen > 4 /\ BufferLen < Base * Base
  /\ {QueueLength, MaxRetries, PointerSize} \subseteq Nat \ {0}
  /\ {MaxReports, MaxCommands, MaxNoise} \subseteq Nat

ASSUME MessageAssumption ==
  /\ {"prt", "ver", "ack", "pvt"} \subseteq Kind
  /\ ClassId \in [Kind -> Byte \X Byte]
  /\ \A k \in Kind : Body[k] \in Seq(Byte) /\ Len(Body[k]) \in 1 .. Base * Base - 1

VARIABLES
  isr,        \* g.usart_isr_state
  gpsq,       \* g.gps_queue_g
  at,         \* where the GPS task is
  tries,      \* attempts left of ublox_expect_response or ublox_init
  running,    \* ubx_state.state = RUN
  position,   \* evt.payload.gps_sample: the body of the last position
  main,       \* room in the main queue, and the command the main task waits to give
  wire,       \* what is left of the message on the wire
  receiver,   \* the receiver: answers it owes, whether it reports positions
  sending,    \* history: the message on the wire
  stored,     \* history: the message last announced
  accepted,   \* history: the number of messages announced
  offered,    \* history: the number of messages sent that fit
  verified,   \* history: nothing was written to the buffer since
  torn,       \* history: the message the task reads was written over
  spent       \* how much of each bound is used up

taskvars == <<at, tries, running, position>>
wirevars == <<wire, sending, offered>>
history  == <<stored, accepted, verified, torn>>
vars == <<isr, gpsq, taskvars, main, wirevars, receiver, history, spent>>

None == "none"
Header == {"waiting", "sync1", "sync2"}     \* nothing stored yet
ParserState == Header \cup {"class", "id", "lsb_len", "reading", "ck1", "ck2"}
Boot == {"reset", "poll", "expect", "match", "port", "ping", "pong", "version"}
Reading == {"classify", "check", "copy"}

TypeOK ==
  /\ isr \in [state : ParserState, buffer : [0 .. BufferLen - 1 -> Byte],
              write : 0 .. BufferLen, remaining : 0 .. Word - 1, ck : Byte \X Byte]
  /\ gpsq \in Seq({"waiting", "start", "sleep"}) /\ Len(gpsq) <= QueueLength
  /\ at \in Boot \cup Reading \cup {"serve", "send", "halted"}
  /\ tries \in 0 .. MaxRetries
  /\ running \in BOOLEAN
  /\ position \in Seq(Byte)
  /\ main \in [room : BOOLEAN, command : {"start", "sleep", None}]
  /\ wire \in Seq(Byte)
  /\ receiver \in [owed : Seq(Kind), reports : BOOLEAN]
  /\ {sending, stored} \subseteq Kind \cup {None}
  /\ accepted \in Nat /\ offered \in Nat
  /\ verified \in BOOLEAN /\ torn \in BOOLEAN
  /\ spent \in [reports : 0 .. MaxReports, commands : 0 .. MaxCommands, noise : 0 .. MaxNoise]

-----------------------------------------------------------------------------
(* The format of a message.                                                *)

\* One step of the checksum; calculateCheckSum goes over a buffer with it.
Fletcher(ck, byte) ==
  LET a == (ck[1] + byte) % Base
  IN  <<a, (ck[2] + a) % Base>>

CheckSum(bytes) ==
  LET sum[i \in 0 .. Len(bytes)] == IF i = 0 THEN <<0, 0>> ELSE Fletcher(sum[i - 1], bytes[i])
  IN  sum[Len(bytes)]

Content(k) ==
  <<ClassId[k][1], ClassId[k][2], Len(Body[k]) % Base, Len(Body[k]) \div Base>> \o Body[k]

\* What ublox_send puts on the line, and the receiver too.
Message(k) == <<Sync1, Sync2>> \o Content(k) \o CheckSum(Content(k))

Fits(k) == Len(Body[k]) <= BufferLen

\* What comes behind the length, and whether the parser can take some of it for
\* the beginning of a message.
Rest(k) == Body[k] \o CheckSum(Content(k))
LooksLikeSync(bytes) ==
  \E i \in DOMAIN bytes : bytes[i] = Sync1 /\ (i = Len(bytes) \/ bytes[i + 1] = Sync2)

(* Its class and id tell a position from all other messages.  What is longer *)
(* than the buffer is text (the answer about the version), without a sync    *)
(* byte: the parser has given it up and looks for one.                       *)
ASSUME ContentAssumption ==
  /\ \A k \in Kind : ClassId[k] = ClassId["pvt"] => k = "pvt"
  /\ \A k \in Kind : ~Fits(k) => ~LooksLikeSync(Rest(k))

-----------------------------------------------------------------------------
(* usart1_isr, one byte at a time.                                         *)

\* The tail of the handler: the running checksum, and the byte if there is room.
Saved(s, byte) ==
  [s EXCEPT !.ck = Fletcher(@, byte),
            !.buffer = IF s.write < BufferLen THEN [@ EXCEPT ![s.write] = byte] ELSE @,
            !.write = IF @ < BufferLen THEN @ + 1 ELSE @]

Quietly == UNCHANGED <<gpsq, stored, accepted, verified, torn>>

\* A byte of a message is stored: what the task reads now is not what it was told of.
Writes ==
  /\ verified' = FALSE
  /\ torn' = (torn \/ at \in Reading)
  /\ UNCHANGED <<gpsq, stored, accepted>>

TakeSync(byte) ==
  /\ isr.state \in {"waiting", "sync1"}
  /\ isr' = [isr EXCEPT !.state =
               IF isr.state = "waiting" THEN (IF byte = Sync1 THEN "sync1" ELSE "waiting")
               ELSE IF byte = Sync2 THEN "sync2" ELSE "waiting"]
  /\ Quietly

SlipTakeClass(byte) ==          \* goes on with the checksum of the last message
  /\ isr.state = "sync2"
  /\ isr' = Saved([isr EXCEPT !.state = "class", !.write = 0], byte)
  /\ Writes

TakeClass(byte) ==
  /\ isr.state = "sync2"
  /\ isr' = Saved([isr EXCEPT !.state = "class", !.ck = <<0, 0>>, !.write = 0], byte)
  /\ Writes

TakeId(byte) ==
  /\ isr.state = "class"
  /\ isr' = Saved([isr EXCEPT !.state = "id"], byte)
  /\ Writes

TakeLsb(byte) ==
  /\ isr.state = "id"
  /\ isr' = Saved([isr EXCEPT !.state = "lsb_len", !.remaining = byte], byte)
  /\ Writes

SlipTakeMsb(byte) ==            \* reads what the buffer cannot hold
  /\ isr.state = "lsb_len"
  /\ isr' = Saved([isr EXCEPT !.state = "reading", !.remaining = @ + byte * Base], byte)
  /\ Writes

\* A message longer than the buffer is given up.
TakeMsb(byte) ==
  /\ isr.state = "lsb_len"
  /\ LET length == isr.remaining + byte * Base
     IN  IF length > BufferLen
         THEN isr' = [isr EXCEPT !.state = "waiting", !.remaining = length] /\ Quietly
         ELSE isr' = Saved([isr EXCEPT !.state = "reading", !.remaining = length], byte)
              /\ Writes

SlipTakeBody(byte) ==           \* counts after the test: one byte too many
  /\ isr.state = "reading"
  /\ isr' = Saved([isr EXCEPT !.remaining = (@ - 1) % Word,
                              !.state = IF isr.remaining = 0 THEN "ck1" ELSE @], byte)
  /\ Writes

\* An unsigned counter: from zero it goes to the other end.
TakeBody(byte) ==
  /\ isr.state = "reading"
  /\ LET left == (isr.remaining - 1) % Word
     IN  isr' = Saved([isr EXCEPT !.remaining = left,
                                  !.state = IF left = 0 THEN "ck1" ELSE @], byte)
  /\ Writes

TakeCk1(byte) ==
  /\ isr.state = "ck1"
  /\ isr' = [isr EXCEPT !.state = IF isr.ck[1] = byte THEN "ck2" ELSE "waiting"]
  /\ Quietly

\* In front of the commands; lost, without a trace, when the queue is full.
Announced == IF Len(gpsq) < QueueLength THEN <<"waiting">> \o gpsq ELSE gpsq

TakeCk2(byte) ==
  /\ isr.state = "ck2"
  /\ isr' = [isr EXCEPT !.state = "waiting"]
  /\ IF isr.ck[2] = byte
     THEN /\ gpsq' = Announced
          /\ stored' = sending /\ accepted' = accepted + 1 /\ verified' = TRUE
          /\ UNCHANGED torn
     ELSE Quietly

Interrupt(byte) ==
  \/ TakeSync(byte) \/ TakeClass(byte) \/ TakeId(byte) \/ TakeLsb(byte) \/ TakeMsb(byte)
  \/ TakeBody(byte) \/ TakeCk1(byte) \/ TakeCk2(byte)

-----------------------------------------------------------------------------
(* The wire and the receiver.                                              *)

ByteArrives ==
  /\ wire # <<>>
  /\ Interrupt(Head(wire))
  /\ wire' = Tail(wire)
  /\ UNCHANGED <<taskvars, main, sending, offered, receiver, spent>>

Noise == spent.noise < MaxNoise /\ spent' = [spent EXCEPT !.noise = @ + 1]

\* An overrun or a framing error: the interrupt has nothing to read.
ByteLost ==
  /\ wire # <<>> /\ Noise
  /\ wire' = Tail(wire)
  /\ UNCHANGED <<isr, gpsq, taskvars, main, sending, offered, receiver, history>>

ByteChanged ==
  /\ wire # <<>> /\ Noise
  /\ \E byte \in Byte \ {Head(wire)} : Interrupt(byte)
  /\ wire' = Tail(wire)
  /\ UNCHANGED <<taskvars, main, sending, offered, receiver>>

Begins(k) ==
  /\ wire = <<>>
  /\ wire' = Message(k)
  /\ sending' = k
  /\ offered' = IF Fits(k) THEN offered + 1 ELSE offered

ReceiverAnswers ==
  /\ receiver.owed # <<>>
  /\ Begins(Head(receiver.owed))
  /\ receiver' = [receiver EXCEPT !.owed = Tail(@)]
  /\ UNCHANGED <<isr, gpsq, taskvars, main, history, spent>>

ReceiverReports ==
  /\ receiver.reports /\ spent.reports < MaxReports
  /\ \E k \in Kind \ {"prt", "ver", "ack"} : Begins(k)
  /\ spent' = [spent EXCEPT !.reports = @ + 1]
  /\ UNCHANGED <<isr, gpsq, taskvars, main, receiver, history>>

Wire == ByteArrives \/ ByteLost \/ ByteChanged \/ ReceiverAnswers \/ ReceiverReports

-----------------------------------------------------------------------------
(* The driver.  A request makes the receiver owe an answer.                *)

Owes(r, answers) == [r EXCEPT !.owed = @ \o answers]

\* A changed setting is acknowledged, a reset is not.
ublox_set_measuring_rate(r) == Owes(r, <<"ack">>)
ublox_start_updates(r) == [Owes(r, <<"ack">>) EXCEPT !.reports = TRUE]
ublox_reset(r, mode) == IF mode = "stop" THEN [r EXCEPT !.reports = FALSE] ELSE r
ublox_sleep(r) == ublox_reset(r, "stop")

BufferIs(k) == <<isr.buffer[0], isr.buffer[1]>> = ClassId[k]
Length == isr.buffer[2] + isr.buffer[3] * Base      \* head->length
Payload == [i \in 1 .. BufferLen - 4 |-> isr.buffer[i + 3]]

Goto(place) == at' = place

\* ublox_wait_for_message: peeks until a message is in front, then takes it.
Receives ==
  /\ gpsq # <<>> /\ Head(gpsq) = "waiting"
  /\ gpsq' = Tail(gpsq)

ResetReceiver ==
  /\ at = "reset" /\ Goto("poll")
  /\ receiver' = ublox_reset(receiver, "controlled")
  /\ UNCHANGED <<isr, gpsq, tries, running, position, main, wirevars, history, spent>>

PollPort ==
  /\ at = "poll" /\ Goto("expect")
  /\ receiver' = Owes(receiver, <<"prt">>) /\ tries' = MaxRetries
  /\ UNCHANGED <<isr, gpsq, running, position, main, wirevars, history, spent>>

Expect ==
  /\ at = "expect" /\ Receives
  /\ tries' = tries - 1
  /\ Goto("match")
  /\ UNCHANGED <<isr, running, position, main, wirevars, receiver, history, spent>>

\* After the last attempt the message is taken for the answer, whatever it is.
Match ==
  /\ at = "match"
  /\ Goto(IF BufferIs("prt") \/ tries = 0 THEN "port" ELSE "expect")
  /\ UNCHANGED <<isr, gpsq, tries, running, position, main, wirevars, receiver, history, spent>>

\* The length is compared with the size of a pointer: ublox_init gives up.
PortRefused ==
  /\ at = "port" /\ Length # PointerSize
  /\ Goto("serve")
  /\ UNCHANGED <<isr, gpsq, tries, running, position, main, wirevars, receiver, history, spent>>

\* The new settings are written into the receive buffer and sent from there.
PortSet ==
  /\ at = "port" /\ Length = PointerSize
  /\ isr' = [isr EXCEPT !.buffer[4] = (@ + 1) % Base]
  /\ receiver' = Owes(receiver, <<"ack">>) /\ tries' = MaxRetries
  /\ Goto("ping")
  /\ UNCHANGED <<gpsq, running, position, main, wirevars, history, spent>>

Ping ==
  /\ at = "ping" /\ Goto("pong")
  /\ receiver' = Owes(receiver, <<"ver">>) /\ tries' = tries - 1
  /\ UNCHANGED <<isr, gpsq, running, position, main, wirevars, history, spent>>

Pong ==
  /\ at = "pong" /\ Receives
  /\ Goto("version")
  /\ UNCHANGED <<isr, tries, running, position, main, wirevars, receiver, history, spent>>

Version ==
  /\ at = "version"
  /\ Goto(IF BufferIs("ver") \/ tries = 0 THEN "serve" ELSE "ping")
  /\ UNCHANGED <<isr, gpsq, tries, running, position, main, wirevars, receiver, history, spent>>

Setup == ResetReceiver \/ PollPort \/ Expect \/ Match \/ PortRefused \/ PortSet
         \/ Ping \/ Pong \/ Version

-----------------------------------------------------------------------------
(* task_gps: commands, and handle_ubx_message.                             *)

Serves(event) == at = "serve" /\ gpsq # <<>> /\ Head(gpsq) = event /\ gpsq' = Tail(gpsq)

\* Rate, start and updates: two of the three requests are acknowledged.
Start ==
  /\ Serves("start")
  /\ running' = TRUE
  /\ receiver' = IF running THEN receiver
                 ELSE ublox_start_updates(
                        ublox_reset(ublox_set_measuring_rate(receiver), "start"))
  /\ UNCHANGED <<isr, at, tries, position, main, wirevars, history, spent>>

Sleep ==
  /\ Serves("sleep")
  /\ running' = FALSE
  /\ receiver' = IF running THEN ublox_sleep(receiver) ELSE receiver
  /\ UNCHANGED <<isr, at, tries, position, main, wirevars, history, spent>>

SlipTake ==                     \* peeks, as ublox_wait_for_message does
  /\ at = "serve" /\ gpsq # <<>> /\ Head(gpsq) = "waiting"
  /\ Goto("classify")
  /\ torn' = ~verified
  /\ UNCHANGED <<isr, gpsq, tries, running, position, main, wirevars, receiver, stored, accepted,
                 verified, spent>>

Take ==
  /\ Serves("waiting")
  /\ Goto("classify")
  /\ torn' = ~verified
  /\ UNCHANGED <<isr, tries, running, position, main, wirevars, receiver, stored, accepted,
                 verified, spent>>

\* Acknowledgements change nothing: waiting_for_ack is never set.
Classify ==
  /\ at = "classify"
  /\ Goto(IF BufferIs("pvt") /\ running THEN "check" ELSE "serve")
  /\ UNCHANGED <<isr, gpsq, tries, running, position, main, wirevars, receiver, history, spent>>

\* assert(sizeof(*body) == head->length)
Check ==
  /\ at = "check"
  /\ Goto(IF Length = Len(Body["pvt"]) THEN "copy" ELSE "halted")
  /\ UNCHANGED <<isr, gpsq, tries, running, position, main, wirevars, receiver, history, spent>>

\* Into a local: from here on the buffer may change.  The main queue may be full.
Copy ==
  /\ at = "copy"
  /\ position' = SubSeq(Payload, 1, Len(Body["pvt"]))
  /\ \E room \in BOOLEAN : main' = [main EXCEPT !.room = room]
  /\ Goto("send")
  /\ UNCHANGED <<isr, gpsq, tries, running, wirevars, receiver, history, spent>>

\* xQueueSend to the main queue, which waits for room as long as it takes.
SendPosition ==
  /\ at = "send" /\ main.room
  /\ Goto("serve")
  /\ UNCHANGED <<isr, gpsq, tries, running, position, main, wirevars, receiver, history, spent>>

Task == Setup \/ Start \/ Sleep \/ Take \/ Classify \/ Check \/ Copy \/ SendPosition

-----------------------------------------------------------------------------
(* The main task, as the GPS task knows it: a queue, whose room matters when *)
(* a position is to be sent, and gps_start and gps_stop, which wait for room *)
(* in this one.  While it waits there it takes nothing out of its own queue. *)
Commands ==
  /\ main.command = None /\ spent.commands < MaxCommands
  /\ \E event \in {"start", "sleep"} : main' = [main EXCEPT !.command = event]
  /\ spent' = [spent EXCEPT !.commands = @ + 1]
  /\ UNCHANGED <<isr, gpsq, taskvars, wirevars, receiver, history>>

Command ==
  /\ main.command # None /\ Len(gpsq) < QueueLength
  /\ gpsq' = Append(gpsq, main.command)
  /\ main' = [main EXCEPT !.command = None]
  /\ UNCHANGED <<isr, taskvars, wirevars, receiver, history, spent>>

MainTakes ==
  /\ ~main.room /\ main.command = None
  /\ main' = [main EXCEPT !.room = TRUE]
  /\ UNCHANGED <<isr, gpsq, taskvars, wirevars, receiver, history, spent>>

Main == Commands \/ Command \/ MainTakes

-----------------------------------------------------------------------------
\* arch_enable_usart_interrupt: all zero, and the interrupt is on.
IsrReset == [state |-> "waiting", buffer |-> [i \in 0 .. BufferLen - 1 |-> 0],
             write |-> 0, remaining |-> 0, ck |-> <<0, 0>>]

Init ==
  /\ isr = IsrReset
  /\ gpsq = <<>>
  /\ at = "reset" /\ tries = 0 /\ running = FALSE /\ position = <<>>
  /\ main = [room |-> TRUE, command |-> None]
  /\ wire = <<>>
  /\ receiver = [owed |-> <<>>, reports |-> FALSE]
  /\ sending = None /\ stored = None /\ accepted = 0 /\ offered = 0
  /\ verified = FALSE /\ torn = FALSE
  /\ spent = [reports |-> 0, commands |-> 0, noise |-> 0]

Next == Wire \/ Task \/ Main

Spec == Init /\ [][Next]_vars

(* The task runs when it can, the receiver answers what it is asked and     *)
(* bytes come out of the wire.  It need not report, nobody need command.    *)
(* The main task gives the command it began to give, and takes from its     *)
(* queue when it is not held up there, and the room is for who waited: what *)
(* else may hold the main task up, AeroTasks has.                           *)
FairSpec ==
  /\ Spec
  /\ WF_vars(Task) /\ WF_vars(ReceiverAnswers) /\ WF_vars(ByteArrives)
  /\ WF_vars(Command) /\ WF_vars(MainTakes)

-----------------------------------------------------------------------------
(* What the link promises.                                                 *)

Image(k) == SubSeq(Content(k), 1, IF Len(Content(k)) > BufferLen THEN BufferLen
                                  ELSE Len(Content(k)))
BufferHolds(k) == \A i \in DOMAIN Image(k) : isr.buffer[i - 1] = Image(k)[i]

(* On a clean wire every message that fits is announced, no other is, and   *)
(* until the next one begins the buffer holds the last one, cut off at its  *)
(* end (usart1_isr against ublox_send).  The task reads the message it was  *)
(* told of, a whole position for the main task, and no assertion fails,     *)
(* unless the interrupt has written to the buffer since (the TODO above     *)
(* usart1_isr).                                                             *)
ParsesEveryMessage ==
  spent.noise = 0 =>
    /\ wire = <<>> => accepted = offered /\ isr.state = "waiting"
    /\ verified /\ at \notin {"ping", "pong", "version"} => BufferHolds(stored)
    /\ ~torn => at # "halted" /\ (at \in {"check", "copy"} => BufferHolds("pvt"))

(* Whatever the noise, no more is read for a message than the buffer holds  *)
(* ("cap the message size", ublox_isr.c:87), with one exception: a length   *)
(* of zero, from which the counter goes to the other end.                   *)
ReadsWithinCap ==
  isr.state = "reading" =>
    isr.remaining \in 1 .. BufferLen \/ (isr.buffer[2] = 0 /\ isr.buffer[3] = 0)

Deaf == Len(gpsq) = QueueLength /\ Head(gpsq) # "waiting"

(* The setup of the receiver ends on a clean wire, unless commands fill the *)
(* queue before an answer is announced, which then never is: the task waits *)
(* in ublox_wait_for_message for good.                                      *)
SetupEnds == <>(at \notin Boot \/ spent.noise > 0 \/ Deaf)

\* The two tasks wait for room in each other's queue.
Cycle == at = "send" /\ ~main.room /\ main.command # None /\ Len(gpsq) = QueueLength

(* Every command is taken in the end, unless the task halts, waits for an   *)
(* announcement that was lost, or waits for room in the main queue while    *)
(* the main task waits for room in this one (the queue of task_gps, and     *)
(* the two sends without a limit, task_gps.c:121 and task_main.c:41).       *)
CommandsTaken ==
  LET taken == gpsq = <<>> /\ main.command = None
  IN  ~taken ~> (taken \/ at = "halted" \/ at \in Boot \/ Cycle)
=============================================================================
