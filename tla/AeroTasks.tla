------------------------------ MODULE AeroTasks ------------------------------
(***************************************************************************)
(* The tasks of the altimeter and the queues between them.  A position     *)
(* from the GPS task makes the main task ask the sensor task for samples;  *)
(* the samples come back one by one, the main task puts them together and  *)
(* logs and streams the packet.  Commands of a client reach the main task  *)
(* through the same queue, and the main task commands the GPS task.  See   *)
(* task_main.c, task_sensor.c, task_gps.c.                                 *)
(*                                                                         *)
(* A step ends at each operation that can block.  The ble task and the     *)
(* radio are one actor here, BleLink has their detail: a packet takes a    *)
(* credit, the radio gives it back, a lost connection keeps it; data for a *)
(* closed pipe or for no connection halts the ble task; and the main and   *)
(* the ble task can leave each other without the bus.  The ublox driver is *)
(* seen at its queue: UbloxLink has the bytes.                             *)
(*                                                                         *)
(* As in BufferedIO, a definition named Slip... is a plausible mistake in  *)
(* the one that follows it, which the properties must notice.              *)
(***************************************************************************)
EXTENDS Filter, Sequences

CONSTANTS MainLength, SensorLength, GpsLength,  \* CONFIG_TASK_..._QUEUE_LEN
          ChipCredits,  \* credits of the radio
          Commands,     \* the types of config_packet_s a client sends
          MaxMessages,  \* bound: messages of the GPS receiver
          MaxRequests,  \* bound: packets a client sends
          MaxChanges,   \* bound: (un)subscriptions of a client and lost connections
          MaxListed     \* bound: packets sent by one LIST or GET

AllCommands == {"setting", "start", "stop", "set_event", "format", "list", "get"}

ASSUME TasksAssumption ==
  /\ {MainLength, SensorLength, GpsLength, ChipCredits} \subseteq Nat \ {0}
  /\ Commands \subseteq AllCommands
  /\ {MaxMessages, MaxRequests, MaxChanges, MaxListed} \subseteq Nat

VARIABLES
  mainq, sensorq, gpsq,   \* g.main_queue_g, g.sensor_queue_g, g.gps_queue_g
  todo,       \* what the main task still has to do for the event it took
  packet,     \* the local sensors of task_main: which round each part is of
  session,    \* g.current_event_g.header.in_progress
  filter,     \* g.filter_state
  sensor,     \* where the sensor task is, and the request it serves
  gps,        \* where the GPS task is, and ubx_state.state
  pipes,      \* g.pipes_open, of the two pipes the firmware sends on
  link,       \* the radio and the ble task, as far as the main task depends on them
  recent,     \* history: the last values given to the filter
  missed,     \* history: the last request found no room in the sensor queue
  spent       \* how much of each bound is used up

queues  == <<mainq, sensorq, gpsq>>
mainvars == <<todo, packet, session, filter, recent, missed>>
world   == <<pipes, link, spent>>
vars    == <<queues, mainvars, sensor, gps, world>>

Pipe   == {"sensor", "config"}    \* kSensorPipe, kConfigPipeTx
Round  == 0 .. MaxMessages
Sample == {"gps", "baro", "accel", "complete"}
MainEvent == [kind : Sample, round : Round]
             \cup [kind : {"data"}, command : AllCommands] \cup [kind : {"pipes"}]
GpsEvent  == {"start", "sleep", "waiting"}
Send   == {"stream", "reply", "event"}
GpsSend == {"gps_start", "gps_sleep"}
\* What reads or writes the log: from the page buffer, or from the chip over the bus.
Storage == {"log_start", "log_end", "store", "list", "log"}
\* A pipe as work: a packet for it, which was found open.
Work   == Send \cup GpsSend \cup Storage \cup Pipe \cup {"filter_init", "filter_add"}

(* `open` is what the client has subscribed to and `news` that the radio    *)
(* has yet to say so; `credits` are left, `used` are with the radio; `runs` *)
(* is false once the ble task has halted or waits for ever; `kept` is true  *)
(* once the bus is taken for a command the ble task will never exchange.    *)
LinkState ==
  [state : {"up", "down"}, open : SUBSET Pipe, news : BOOLEAN, credits : 0 .. ChipCredits,
   used : 0 .. ChipCredits, runs : BOOLEAN, kept : BOOLEAN]

TypeOK ==
  /\ mainq \in Seq(MainEvent) /\ Len(mainq) <= MainLength
  /\ sensorq \in Seq(Round) /\ Len(sensorq) <= SensorLength
  /\ gpsq \in Seq(GpsEvent) /\ Len(gpsq) <= GpsLength
  /\ todo \in Seq(Work)
  /\ packet \in [{"gps", "baro", "accel"} -> Round]
  /\ session \in BOOLEAN /\ missed \in BOOLEAN
  /\ filter \in [values : [Slot -> Round], length : 0 .. FilterLength, index : Slot]
  /\ recent \in Seq(Round) /\ Len(recent) <= FilterLength
  /\ sensor \in [at : {"wait", "baro", "accel", "complete"}, round : Round]
  /\ gps \in [at : {"init", "wait", "send"}, running : BOOLEAN]
  /\ pipes \subseteq Pipe
  /\ link \in LinkState
  /\ spent \in [messages : 0 .. MaxMessages, fixes : Round, requests : 0 .. MaxRequests,
                changes : 0 .. MaxChanges]

Room(q, length) == Len(q) < length
Fits == Room(mainq, MainLength)

-----------------------------------------------------------------------------
(* task_main: one event, then what its handler does, piece by piece.       *)

\* handle_config, up to the reply its caller sends.
Handler(command) ==
  CASE command = "start" -> <<"filter_init", "gps_start", "log_start">>
    [] command = "stop"  -> <<"gps_sleep", "log_end">>
    [] command \in {"list", "get"} -> <<"list">>
    [] command \in {"set_event", "format"} -> <<"store">>
    [] OTHER -> <<>>

Completed == (IF session THEN <<"log">> ELSE <<>>) \o <<"filter_add", "stream">>

\* A request that finds the queue full is gone: the timeout is 0.
Request(round) ==
  /\ sensorq' = IF Room(sensorq, SensorLength) THEN Append(sensorq, round) ELSE sensorq
  /\ missed' = ~Room(sensorq, SensorLength)

Took(kinds) ==
  /\ todo = <<>> /\ mainq # <<>>
  /\ Head(mainq).kind \in kinds
  /\ mainq' = Tail(mainq)


TakePosition ==
  /\ Took({"gps"})
  /\ packet' = [packet EXCEPT !["gps"] = Head(mainq).round]
  /\ Request(Head(mainq).round)
  /\ UNCHANGED <<gpsq, todo, session, filter, recent, sensor, gps, world>>

TakeSample ==
  /\ Took({"baro", "accel"})
  /\ packet' = [packet EXCEPT ![Head(mainq).kind] = Head(mainq).round]
  /\ UNCHANGED <<sensorq, gpsq, todo, session, filter, recent, missed, sensor, gps, world>>

TakeComplete ==
  /\ Took({"complete"})
  /\ todo' = Completed
  /\ UNCHANGED <<sensorq, gpsq, packet, session, filter, recent, missed, sensor, gps, world>>

TakeCommand ==
  /\ Took({"data"})
  /\ todo' = Handler(Head(mainq).command) \o <<"reply">>
  /\ UNCHANGED <<sensorq, gpsq, packet, session, filter, recent, missed, sensor, gps, world>>

TakePipes ==
  /\ Took({"pipes"})
  /\ UNCHANGED <<sensorq, gpsq, mainvars, sensor, gps, world>>

Does(work) == todo # <<>> /\ Head(todo) \in work

\* gps_start and gps_stop wait for room in the queue of the GPS task.
CommandGps ==
  /\ Does(GpsSend) /\ Room(gpsq, GpsLength)
  /\ gpsq' = Append(gpsq, IF Head(todo) = "gps_start" THEN "start" ELSE "sleep")
  /\ todo' = Tail(todo)
  /\ UNCHANGED <<mainq, sensorq, packet, session, filter, recent, missed, sensor, gps, world>>

LogCommand ==
  /\ Does({"log_start", "log_end", "store"})
  /\ session' = IF Head(todo) = "store" THEN session ELSE Head(todo) = "log_start"
  /\ todo' = Tail(todo)
  /\ UNCHANGED <<queues, packet, filter, recent, missed, sensor, gps, world>>

SlipLogSample ==                \* a full storage ends the event, the GPS runs on
  /\ Does({"log"})
  /\ todo' \in {Tail(todo), <<"log_end">> \o Tail(todo)}
  /\ UNCHANGED <<queues, packet, session, filter, recent, missed, sensor, gps, world>>

\* The storage may be full, which ends the event.
LogSample ==
  /\ Does({"log"})
  /\ todo' \in {Tail(todo), <<"gps_sleep", "log_end">> \o Tail(todo)}
  /\ UNCHANGED <<queues, packet, session, filter, recent, missed, sensor, gps, world>>

ResetFilter ==
  /\ Does({"filter_init"})
  /\ filter' = FilterInit /\ recent' = <<>>
  /\ todo' = Tail(todo)
  /\ UNCHANGED <<queues, packet, session, missed, sensor, gps, world>>

Last(seq, n) == SubSeq(seq, (IF Len(seq) > n THEN Len(seq) - n ELSE 0) + 1, Len(seq))

AddValue ==
  /\ Does({"filter_add"})
  /\ filter' = FilterAdd(filter, packet["baro"])
  /\ recent' = Last(Append(recent, packet["baro"]), FilterLength)
  /\ todo' = Tail(todo)
  /\ UNCHANGED <<queues, packet, session, missed, sensor, gps, world>>

\* LIST_EVENTS and GET_EVENTDATA look at the pipe once, then send what they find.
List ==
  /\ Does({"list"})
  /\ \E n \in 0 .. (IF "config" \in pipes THEN MaxListed ELSE 0) :
       todo' = [i \in 1 .. n |-> "event"] \o Tail(todo)
  /\ UNCHANGED <<queues, packet, session, filter, recent, missed, sensor, gps, world>>

PipeOf(work) == IF work = "stream" THEN "sensor" ELSE "config"

(* ble_tx_helper looks at the pipe, as the driver knows it, once.  On a     *)
(* closed one nothing is sent; on an open one the packet waits for its      *)
(* credit and goes out, whatever has become of the pipe meanwhile.          *)
Looks(open) == Does(Send) /\ (PipeOf(Head(todo)) \in pipes) = open

Skip ==
  /\ Looks(FALSE)
  /\ todo' = Tail(todo)
  /\ UNCHANGED <<queues, packet, session, filter, recent, missed, sensor, gps, world>>

FindOpen ==
  /\ Looks(TRUE)
  /\ todo' = <<PipeOf(Head(todo))>> \o Tail(todo)
  /\ UNCHANGED <<queues, packet, session, filter, recent, missed, sensor, gps, world>>

\* Data for a pipe that is not open comes back as an error, which halts the ble task.
Exchanged(pipe, l) ==
  IF l.state = "up" /\ pipe \in l.open THEN [l EXCEPT !.used = @ + 1]
  ELSE [l EXCEPT !.runs = FALSE]

(* With a credit the command is queued, the bus locked for it and the ble   *)
(* task asked to exchange it.  If that does not run any more, or if it is   *)
(* just taking up an event of the radio (BleLink: it may take the command   *)
(* before the bus is locked, or wait for the bus that was locked for it),   *)
(* nobody gives the bus back.                                               *)
Transmit ==
  /\ Does(Pipe) /\ link.credits > 0 /\ ~link.kept
  /\ LET paid == [link EXCEPT !.credits = @ - 1]
     IN  \/ link.runs /\ link' = Exchanged(Head(todo), paid)
         \/ link' = [paid EXCEPT !.runs = FALSE, !.kept = TRUE]
  /\ todo' = Tail(todo)
  /\ UNCHANGED <<queues, packet, session, filter, recent, missed, sensor, gps, pipes, spent>>

Main ==
  \/ TakePosition \/ TakeSample \/ TakeComplete \/ TakeCommand \/ TakePipes
  \/ CommandGps \/ LogCommand \/ LogSample \/ ResetFilter \/ AddValue \/ List
  \/ Skip \/ FindOpen \/ Transmit

-----------------------------------------------------------------------------
(* task_sensor: the pressure, the acceleration, then the completion, each  *)
(* sent when there is room.                                                *)

SensorReceive ==
  /\ sensor.at = "wait" /\ sensorq # <<>>
  /\ sensor' = [at |-> "baro", round |-> Head(sensorq)]
  /\ sensorq' = Tail(sensorq)
  /\ UNCHANGED <<mainq, gpsq, mainvars, gps, world>>

SlipAfterSample ==              \* completes before the acceleration is there
  [baro |-> "complete", complete |-> "accel", accel |-> "wait"]

AfterSample == [baro |-> "accel", accel |-> "complete", complete |-> "wait"]

SlipSensorSend ==               \* does not wait for room
  /\ sensor.at # "wait"
  /\ mainq' = IF Fits THEN Append(mainq, [kind |-> sensor.at, round |-> sensor.round])
             ELSE mainq
  /\ sensor' = [sensor EXCEPT !.at = AfterSample[@]]
  /\ UNCHANGED <<sensorq, gpsq, mainvars, gps, world>>

SensorSend ==
  /\ sensor.at # "wait" /\ Fits
  /\ mainq' = Append(mainq, [kind |-> sensor.at, round |-> sensor.round])
  /\ sensor' = [sensor EXCEPT !.at = AfterSample[@]]
  /\ UNCHANGED <<sensorq, gpsq, mainvars, gps, world>>

Sensor == SensorReceive \/ SensorSend

-----------------------------------------------------------------------------
(* task_gps, and the interrupt that tells it of a message.                 *)

\* A message is announced in front of the commands, if there is room.
Announce ==
  /\ spent.messages < MaxMessages
  /\ spent' = [spent EXCEPT !.messages = @ + 1]
  /\ gpsq' = IF Room(gpsq, GpsLength) THEN <<"waiting">> \o gpsq ELSE gpsq
  /\ UNCHANGED <<mainq, sensorq, mainvars, sensor, gps, pipes, link>>

\* ublox_init waits for some messages, and for them only.
GpsInit ==
  /\ gps.at = "init" /\ gpsq # <<>> /\ Head(gpsq) = "waiting"
  /\ gpsq' = Tail(gpsq)
  /\ \E at \in {"init", "wait"} : gps' = [gps EXCEPT !.at = at]
  /\ UNCHANGED <<mainq, sensorq, mainvars, sensor, world>>

GpsCommand ==
  /\ gps.at = "wait" /\ gpsq # <<>> /\ Head(gpsq) # "waiting"
  /\ gps' = [gps EXCEPT !.running = (Head(gpsq) = "start")]
  /\ gpsq' = Tail(gpsq)
  /\ UNCHANGED <<mainq, sensorq, mainvars, sensor, world>>

Announced == gps.at = "wait" /\ gpsq # <<>> /\ Head(gpsq) = "waiting"

\* A message other than a position, or a position after the stop.
GpsIgnores ==
  /\ Announced
  /\ gpsq' = Tail(gpsq)
  /\ UNCHANGED <<mainq, sensorq, mainvars, sensor, gps, world>>

GpsFix ==
  /\ Announced /\ gps.running
  /\ gps' = [gps EXCEPT !.at = "send"]
  /\ spent' = [spent EXCEPT !.fixes = @ + 1]
  /\ gpsq' = Tail(gpsq)
  /\ UNCHANGED <<mainq, sensorq, mainvars, sensor, pipes, link>>

GpsPosition ==
  /\ gps.at = "send" /\ Fits
  /\ mainq' = Append(mainq, [kind |-> "gps", round |-> spent.fixes])
  /\ gps' = [gps EXCEPT !.at = "wait"]
  /\ UNCHANGED <<sensorq, gpsq, mainvars, sensor, world>>

Gps == GpsInit \/ GpsCommand \/ GpsIgnores \/ GpsFix \/ GpsPosition

-----------------------------------------------------------------------------
(* The ble task and the client.  What the radio reports goes to the main   *)
(* queue without waiting.  Once the ble task does not run, what the radio  *)
(* does is nothing to the other tasks, and is left out.                    *)

Report(event) == mainq' = IF Fits THEN Append(mainq, event) ELSE mainq

ClientWrites ==
  /\ link.state = "up" /\ link.runs /\ spent.requests < MaxRequests
  /\ spent' = [spent EXCEPT !.requests = @ + 1]
  /\ \E command \in Commands : Report([kind |-> "data", command |-> command])
  /\ UNCHANGED <<sensorq, gpsq, mainvars, sensor, gps, pipes, link>>

\* To one characteristic at a time.
ClientSubscribes ==
  /\ link.state = "up" /\ link.runs /\ spent.changes < MaxChanges
  /\ spent' = [spent EXCEPT !.changes = @ + 1]
  /\ \E pipe \in Pipe :
       link' = [link EXCEPT !.open = IF pipe \in @ THEN @ \ {pipe} ELSE @ \cup {pipe},
                            !.news = TRUE]
  /\ UNCHANGED <<queues, mainvars, sensor, gps, pipes>>

\* handle_pipe_status, of the last of the changes.
PipeStatus ==
  /\ link.news /\ link.runs
  /\ pipes' = link.open
  /\ link' = [link EXCEPT !.news = FALSE]
  /\ Report([kind |-> "pipes"])
  /\ UNCHANGED <<sensorq, gpsq, mainvars, sensor, gps, spent>>

CreditReturns ==
  /\ link.state = "up" /\ link.used > 0 /\ link.runs
  /\ link' = [link EXCEPT !.credits = @ + 1, !.used = @ - 1]
  /\ UNCHANGED <<queues, mainvars, sensor, gps, pipes, spent>>

\* The radio closes the pipes; the driver is told with the next connection.
LinkDrops ==
  /\ link.state = "up" /\ link.runs /\ spent.changes < MaxChanges
  /\ spent' = [spent EXCEPT !.changes = @ + 1]
  /\ link' = [link EXCEPT !.state = "down", !.used = 0, !.open = {}]
  /\ UNCHANGED <<queues, mainvars, sensor, gps, pipes>>

LinkReturns ==
  /\ link.state = "down" /\ link.runs
  /\ link' = [link EXCEPT !.state = "up", !.news = TRUE]
  /\ UNCHANGED <<queues, mainvars, sensor, gps, pipes, spent>>

World ==
  \/ ClientWrites \/ ClientSubscribes \/ PipeStatus
  \/ CreditReturns \/ LinkDrops \/ LinkReturns

-----------------------------------------------------------------------------
\* The tasks just started, and a client connected that has subscribed to nothing.
Init ==
  /\ mainq = <<>> /\ sensorq = <<>> /\ gpsq = <<>>
  /\ todo = <<>>
  /\ packet = [part \in {"gps", "baro", "accel"} |-> 0]
  /\ session = FALSE /\ missed = FALSE
  /\ filter = FilterInit /\ recent = <<>>
  /\ sensor = [at |-> "wait", round |-> 0]
  /\ gps = [at |-> "init", running |-> FALSE]
  /\ pipes = {}
  /\ link = [state |-> "up", open |-> {}, news |-> FALSE, credits |-> ChipCredits,
             used |-> 0, runs |-> TRUE, kept |-> FALSE]
  /\ spent = [messages |-> 0, fixes |-> 0, requests |-> 0, changes |-> 0]

Next == Main \/ Sensor \/ Gps \/ Announce \/ World

Spec == Init /\ [][Next]_vars

\* The log is read and written over a bus that may not be free any more.
Overtaken == Does(Storage) /\ link.kept

(* Every task that can run does (equal priorities and a switch every 10 ms *)
(* at the latest), and a connected radio sends what it took, which the ble *)
(* task hears of while it runs.  The main task need not get over an access *)
(* to the log once the bus is kept: it does if the page is in the buffer.  *)
(* Nothing is assumed of the receiver, the client or the connection.       *)
FairSpec ==
  /\ Spec
  /\ WF_vars(Main /\ ~Overtaken) /\ WF_vars(Sensor) /\ WF_vars(Gps)
  /\ WF_vars(CreditReturns)

-----------------------------------------------------------------------------
(* What the tasks promise one another.                                     *)

Outstanding ==
  \/ sensorq # <<>> \/ sensor.at # "wait"
  \/ \E i \in DOMAIN mainq : mainq[i].kind \in Sample \ {"gps"}

(* When a packet is complete its pressure and its acceleration are of one  *)
(* request, never of a request after that of its position (the completion  *)
(* of task_sensor against the aggregation of task_main).                   *)
SamplesTogether ==
  Does({"log", "filter_add"}) =>
    packet["baro"] = packet["accel"] /\ packet["baro"] <= packet["gps"]

(* A packet that mixes two rounds is mixed only for a time: when no request *)
(* is on its way, and the last one was not refused, all parts are of one    *)
(* round (task_main.c, "used for aggregating the complete sensor state").   *)
PacketSettles ==
  ~Outstanding /\ ~missed =>
    packet["gps"] = packet["baro"] /\ packet["baro"] = packet["accel"]

(* Once the commands to the GPS task are taken, the receiver runs exactly   *)
(* while an event is open: no order of START, STOP and a full storage, no   *)
(* message in between and no slow start of the receiver turns it round.     *)
ReceiverFollowsSession ==
  /\ gps.at # "init" /\ ~Does(GpsSend \cup {"log_start", "log_end", "filter_init"})
  /\ \A i \in DOMAIN gpsq : gpsq[i] = "waiting"
  => gps.running = session

(* The filter holds the latest pressures since the event started, at most   *)
(* FILTER_LEN of them, and returns their mean.                              *)
FilterIsRecentMean ==
  /\ filter.length = Len(recent)
  /\ recent # <<>> =>
       LET Sum[i \in 0 .. Len(recent)] == IF i = 0 THEN 0 ELSE recent[i] + Sum[i - 1]
       IN  FilterMean(filter) = Sum[Len(recent)] \div Len(recent)

(* The ways in which the main task can be stuck: the GPS task waits for     *)
(* room in the main queue, or for a message that is no longer announced,    *)
(* while the main task waits for room in the queue of the GPS task; there   *)
(* is no credit left and none to come back, for they went with a connection *)
(* or the ble task does not run; or the bus is taken for good.              *)
GpsDeaf == Len(gpsq) = GpsLength /\ gps.at = "init" /\ Head(gpsq) # "waiting"
GpsCycle == Len(gpsq) = GpsLength /\ gps.at = "send" /\ ~Fits
Starved == link.credits = 0 /\ (link.used = 0 \/ ~link.runs)

MainStuck ==
  \/ Does(GpsSend) /\ (GpsDeaf \/ GpsCycle)
  \/ Does(Pipe) /\ (Starved \/ link.kept)
  \/ Overtaken

AtRest ==
  /\ mainq = <<>> /\ sensorq = <<>> /\ todo = <<>> /\ sensor.at = "wait"
  /\ gps.at = "init" \/ (gps.at = "wait" /\ gpsq = <<>>)

=============================================================================
