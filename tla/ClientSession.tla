--------------------------- MODULE ClientSession ---------------------------
(* The Qt client's sessions with the device (alticontroller.cc): it scans, *)
(* connects, collects the service objects of the connection, subscribes    *)
(* to the configuration pipe and sends one request at a time, answered     *)
(* over the pipe in packets that PacketFormat puts together.               *)
(*                                                                         *)
(* The slots of the controller run in one thread, one after the other; the *)
(* user's slots may be called at any time.  A service object is the number *)
(* of the connection it was made for: Qt keeps the object when the         *)
(* connection is gone, but its state is InvalidService from then on.       *)
(* What the device does with a request is AeroTasks' concern: here it      *)
(* drops it, or answers unless the pipe is closed, or its tasks have       *)
(* stopped for good, in one of the ways that module names.  Its list of    *)
(* events ends (Logger has the lists that go round).  A slot that only     *)
(* logs is left out, and so is the second branch of bleServiceDiscovered:  *)
(* the services of a new connection are all in state DiscoveryRequired.    *)
(*                                                                         *)
(* A definition named Slip... is a plausible mistake in the one that       *)
(* follows it, which the properties must notice.                           *)
(***************************************************************************)
EXTENDS PacketFormat, FiniteSets

CONSTANTS Expected,      \* the services m_services starts with
          Other,         \* those the device has beside them
          kConfig, kSensorData,
          Listed,        \* events the device has to list
          MaxStreams,    \* bound: starts of the stream before a stop
          MaxSessions,   \* bound: connections the client makes
          MaxRequests    \* bound: requests the client writes

Uuid == Expected \cup Other

ASSUME SessionAssumption ==
  /\ {kConfig, kSensorData} \subseteq Expected /\ kConfig # kSensorData
  /\ Expected \cap Other = {} /\ IsFiniteSet(Uuid)
  /\ {Listed, MaxStreams, MaxSessions, MaxRequests} \subseteq Nat

VARIABLES
  scanning,     \* the discovery agent is active
  session,      \* number of the last connection
  link,         \* of m_bleDeviceController, "none" if it is null
  fresh,        \* services that have not been announced to the client
  found,        \* services whose details are being discovered
  m_services,   \* what is known of each service
  listeners,    \* connections of the config service to rx->receivedBytes
  subscribed,   \* notifications are on: the device's kConfigPipeTx is open
  m_inProgress,
  rx,           \* Receiver._buffer
  m_reader,     \* the reader exists
  streams,      \* connections of the sensor service to receivedNotification
  streaming,    \* notifications are on: the device's kSensorPipe is open
  requests,     \* requests that the device has not handled
  work, left,   \* packets the device has to send, the rest of the first
  air,          \* notifications on their way
  stuck,        \* the main or the ble task of the device has stopped
  asked,        \* history: requests written
  finished,     \* history: the number of times deviceFinished was emitted
  sound         \* history: no request or answer lost, no notification doubled

clientvars == <<scanning, session, link, fresh, found, m_services>>
streamvars == <<m_reader, streams, streaming>>
answervars == <<requests, work, left, air>>
vars == <<clientvars, listeners, subscribed, m_inProgress, rx, streamvars,
          answervars, stuck, asked, finished, sound>>

Absent == -1     \* no key of m_services
Null == 0        \* a key without a service
Nothing == [prefix |-> <<>>, data |-> <<>>]

Requests == [id : 1 .. MaxRequests, list : BOOLEAN]
Cells == [packet : 1 .. MaxRequests, place : 0 .. Fragment * Fragment, look : Look]

TypeOK ==
  /\ scanning \in BOOLEAN /\ session \in 0 .. MaxSessions
  /\ link \in {"none", "connecting", "on", "lost"}
  /\ fresh \subseteq Uuid /\ found \subseteq Uuid \ fresh
  /\ m_services \in [Uuid -> {Absent, Null} \cup 1 .. session]
  /\ listeners \in 0 .. Cardinality(Other) + 1 /\ streams \in 0 .. MaxStreams
  /\ {subscribed, m_inProgress, m_reader, streaming, stuck, sound} \subseteq BOOLEAN
  /\ rx \in Seq(Cells) /\ air \in Seq(Seq(Cells))
  /\ requests \in Seq(Requests)
  /\ work \in Seq([id : 1 .. MaxRequests, kind : {"config", "event"}])
  /\ left \in [prefix : Seq(Cells), data : Seq(Cells)]
  /\ asked \in 0 .. MaxRequests /\ finished \in Nat

Init ==
  /\ scanning = FALSE /\ session = 0 /\ link = "none"
  /\ fresh = {} /\ found = {}
  /\ m_services = [u \in Uuid |-> IF u \in Expected THEN Null ELSE Absent]
  /\ listeners = 0 /\ subscribed = FALSE /\ m_inProgress = FALSE /\ rx = <<>>
  /\ m_reader = FALSE /\ streams = 0 /\ streaming = FALSE
  /\ requests = <<>> /\ work = <<>> /\ left = Nothing /\ air = <<>> /\ stuck = FALSE
  /\ asked = 0 /\ finished = 0 /\ sound = TRUE

\* The service is in state ServiceDiscovered.
Discovered(u) == m_services[u] = session /\ link = "on"

\* Something of a request or of its answer is on its way.
Busy == \/ requests # <<>> \/ work # <<>> \/ left # Nothing
        \/ air # <<>> \/ rx # <<>>

\* The connection is gone: with it what is in the air and what the device
\* had not received; both pipes of the device are closed.
Disconnect ==
  /\ fresh' = {} /\ found' = {}
  /\ listeners' = 0 /\ subscribed' = FALSE
  /\ streams' = 0 /\ streaming' = FALSE
  /\ air' = <<>>
  /\ \E n \in 0 .. Len(requests) : requests' = SubSeq(requests, 1, n)
  /\ sound' = (sound /\ ~Busy)

tryConnect ==
  /\ ~scanning /\ scanning' = TRUE
  /\ UNCHANGED <<session, link, fresh, found, m_services, listeners, subscribed,
                 m_inProgress, rx, streamvars, answervars, stuck, asked, finished, sound>>

tryDisconnect ==
  /\ scanning \/ link # "none"
  /\ scanning' = FALSE /\ link' = "none"
  /\ Disconnect
  /\ UNCHANGED <<session, m_services, m_inProgress, rx, m_reader, work, left,
                 stuck, asked, finished>>

\* deviceDiscovered of a device named "Aero", and discoverServices: the
\* controller of the last connection is deleted.
deviceDiscovered ==
  /\ scanning /\ session < MaxSessions
  /\ session' = session + 1 /\ link' = "connecting"
  /\ Disconnect
  /\ UNCHANGED <<scanning, m_services, m_inProgress, rx, m_reader, work, left,
                 stuck, asked, finished>>

\* The slot of QLowEnergyController::connected asks for the services.
connected ==
  /\ link = "connecting" /\ link' = "on" /\ fresh' = Uuid
  /\ UNCHANGED <<scanning, session, found, m_services, listeners, subscribed,
                 m_inProgress, rx, streamvars, answervars, stuck, asked, finished, sound>>

\* The device goes out of reach; nothing is connected to `disconnected`.
LinkLost ==
  /\ link = "on" /\ link' = "lost"
  /\ Disconnect
  /\ UNCHANGED <<scanning, session, m_services, m_inProgress, rx, m_reader,
                 work, left, stuck, asked, finished>>

\* createServiceObject fails only for a service that was not announced.
bleServiceDiscovered(u) ==
  /\ u \in fresh /\ fresh' = fresh \ {u}
  /\ found' = found \cup {u}
  /\ UNCHANGED <<scanning, session, link, m_services, listeners, subscribed,
                 m_inProgress, rx, streamvars, answervars, stuck, asked, finished, sound>>

\* Slip: the states are not looked at.
SlipInitialized(services) == \A u \in Uuid : services[u] # Null

\* The loop over m_services.keys().
Initialized(services) ==
  \A u \in Uuid : services[u] # Absent => services[u] = session

\* Slip: the services of the first connection are kept.
SlipStored(u) == IF m_services[u] \in {Absent, Null}
                 THEN [m_services EXCEPT ![u] = session] ELSE m_services

Stored(u) == [m_services EXCEPT ![u] = session]

\* Connects the config service to the receiver, each time it is called, and
\* subscribes.
waitForMessages ==
  /\ listeners' = listeners + 1 /\ subscribed' = TRUE
  /\ sound' = (sound /\ listeners = 0)

serviceDetailsDiscovered(u) ==
  /\ u \in found /\ found' = found \ {u}
  /\ m_services' = Stored(u)
  /\ IF Initialized(m_services')
     THEN waitForMessages /\ finished' = finished + 1
     ELSE UNCHANGED <<listeners, finished, sound, subscribed>>
  /\ UNCHANGED <<scanning, session, link, fresh, m_inProgress, rx, streamvars,
                 answervars, stuck, asked>>

\* Slip: a request does not wait for the answer of the last one.
SlipMaySend == m_services[kConfig] # Null

MaySend == m_services[kConfig] # Null /\ ~m_inProgress

\* sendConfigPacket for each of the user's requests: getEvents (list), and
\* startRecordingEvent, stopRecordingEvent, formatStorage, selectMostRecent
\* and dumpMostRecent.  Writing to a service of an old connection, or to
\* one on a link that is gone, is an error nobody hears of.
sendConfigPacket(list) ==
  /\ MaySend /\ asked < MaxRequests
  /\ asked' = asked + 1 /\ m_inProgress' = TRUE
  /\ IF Discovered(kConfig)
     THEN requests' = Append(requests, [id |-> asked', list |-> list])
     ELSE UNCHANGED requests
  /\ sound' = (sound /\ Discovered(kConfig) /\ subscribed)
  /\ UNCHANGED <<clientvars, listeners, subscribed, rx, streamvars, work, left,
                 air, stuck, finished>>

\* handle_data_received: a request the radio has taken is lost when the main
\* queue of the device is full.
DropRequest ==
  /\ \E i \in DOMAIN requests :
       requests' = SubSeq(requests, 1, i - 1) \o SubSeq(requests, i + 1, Len(requests))
  /\ sound' = FALSE
  /\ UNCHANGED <<clientvars, listeners, subscribed, m_inProgress, rx, streamvars,
                 work, left, air, stuck, asked, finished>>

\* The tasks of the device stop: they wait for each other or for credits that
\* never come, or an assertion failed.  The radio keeps the link.
DeviceStops ==
  /\ ~stuck /\ stuck' = TRUE
  /\ UNCHANGED <<clientvars, listeners, subscribed, m_inProgress, rx, streamvars,
                 answervars, asked, finished, sound>>

\* The device handles a request: LIST_EVENTS sends the headers of its events
\* before the answer.
Handle ==
  /\ ~stuck /\ requests # <<>> /\ work = <<>> /\ left = Nothing
  /\ requests' = Tail(requests)
  /\ work' = [i \in 1 .. IF Head(requests).list THEN Listed + 1 ELSE 1 |->
                [id |-> Head(requests).id,
                 kind |-> IF Head(requests).list /\ i <= Listed
                          THEN "event" ELSE "config"]]
  /\ UNCHANGED <<clientvars, listeners, subscribed, m_inProgress, rx, streamvars,
                 left, air, stuck, asked, finished, sound>>

\* ble_tx_head for the next packet: nothing in its body looks like a header.
Pack ==
  /\ ~stuck /\ work # <<>> /\ left = Nothing
  /\ LET p == Head(work) IN
     left' = [prefix |-> <<Header(p.kind, p.id)>>,
              data |-> Content([i \in 1 .. Size[p.kind] |-> "other"], p.id)]
  /\ work' = Tail(work)
  /\ UNCHANGED <<clientvars, listeners, subscribed, m_inProgress, rx, streamvars,
                 requests, air, stuck, asked, finished, sound>>

\* ble_tx_helper: a message is dropped when the pipe is closed.
Transmit ==
  /\ ~stuck /\ left # Nothing
  /\ left' = Advance(left)
  /\ air' = IF subscribed THEN Append(air, Message(left)) ELSE air
  /\ sound' = (sound /\ subscribed)
  /\ UNCHANGED <<clientvars, listeners, subscribed, m_inProgress, rx, streamvars,
                 requests, work, stuck, asked, finished>>

\* Slip: the receiver is told, but the flag stays.
SlipAnswered(objects) == FALSE

\* onConfigPacket was called.
Answered(objects) == \E i \in DOMAIN objects : objects[i].kind = "config"

\* characteristicChanged calls the receiver once for every connection.
Notified[n \in 0 .. listeners] ==
  IF n = 0
  THEN [buffer |-> rx, objects |-> <<>>]
  ELSE LET before == Notified[n - 1]
           now == Attempt(before.buffer \o Head(air)) IN
       [buffer |-> now.buffer, objects |-> before.objects \o now.objects]

characteristicChanged ==
  /\ air # <<>> /\ air' = Tail(air)
  /\ rx' = Notified[listeners].buffer
  /\ m_inProgress' = (m_inProgress /\ ~Answered(Notified[listeners].objects))
  /\ UNCHANGED <<clientvars, listeners, subscribed, streamvars, requests, work,
                 left, stuck, asked, finished, sound>>

\* startStreamingSensors connects every time it is called.  A service of an
\* old connection has no valid descriptor: nothing comes of the call then.
startStreamingSensors ==
  /\ Discovered(kSensorData) /\ streams < MaxStreams
  /\ streams' = streams + 1 /\ m_reader' = TRUE /\ streaming' = TRUE
  /\ UNCHANGED <<clientvars, listeners, subscribed, m_inProgress, rx, answervars,
                 stuck, asked, finished, sound>>

\* Slip: the reader goes, but the device is not told.
SlipTold == streaming

Told == FALSE

\* stopStreamingSensors; the destructor does no more.
stopStreamingSensors ==
  /\ Discovered(kSensorData) /\ m_reader
  /\ m_reader' = FALSE /\ streams' = 0 /\ streaming' = Told
  /\ UNCHANGED <<clientvars, listeners, subscribed, m_inProgress, rx, answervars,
                 stuck, asked, finished, sound>>

User == \/ tryConnect \/ tryDisconnect
        \/ \E list \in BOOLEAN : sendConfigPacket(list)
        \/ startStreamingSensors \/ stopStreamingSensors
Discovery == \/ connected
             \/ \E u \in Uuid : bleServiceDiscovered(u) \/ serviceDetailsDiscovered(u)
Device == Handle \/ Pack \/ Transmit

Next == \/ User \/ deviceDiscovered \/ LinkLost \/ DropRequest \/ DeviceStops
        \/ Discovery \/ Device \/ characteristicChanged

Spec == Init /\ [][Next]_vars

\* The event loop of the client runs, the device announces its services and
\* its tasks run until they stop; what a user does, whether the link holds and
\* whether the device takes a request or stops, is open.
FairSpec == Spec /\ WF_vars(Discovery) /\ WF_vars(Device)
                 /\ WF_vars(characteristicChanged)

(***************************************************************************)
(* Properties.                                                             *)
(***************************************************************************)
\* serviceDetailsDiscovered: the client subscribes only when every service it
\* expects is one of this connection, though m_services still holds those of
\* the last one when a new connection begins.
SubscribesWhenComplete ==
  subscribed => /\ listeners > 0
                /\ \A u \in Expected : Discovered(u)

\* stopStreamingSensors, receivedNotification: the device never sends samples
\* that no reader takes, over any sequence of starts, stops and connections.
StreamTaken == streaming => m_reader /\ streams > 0

\* sendConfigPacket, waitForMessages: m_inProgress means what it says.  As
\* long as no request or answer was lost and no notification doubled, the flag falls
\* only when nothing is left of the request anywhere, and so the device
\* never has two requests and the receiver's buffer is empty when a request
\* is made.
FlagTellsAll == sound /\ ~m_inProgress => ~Busy

\* onConfigPacket: a request made over a sound connection is answered: the
\* flag that keeps the user from making the next falls, unless the link or
\* the receiver breaks, the device loses the request, or its tasks stop.
\* (Nothing clears the flag after any of these.)
RequestSettles == m_inProgress /\ sound ~> ~m_inProgress \/ ~sound \/ stuck

\* serviceDetailsDiscovered: a connection that stays up is completed, the
\* second as well as the first, whatever the order of its services.
SessionCompletes ==
  \A n \in 1 .. MaxSessions :
    session = n /\ link = "connecting"
      ~> subscribed \/ session # n \/ link \in {"lost", "none"}

=============================================================================
