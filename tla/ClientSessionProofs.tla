------------------------ MODULE ClientSessionProofs ------------------------
(* What holds of the client's sessions for every set of services, every    *)
(* format of the packets and every number of connections and requests: the *)
(* client is subscribed only to the services of the connection that is up, *)
(* the device sends samples only while there is a reader for them, and the *)
(* flag of a request says exactly whether it is still being answered.      *)
(*                                                                         *)
(* The first needs to know what a new connection finds: that services are  *)
(* discovered over a link that is up only, and that a service which is     *)
(* expected never ceases to be a key of m_services, so that the loop over  *)
(* the keys passes over none of them.  The last follows the packets of the *)
(* answer from the device to the receiver, message by message: each goes   *)
(* on where the one before it ended, and the answer proper is the last.    *)
(*                                                                         *)
(* The second half is about PacketStream, which has variables of its own:  *)
(* as long as no packet arrives in part, the client gets exactly what was  *)
(* sent, and its reader of samples never finds one.  A message is a        *)
(* stretch of one packet, and between two that follow each other only      *)
(* packets that lost something are missing.                                *)
(***************************************************************************)
EXTENDS ClientSession, PacketStream, SequenceTheorems, WellFoundedInduction, TLAPS

\* The part of the types that the arguments need.
SessionType ==
  /\ session \in Nat
  /\ m_services \in [Uuid -> Int]
  /\ fresh \subseteq Uuid /\ found \subseteq Uuid
  /\ listeners \in Nat

\* Services are announced and discovered over a link that is up.
DiscoversOverLink == fresh # {} \/ found # {} => link = "on"

\* The services m_services started with remain its keys.
ExpectedAreKeys == \A u \in Expected : m_services[u] # Absent

\* The inductive invariant.
SessionInv ==
  /\ SessionType
  /\ DiscoversOverLink
  /\ ExpectedAreKeys
  /\ SubscribesWhenComplete

\* The invariant holds before the first connection.
LEMMA SessionInit == Init => SessionInv
<1> SUFFICES ASSUME Init PROVE SessionInv
  OBVIOUS
<1>1. m_services \in [Uuid -> Int] /\ ExpectedAreKeys
  BY DEF Init, Uuid, Absent, Null, ExpectedAreKeys
<1>2. QED
  BY <1>1 DEF Init, SessionInv, SessionType, DiscoversOverLink, SubscribesWhenComplete

\* When the connection goes, nothing is left that was discovered over it and
\* the notifications are off (the three actions with Disconnect).
LEMMA DisconnectStep ==
  ASSUME SessionInv, Disconnect, session' \in Nat, UNCHANGED m_services
  PROVE  SessionInv'
BY DEF SessionInv, SessionType, Disconnect, DiscoversOverLink, ExpectedAreKeys,
       SubscribesWhenComplete

\* The step of serviceDetailsDiscovered: the loop over the keys lets the client
\* subscribe only when each expected service is one of this session, and one
\* more service of this session takes none of the others away.
LEMMA DetailsStep ==
  ASSUME SessionInv, NEW u \in Uuid, serviceDetailsDiscovered(u)
  PROVE  SessionInv'
<1>1. link = "on" /\ link' = "on" /\ session' = session /\ fresh' = fresh
      /\ found' \subseteq Uuid
  BY DEF SessionInv, SessionType, DiscoversOverLink, serviceDetailsDiscovered
<1>2. m_services' = [m_services EXCEPT ![u] = session]
  BY DEF serviceDetailsDiscovered, Stored
<1>3. m_services' \in [Uuid -> Int]
  BY <1>2 DEF SessionInv, SessionType
<1>4. ASSUME NEW e \in Uuid
      PROVE  m_services'[e] = IF e = u THEN session ELSE m_services[e]
  BY <1>2 DEF SessionInv, SessionType
<1>5. ExpectedAreKeys'
  BY <1>4 DEF SessionInv, SessionType, ExpectedAreKeys, Absent, Uuid
<1>6. listeners' \in Nat
  BY DEF SessionInv, SessionType, serviceDetailsDiscovered, waitForMessages
<1>7. SubscribesWhenComplete'
  <2>1. CASE Initialized(m_services')
    <3>1. listeners' > 0
      BY <2>1 DEF SessionInv, SessionType, serviceDetailsDiscovered, waitForMessages
    <3>2. ASSUME NEW e \in Expected PROVE m_services'[e] = session
      BY <2>1, <1>5 DEF Initialized, ExpectedAreKeys, Uuid
    <3>3. QED
      BY <1>1, <3>1, <3>2 DEF SubscribesWhenComplete, Discovered
  <2>2. CASE ~Initialized(m_services')
    <3>1. UNCHANGED <<listeners, subscribed>>
      BY <2>2 DEF serviceDetailsDiscovered
    <3>2. QED
      BY <1>1, <1>4, <3>1 DEF SessionInv, SubscribesWhenComplete, Discovered, Uuid
  <2>3. QED
    BY <2>1, <2>2
<1>8. QED
  BY <1>1, <1>3, <1>5, <1>6, <1>7 DEF SessionInv, SessionType, DiscoversOverLink

\* The steps that touch nothing the invariant is about.
LEMMA SessionElsewhere ==
  ASSUME SessionInv, UNCHANGED <<clientvars, listeners, subscribed>>
  PROVE  SessionInv'
BY DEF clientvars, SessionInv, SessionType, DiscoversOverLink, ExpectedAreKeys,
       SubscribesWhenComplete, Discovered

\* Every step of the client, of the link and of the device keeps the invariant.
LEMMA SessionStep == SessionInv /\ [Next]_vars => SessionInv'
<1> SUFFICES ASSUME SessionInv, [Next]_vars PROVE SessionInv'
  OBVIOUS
<1>1. CASE tryConnect
  BY <1>1 DEF tryConnect, SessionInv, SessionType, DiscoversOverLink, ExpectedAreKeys,
              SubscribesWhenComplete, Discovered
<1>2. CASE tryDisconnect
  BY <1>2, DisconnectStep DEF tryDisconnect, SessionInv, SessionType
<1>3. CASE deviceDiscovered
  BY <1>3, DisconnectStep DEF deviceDiscovered, SessionInv, SessionType
<1>4. CASE LinkLost
  BY <1>4, DisconnectStep DEF LinkLost, SessionInv, SessionType
<1>5. CASE connected
  BY <1>5 DEF connected, SessionInv, SessionType, DiscoversOverLink, ExpectedAreKeys,
              SubscribesWhenComplete, Discovered, Uuid
<1>6. ASSUME NEW u \in Uuid, bleServiceDiscovered(u) PROVE SessionInv'
  BY <1>6 DEF bleServiceDiscovered, SessionInv, SessionType, DiscoversOverLink,
              ExpectedAreKeys, SubscribesWhenComplete, Discovered
<1>7. ASSUME NEW u \in Uuid, serviceDetailsDiscovered(u) PROVE SessionInv'
  BY <1>7, DetailsStep
<1>8. ASSUME NEW list \in BOOLEAN, sendConfigPacket(list) PROVE SessionInv'
  BY <1>8, SessionElsewhere DEF sendConfigPacket
<1>9. CASE startStreamingSensors \/ stopStreamingSensors
  BY <1>9, SessionElsewhere DEF startStreamingSensors, stopStreamingSensors
<1>10. CASE Handle \/ Pack \/ Transmit \/ DropRequest \/ DeviceStops
  BY <1>10, SessionElsewhere DEF Handle, Pack, Transmit, DropRequest, DeviceStops
<1>11. CASE characteristicChanged
  BY <1>11, SessionElsewhere DEF characteristicChanged
<1>12. CASE UNCHANGED vars
  BY <1>12, SessionElsewhere DEF vars
<1>13. QED
  BY <1>1, <1>2, <1>3, <1>4, <1>5, <1>6, <1>7, <1>8, <1>9, <1>10, <1>11, <1>12
     DEF Next, User, Discovery, Device

\* The client is subscribed only when each service it expects is one of the
\* connection that is up, over any sequence of connections, although
\* m_services keeps the services of the last one (serviceDetailsDiscovered).
THEOREM SessionSubscribesWhenComplete == Spec => []SubscribesWhenComplete
<1>1. SessionInv => SubscribesWhenComplete
  BY DEF SessionInv
<1>2. QED
  BY SessionInit, SessionStep, <1>1, PTL DEF Spec

-----------------------------------------------------------------------------
(* The stream of samples.                                                  *)

\* The inductive invariant counts the connections of the sensor service.
StreamInv == streams \in Nat /\ StreamTaken

\* Every step keeps it: the device is told to send when the reader is made and
\* told to stop when it is deleted; when the link goes, so do notifications.
LEMMA StreamStep == StreamInv /\ [Next]_vars => StreamInv'
<1> SUFFICES ASSUME StreamInv, [Next]_vars PROVE StreamInv'
  OBVIOUS
<1> USE DEF StreamInv, StreamTaken
<1>1. CASE tryDisconnect \/ deviceDiscovered \/ LinkLost
  BY <1>1 DEF tryDisconnect, deviceDiscovered, LinkLost, Disconnect
<1>2. CASE startStreamingSensors
  BY <1>2 DEF startStreamingSensors
<1>3. CASE stopStreamingSensors
  BY <1>3 DEF stopStreamingSensors, Told
<1>4. CASE UNCHANGED streamvars
  BY <1>4 DEF streamvars
<1>5. CASE \/ tryConnect \/ connected \/ Handle \/ Pack \/ Transmit
           \/ DropRequest \/ DeviceStops \/ characteristicChanged
  BY <1>4, <1>5 DEF tryConnect, connected, Handle, Pack, Transmit, DropRequest, DeviceStops,
                    characteristicChanged
<1>6. ASSUME NEW u \in Uuid, bleServiceDiscovered(u) \/ serviceDetailsDiscovered(u)
      PROVE  StreamInv'
  BY <1>4, <1>6 DEF bleServiceDiscovered, serviceDetailsDiscovered
<1>7. ASSUME NEW list \in BOOLEAN, sendConfigPacket(list) PROVE StreamInv'
  BY <1>4, <1>7 DEF sendConfigPacket
<1>8. CASE UNCHANGED vars
  BY <1>4, <1>8 DEF vars
<1>9. QED
  BY <1>1, <1>2, <1>3, <1>5, <1>6, <1>7, <1>8 DEF Next, User, Discovery, Device

\* The device never sends samples that no reader takes, over any sequence of
\* starts, stops and connections (startStreamingSensors, stopStreamingSensors).
THEOREM SessionStreamTaken == Spec => []StreamTaken
<1>1. Init => StreamInv
  BY DEF Init, StreamInv, StreamTaken
<1>2. StreamInv => StreamTaken
  BY DEF StreamInv
<1>3. QED
  BY <1>1, StreamStep, <1>2, PTL DEF Spec
-----------------------------------------------------------------------------
(* The answer to a request.                                                *)

\* What the answer is made of; a request, a packet of its answer, a byte of it.
Carried == {"config", "event"}
Asked == [id : Nat, list : BOOLEAN]
Owed == [id : Nat, kind : Carried]
Bytes == [packet : Nat, place : Nat, look : Look]

\* The types, as long as the history says `sound'.
AnswerType ==
  /\ asked \in Nat /\ m_inProgress \in BOOLEAN
  /\ requests \in Seq(Asked)
  /\ work \in Seq(Owed)
  /\ left \in [prefix : Seq(Bytes), data : Seq(Bytes)]
  /\ air \in Seq(Seq(Bytes)) /\ rx \in Seq(Bytes)

\* The config service is connected to the receiver exactly while there are
\* notifications, and at most once.
HeardOnce ==
  \/ listeners = 0 /\ subscribed = FALSE
  \/ listeners = 1 /\ subscribed = TRUE

\* The receiver and the device know nothing of an answer.
Silent == work = <<>> /\ left = Nothing /\ air = <<>> /\ rx = <<>>

\* The buffer of the receiver is the beginning of a packet of kind k of which
\* m bytes are missing; an empty one is taken for the end of an event.
Buffered(k, m) ==
  IF rx = <<>> THEN k = "event" /\ m = 0
  ELSE m > 0 /\ Head(rx).look = k /\ Len(rx) + m = Needed(k)

\* Message i begins a packet if the one before it ended one, which was then no
\* answer; otherwise it goes on with it.  k[i] is the kind of its packet, m[i]
\* what it leaves to come.
Follows(k, m, i) ==
  /\ air[i] # <<>>
  /\ IF m[i - 1] = 0
     THEN /\ k[i - 1] = "event" /\ Head(air[i]).look = k[i]
          /\ Len(air[i]) + m[i] = Needed(k[i])
     ELSE /\ k[i] = k[i - 1] /\ Len(air[i]) + m[i] = m[i - 1]

\* The last packet that was begun is of kind `last`; of the one in the air, of
\* kind k, m bytes are missing.
Remains(k, m, last) ==
  \/ left.prefix = <<>> /\ Len(left.data) = m /\ last = k
  \/ /\ Len(left.prefix) = 1 /\ Head(left.prefix).look = last
     /\ Len(left.data) = Size[last]
     /\ m = 0 /\ k = "event"

\* The answer proper is the last packet, and there is one.
EndsWithConfig(last) ==
  /\ last = "config" <=> work = <<>>
  /\ \A i \in DOMAIN work : work[i].kind = "config" <=> i = Len(work)

\* The kinds k and the missing bytes m lead from the buffer to the device.
Links(k, m) ==
  /\ Buffered(k[0], m[0])
  /\ \A i \in 1 .. Len(air) : Follows(k, m, i)
  /\ \E last \in Carried : Remains(k[Len(air)], m[Len(air)], last) /\ EndsWithConfig(last)

\* A request is nowhere, on its way to the device, or being answered.
Idle == ~m_inProgress /\ requests = <<>> /\ Silent
Waiting == m_inProgress /\ listeners = 1 /\ Len(requests) = 1 /\ Silent
Answering ==
  /\ m_inProgress /\ listeners = 1 /\ requests = <<>>
  /\ \E k \in [0 .. Len(air) -> Carried], m \in [0 .. Len(air) -> Nat] : Links(k, m)

\* The inductive invariant.
AnswerInv == sound => AnswerType /\ HeardOnce /\ (Idle \/ Waiting \/ Answering)

\* Sound histories begin with no request.
LEMMA AnswerInit == Init => AnswerInv
<1> SUFFICES ASSUME Init PROVE AnswerInv
  OBVIOUS
<1>1. AnswerType
  <2>1. <<>> \in Seq(Bytes) /\ <<>> \in Seq(Seq(Bytes)) /\ <<>> \in Seq(Asked)
        /\ <<>> \in Seq(Owed)
    BY EmptySeq
  <2>2. QED
    BY <2>1 DEF Init, AnswerType, Nothing
<1>2. HeardOnce
  BY DEF Init, HeardOnce
<1>3. Idle
  BY DEF Init, Idle, Silent
<1>4. QED
  BY <1>1, <1>2, <1>3 DEF AnswerInv

\* Something is on its way exactly while the flag stands.
LEMMA AnswerBusy ==
  ASSUME AnswerType, Idle \/ Waiting \/ Answering
  PROVE  m_inProgress <=> Busy
<1>1. CASE Idle
  BY <1>1 DEF Idle, Silent, Busy
<1>2. CASE Waiting
  <2>1. requests # <<>>
    BY <1>2 DEF Waiting
  <2>2. QED
    BY <1>2, <2>1 DEF Waiting, Busy
<1>3. CASE Answering
  <2>1. PICK k \in [0 .. Len(air) -> Carried], m \in [0 .. Len(air) -> Nat] : Links(k, m)
    BY <1>3 DEF Answering
  <2>2. PICK last \in Carried : /\ Remains(k[Len(air)], m[Len(air)], last)
                                /\ EndsWithConfig(last)
    BY <2>1 DEF Links
  <2>3. SUFFICES ASSUME Silent PROVE FALSE
    BY <1>3, <2>3 DEF Answering, Busy, Silent
  <2>4. Len(air) = 0 /\ k[0] = "event" /\ last = "config"
    BY <2>1, <2>2, <2>3 DEF Silent, Links, Buffered, EndsWithConfig
  <2>5. left.prefix = <<>> /\ left.data = <<>>
    BY <2>3 DEF Silent, Nothing
  <2>6. QED
    BY <2>2, <2>4, <2>5 DEF Remains
<1>4. QED
  BY <1>1, <1>2, <1>3

\* When the link goes, the history stays sound only if nothing was on its way.
LEMMA AnswerDisconnect ==
  ASSUME AnswerInv, Disconnect, UNCHANGED <<m_inProgress, rx, work, left, asked>>
  PROVE  AnswerInv'
<1> SUFFICES ASSUME sound' PROVE AnswerType' /\ HeardOnce' /\ Idle'
  BY DEF AnswerInv
<1>1. sound /\ ~Busy
  BY DEF Disconnect
<1>2. AnswerType /\ HeardOnce /\ Idle
  BY <1>1, AnswerBusy DEF AnswerInv, Waiting, Answering
<1>3. requests = <<>> /\ air = <<>>
  BY <1>1 DEF Busy
<1>4. requests' = <<>>
  <2>1. PICK n \in 0 .. Len(requests) : requests' = SubSeq(requests, 1, n)
    BY DEF Disconnect
  <2>2. n = 0
    BY <1>3, <2>1
  <2>3. QED
    BY <2>1, <2>2, SubSeqEmpty
<1>5. air' = <<>> /\ listeners' = 0 /\ subscribed' = FALSE
  BY DEF Disconnect
<1>6. AnswerType'
  BY <1>2, <1>3, <1>4, <1>5 DEF AnswerType
<1>7. HeardOnce'
  BY <1>5 DEF HeardOnce
<1>8. Idle'
  BY <1>2, <1>4, <1>5 DEF Idle, Silent
<1>9. QED
  BY <1>6, <1>7, <1>8

\* The steps that touch nothing of the answer.
LEMMA AnswerElsewhere ==
  ASSUME AnswerInv,
         UNCHANGED <<listeners, subscribed, m_inProgress, rx, answervars, asked, sound>>
  PROVE  AnswerInv'
<1> USE DEF answervars
<1>1. AnswerType = AnswerType' /\ HeardOnce = HeardOnce' /\ Idle = Idle' /\ Waiting = Waiting'
  BY DEF AnswerType, HeardOnce, Idle, Waiting, Silent
<1>2. Answering = Answering'
  BY DEF Answering, Links, Buffered, Follows, Remains, EndsWithConfig
<1>3. QED
  BY <1>1, <1>2 DEF AnswerInv

\* A second connection of the config service, which would hear each message
\* twice, is no longer sound; with the first nothing is on its way.
LEMMA AnswerDetails ==
  ASSUME AnswerInv, NEW u \in Uuid, serviceDetailsDiscovered(u)
  PROVE  AnswerInv'
<1> SUFFICES ASSUME sound' PROVE AnswerInv'
  BY DEF AnswerInv
<1> USE DEF serviceDetailsDiscovered
<1>1. CASE Initialized(m_services')
  <2>1. sound /\ listeners = 0 /\ listeners' = listeners + 1 /\ subscribed' = TRUE
    BY <1>1 DEF waitForMessages
  <2>2. AnswerType /\ Idle
    BY <2>1 DEF AnswerInv, Waiting, Answering
  <2>3. UNCHANGED <<asked, m_inProgress, requests, work, left, air, rx>>
    BY DEF answervars
  <2>4. AnswerType' /\ Idle'
    BY <2>2, <2>3 DEF AnswerType, Idle, Silent
  <2>5. HeardOnce'
    BY <2>1 DEF HeardOnce
  <2>6. QED
    BY <2>4, <2>5 DEF AnswerInv
<1>2. CASE ~Initialized(m_services')
  BY <1>2, AnswerElsewhere DEF answervars
<1>3. QED
  BY <1>1, <1>2

\* A request is made when the last one has been answered, and reaches the
\* device over a sound connection.
LEMMA AnswerSend ==
  ASSUME AnswerInv, NEW list \in BOOLEAN, sendConfigPacket(list)
  PROVE  AnswerInv'
<1> SUFFICES ASSUME sound' PROVE AnswerType' /\ HeardOnce' /\ Waiting'
  BY DEF AnswerInv
<1> USE DEF sendConfigPacket
<1>1. sound /\ subscribed /\ ~m_inProgress
      /\ requests' = Append(requests, [id |-> asked', list |-> list])
  BY DEF MaySend
<1>2. AnswerType /\ HeardOnce /\ Idle
  BY <1>1 DEF AnswerInv, Waiting, Answering
<1>3. listeners = 1 /\ requests = <<>>
  BY <1>1, <1>2 DEF HeardOnce, Idle
<1>4. [id |-> asked', list |-> list] \in Asked
  BY <1>2 DEF AnswerType, Asked
<1>5. requests' \in Seq(Asked) /\ Len(requests') = 1
  BY <1>1, <1>2, <1>3, <1>4, AppendProperties DEF AnswerType
<1>6. QED
  BY <1>2, <1>3, <1>5 DEF AnswerType, HeardOnce, Idle, Waiting, Silent

\* A function on 1 .. n is a sequence of length n.
LEMMA MakesSeq ==
  ASSUME NEW S, NEW n \in Nat, NEW f \in [1 .. n -> S]
  PROVE  f \in Seq(S) /\ Len(f) = n /\ DOMAIN f = 1 .. n
<1>1. f \in Seq(S)
  BY SeqDef
<1>2. DOMAIN f = 1 .. n
  OBVIOUS
<1>3. Len(f) \in Nat /\ DOMAIN f = 1 .. Len(f)
  BY <1>1, LenProperties
<1>4. QED
  BY <1>1, <1>2, <1>3

\* The answer to a request is events, if any, and the answer proper.
LEMMA AnswerHandle ==
  ASSUME AnswerInv, Handle
  PROVE  AnswerInv'
<1> SUFFICES ASSUME sound' PROVE AnswerType' /\ HeardOnce' /\ Answering'
  BY DEF AnswerInv
<1>1. /\ sound /\ requests # <<>> /\ requests' = Tail(requests)
      /\ UNCHANGED <<asked, m_inProgress, left, air, rx, listeners, subscribed>>
  BY DEF Handle
<1>2. AnswerType /\ HeardOnce /\ Waiting
  BY <1>1 DEF AnswerInv, Idle, Answering
<1>3. Head(requests) \in Asked /\ requests' = <<>>
      /\ requests' \in Seq(Asked)
  <2>1. requests \in Seq(Asked) /\ Len(requests) = 1
    BY <1>2 DEF AnswerType, Waiting
  <2>2. Head(requests) \in Asked
        /\ requests' \in Seq(Asked) /\ Len(requests') = 0
    BY <1>1, <2>1, HeadTailProperties
  <2>3. QED
    BY <2>2, EmptySeq
<1> PICK n \in Nat : n = IF Head(requests).list THEN Listed + 1 ELSE 1
  BY SessionAssumption
<1>4. n > 0 /\ \A i \in 1 .. n : Head(requests).list /\ i <= Listed <=> i # n
  BY <1>3, SessionAssumption DEF Asked
<1>5. /\ work' \in [1 .. n -> Owed]
      /\ \A i \in 1 .. n : work'[i].kind = "config" <=> i = n
  BY <1>3, <1>4 DEF Handle, Carried, Asked, Owed
<1>6. work' \in Seq(Owed) /\ Len(work') = n
      /\ DOMAIN work' = 1 .. n /\ work' # <<>>
  <2>1. work' \in Seq(Owed) /\ Len(work') = n /\ DOMAIN work' = 1 .. n
    BY <1>4, <1>5, MakesSeq
  <2>2. QED
    BY <1>4, <2>1, EmptySeq
<1>7. AnswerType'
  BY <1>1, <1>2, <1>3, <1>6 DEF AnswerType
<1>8. HeardOnce'
  BY <1>1, <1>2 DEF HeardOnce
<1>9. Answering'
  <2> DEFINE k == [i \in 0 .. 0 |-> "event"]
             m == [i \in 0 .. 0 |-> 0]
  <2>1. rx' = <<>> /\ air' = <<>> /\ left' = Nothing /\ Len(air') = 0
    BY <1>1, <1>2 DEF Waiting, Silent
  <2>2. k \in [0 .. Len(air') -> Carried] /\ m \in [0 .. Len(air') -> Nat]
        /\ k[0] = "event" /\ m[0] = 0
    BY <2>1 DEF Carried
  <2>3. Buffered(k[0], m[0])'
    BY <2>1, <2>2 DEF Buffered
  <2>4. Remains(k[0], m[0], "event")'
    BY <2>1, <2>2 DEF Remains, Nothing
  <2>5. EndsWithConfig("event")'
    BY <1>5, <1>6 DEF EndsWithConfig
  <2>6. Links(k, m)'
    BY <2>1, <2>2, <2>3, <2>4, <2>5 DEF Links, Carried
  <2>7. QED
    BY <1>1, <1>2, <1>3, <2>2, <2>6 DEF Answering, Waiting
<1>10. QED
  BY <1>7, <1>8, <1>9

\* The bytes of a packet that is begun.
LEMMA PackFacts ==
  ASSUME AnswerType, Pack
  PROVE  /\ left'.prefix \in Seq(Bytes) /\ left'.data \in Seq(Bytes)
         /\ Len(left'.prefix) = 1 /\ Head(left'.prefix).look = Head(work).kind
         /\ Len(left'.data) = Size[Head(work).kind]
         /\ left' \in [prefix : Seq(Bytes), data : Seq(Bytes)]
<1> DEFINE p == Head(work)
           body == [i \in 1 .. Size[p.kind] |-> "other"]
<1>1. p \in Owed
  BY HeadTailProperties DEF Pack, AnswerType
<1>2. Size[p.kind] \in Nat
  BY <1>1, FormatAssumption DEF Owed, Carried, Kind
<1>3. Header(p.kind, p.id) \in Bytes /\ Header(p.kind, p.id).look = p.kind
  BY <1>1 DEF Header, Cell, Owed, Bytes, Carried, Look, Kind
<1>4. DOMAIN body = 1 .. Size[p.kind] /\ \A i \in DOMAIN body : body[i] = "other"
  OBVIOUS
<1>5. Content(body, p.id) \in [1 .. Size[p.kind] -> Bytes]
  <2>1. ASSUME NEW i \in 1 .. Size[p.kind] PROVE Cell(p.id, i, body[i]) \in Bytes
    BY <1>1, <1>2, <1>4 DEF Cell, Owed, Bytes, Look
  <2>2. QED
    BY <1>4, <2>1 DEF Content
<1>6. Content(body, p.id) \in Seq(Bytes) /\ Len(Content(body, p.id)) = Size[p.kind]
  BY <1>2, <1>5, MakesSeq
<1>7. left' = [prefix |-> <<Header(p.kind, p.id)>>, data |-> Content(body, p.id)]
  BY DEF Pack
<1>8. <<Header(p.kind, p.id)>> \in Seq(Bytes) /\ Len(<<Header(p.kind, p.id)>>) = 1
      /\ Head(<<Header(p.kind, p.id)>>) = Header(p.kind, p.id)
  BY <1>3
<1>9. QED
  BY <1>3, <1>6, <1>7, <1>8

\* The next packet is begun when the last one, an event, is gone.
LEMMA AnswerPack ==
  ASSUME AnswerInv, Pack
  PROVE  AnswerInv'
<1> SUFFICES ASSUME sound' PROVE AnswerType' /\ HeardOnce' /\ Answering'
  BY DEF AnswerInv
<1>1. sound /\ work # <<>> /\ left = Nothing
      /\ UNCHANGED <<asked, m_inProgress, requests, air, rx, listeners, subscribed>>
  BY DEF Pack, clientvars
<1>2. AnswerType /\ HeardOnce /\ Answering
  BY <1>1 DEF AnswerInv, Idle, Waiting, Silent
<1>3. Head(work) \in Owed /\ work' = Tail(work)
      /\ work' \in Seq(Owed) /\ Len(work') = Len(work) - 1
      /\ (\A i \in 1 .. Len(work') : work'[i] = work[i + 1])
  BY <1>1, <1>2, HeadTailProperties DEF AnswerType, Pack
<1>4. AnswerType'
  BY <1>1, <1>2, <1>3, PackFacts DEF AnswerType
<1>5. HeardOnce'
  BY <1>1, <1>2 DEF HeardOnce
<1>6. PICK k \in [0 .. Len(air) -> Carried], m \in [0 .. Len(air) -> Nat] : Links(k, m)
  BY <1>2 DEF Answering
<1>7. PICK last \in Carried : /\ Remains(k[Len(air)], m[Len(air)], last)
                              /\ EndsWithConfig(last)
  BY <1>6 DEF Links
<1>8. last = "event" /\ last = k[Len(air)] /\ m[Len(air)] = 0
  <2>1. last = "event"
    BY <1>1, <1>7 DEF EndsWithConfig, Carried
  <2>2. left.prefix = <<>> /\ left.data = <<>> /\ Len(left.prefix) = 0 /\ Len(left.data) = 0
    BY <1>1 DEF Nothing
  <2>3. QED
    BY <1>7, <2>1, <2>2 DEF Remains
<1> PICK next \in Carried : next = Head(work).kind
  BY <1>3 DEF Owed
<1>9. Remains(k[Len(air)], m[Len(air)], next)'
  BY <1>1, <1>2, <1>8, PackFacts DEF Remains
<1>10. EndsWithConfig(next)'
  <2>1. Len(work) \in Nat \ {0} /\ DOMAIN work = 1 .. Len(work) /\ Head(work) = work[1]
        /\ DOMAIN work' = 1 .. Len(work')
    BY <1>1, <1>2, <1>3, EmptySeq, LenProperties DEF AnswerType
  <2>2. next = "config" <=> 1 = Len(work)
    BY <1>7, <2>1 DEF EndsWithConfig
  <2>3. work' = <<>> <=> Len(work) = 1
    <3>1. work' = <<>> <=> Len(work') = 0
      BY <1>3, EmptySeq
    <3>2. QED
      BY <1>3, <2>1, <3>1
  <2>4. ASSUME NEW i \in DOMAIN work' PROVE work'[i].kind = "config" <=> i = Len(work')
    BY <1>3, <1>7, <2>1 DEF EndsWithConfig
  <2>5. QED
    BY <2>2, <2>3, <2>4 DEF EndsWithConfig
<1>11. Links(k, m)'
  BY <1>1, <1>3, <1>6, <1>9, <1>10 DEF Links, Buffered, Follows
<1>12. QED
  BY <1>1, <1>2, <1>4, <1>5, <1>6, <1>11 DEF Answering

-----------------------------------------------------------------------------
(* A message on its way.                                                   *)

\* A turn of the loop of ble_tx_head takes something from what is left, and the
\* header with the first message.
LEMMA MessageFacts ==
  ASSUME NEW l \in [prefix : Seq(Bytes), data : Seq(Bytes)],
         Len(l.prefix) <= 1, l # Nothing
  PROVE  /\ Message(l) \in Seq(Bytes) /\ Message(l) # <<>>
         /\ l.prefix # <<>> => Head(Message(l)) = Head(l.prefix)
         /\ Advance(l) \in [prefix : Seq(Bytes), data : Seq(Bytes)]
         /\ Advance(l).prefix = <<>>
         /\ Len(Advance(l).data) + Len(Message(l)) = Len(l.prefix) + Len(l.data)
<1> PICK p \in Seq(Bytes), d \in Seq(Bytes) : l = [prefix |-> p, data |-> d]
  OBVIOUS
<1>1. l.prefix = p /\ l.data = d
  OBVIOUS
<1> PICK a \in Nat, b \in Nat : a = Len(p) /\ b = Len(d)
  BY LenProperties
<1>2. a <= 1 /\ a + b > 0
  <2>1. p # <<>> \/ d # <<>>
    BY DEF Nothing
  <2>2. QED
    BY <1>1, <2>1, EmptySeq
<1>3. Fragment \in Nat /\ Fragment > 1
  BY FormatAssumption
<1>4. PICK s \in Int : s = ToSend(l) /\ s \in 0 .. b /\ a + s > 0
  <2>1. ToSend(l) = Least(Fragment, b + a) - a
    BY <1>1 DEF ToSend
  <2>2. QED
    BY <1>2, <1>3, <2>1 DEF Least
<1>5. \A i \in 1 .. b : d[i] \in Bytes
  BY ElementOfSeq
<1>6. SubSeq(d, 1, s) \in Seq(Bytes) /\ Len(SubSeq(d, 1, s)) = s
  <2>1. \A i \in 1 .. s : d[i] \in Bytes
    BY <1>1, <1>4, <1>5
  <2>2. SubSeq(d, 1, s) \in Seq(Bytes) /\ Len(SubSeq(d, 1, s)) = IF 1 <= s THEN s - 1 + 1 ELSE 0
    BY <2>1, SubSeqProperties
  <2>3. QED
    BY <1>4, <2>2
<1>7. SubSeq(d, s + 1, b) \in Seq(Bytes) /\ Len(SubSeq(d, s + 1, b)) = b - s
  <2>1. \A i \in s + 1 .. b : d[i] \in Bytes
    BY <1>1, <1>4, <1>5
  <2>2. s + 1 \in Int /\ b \in Int
    BY <1>1
  <2>3. /\ SubSeq(d, s + 1, b) \in Seq(Bytes)
        /\ Len(SubSeq(d, s + 1, b)) = IF s + 1 <= b THEN b - (s + 1) + 1 ELSE 0
    BY <2>1, <2>2, SubSeqProperties
  <2>4. QED
    BY <1>1, <1>4, <2>3
<1>8. Message(l) = p \o SubSeq(d, 1, s)
      /\ Advance(l) = [prefix |-> <<>>, data |-> SubSeq(d, s + 1, b)]
  BY <1>1, <1>4 DEF Message, Advance
<1>9. Message(l) \in Seq(Bytes) /\ Len(Message(l)) = a + s
      /\ \A i \in 1 .. a + s : Message(l)[i] = IF i <= a THEN p[i]
                                                    ELSE SubSeq(d, 1, s)[i - a]
  <2> PICK t \in Seq(Bytes) : t = SubSeq(d, 1, s)
    BY <1>6
  <2>1. Message(l) = p \o t /\ Len(t) = s
    BY <1>6, <1>8
  <2>2. /\ p \o t \in Seq(Bytes) /\ Len(p \o t) = a + s
        /\ \A i \in 1 .. a + s : (p \o t)[i] = IF i <= a THEN p[i] ELSE t[i - a]
    BY <2>1, ConcatProperties
  <2>3. QED
    BY <2>1, <2>2
<1>10. Message(l) # <<>>
  BY <1>4, <1>9, EmptySeq
<1>11. ASSUME p # <<>> PROVE Head(Message(l)) = Head(p)
  <2>1. a > 0
    BY <1>1, <1>11, EmptySeq
  <2>2. Message(l)[1] = p[1]
    BY <1>1, <1>4, <1>9, <2>1
  <2>3. QED
    BY <1>10, <1>11, <2>2, <1>9
<1>12. Advance(l) \in [prefix : Seq(Bytes), data : Seq(Bytes)] /\ Advance(l).prefix = <<>>
       /\ Advance(l).data = SubSeq(d, s + 1, b)
  <2>1. \A u \in Seq(Bytes) :
          [prefix |-> <<>>, data |-> u] \in [prefix : Seq(Bytes), data : Seq(Bytes)]
    <3>1. <<>> \in Seq(Bytes)
      BY EmptySeq
    <3>2. QED
      BY <3>1
  <2> PICK t \in Seq(Bytes) : t = SubSeq(d, s + 1, b)
    BY <1>7
  <2>2. Advance(l) = [prefix |-> <<>>, data |-> t]
    BY <1>8
  <2>3. Advance(l).prefix = <<>> /\ Advance(l).data = t
    BY <2>2
  <2>4. Advance(l) \in [prefix : Seq(Bytes), data : Seq(Bytes)]
    BY <2>1, <2>2
  <2>5. QED
    BY <2>3, <2>4
<1>13. Len(Advance(l).data) + Len(Message(l)) = Len(l.prefix) + Len(l.data)
  <2>1. Len(Advance(l).data) = b - s /\ Len(Message(l)) = a + s
    BY <1>7, <1>9, <1>12
  <2>2. Len(l.prefix) = a /\ Len(l.data) = b
    BY <1>1
  <2>3. QED
    BY <2>1, <2>2
<1>14. QED
  BY <1>1, <1>9, <1>10, <1>11, <1>12, <1>13

\* A message is handed over while there are notifications.
LEMMA AnswerTransmit ==
  ASSUME AnswerInv, Transmit
  PROVE  AnswerInv'
<1> SUFFICES ASSUME sound' PROVE AnswerType' /\ HeardOnce' /\ Answering'
  BY DEF AnswerInv
<1>1. /\ sound /\ left # Nothing /\ left' = Advance(left) /\ air' = Append(air, Message(left))
      /\ UNCHANGED <<asked, m_inProgress, requests, work, rx, listeners, subscribed>>
  BY DEF Transmit
<1>2. AnswerType /\ HeardOnce /\ Answering
  BY <1>1 DEF AnswerInv, Idle, Waiting, Silent
<1> PICK n \in Nat : n = Len(air)
  BY <1>2, LenProperties DEF AnswerType
<1>3. PICK k \in [0 .. n -> Carried], m \in [0 .. n -> Nat] : Links(k, m)
  BY <1>2 DEF Answering
<1>4. PICK last \in Carried : Remains(k[n], m[n], last) /\ EndsWithConfig(last)
  BY <1>3 DEF Links
<1>5. Len(left.prefix) <= 1
  <2>1. left.prefix = <<>> \/ Len(left.prefix) = 1
    BY <1>4 DEF Remains
  <2>2. QED
    BY <2>1
<1> PICK message \in Seq(Bytes) : message = Message(left)
  BY <1>1, <1>2, <1>5, MessageFacts DEF AnswerType
<1> PICK rest \in Nat : rest = Len(Advance(left).data)
  BY <1>1, <1>2, <1>5, MessageFacts, LenProperties DEF AnswerType
<1>6. /\ message # <<>>
      /\ left.prefix # <<>> => Head(message) = Head(left.prefix)
      /\ left' \in [prefix : Seq(Bytes), data : Seq(Bytes)]
      /\ left'.prefix = <<>> /\ Len(left'.data) = rest
      /\ rest + Len(message) = Len(left.prefix) + Len(left.data)
  BY <1>1, <1>2, <1>5, MessageFacts DEF AnswerType
<1>7. /\ air' \in Seq(Seq(Bytes)) /\ Len(air') = n + 1 /\ air'[n + 1] = message
      /\ \A i \in 1 .. n : air'[i] = air[i]
  BY <1>1, <1>2, AppendProperties DEF AnswerType
<1>8. AnswerType'
  BY <1>1, <1>2, <1>6, <1>7 DEF AnswerType
<1>9. HeardOnce'
  BY <1>1, <1>2 DEF HeardOnce
<1>10. PICK k2 \in [0 .. n + 1 -> Carried], m2 \in [0 .. n + 1 -> Nat] :
         /\ k2[n + 1] = last /\ m2[n + 1] = rest
         /\ \A i \in 0 .. n : k2[i] = k[i] /\ m2[i] = m[i]
  <2> DEFINE k2 == [i \in 0 .. n + 1 |-> IF i <= n THEN k[i] ELSE last]
             m2 == [i \in 0 .. n + 1 |-> IF i <= n THEN m[i] ELSE rest]
  <2>1. /\ k2 \in [0 .. n + 1 -> Carried] /\ m2 \in [0 .. n + 1 -> Nat]
        /\ k2[n + 1] = last /\ m2[n + 1] = rest
        /\ \A i \in 0 .. n : k2[i] = k[i] /\ m2[i] = m[i]
    OBVIOUS
  <2> HIDE DEF k2, m2
  <2>2. QED
    BY <2>1
<1>11. Buffered(k2[0], m2[0])'
  BY <1>1, <1>3, <1>10 DEF Links, Buffered
<1>12. ASSUME NEW i \in 1 .. n PROVE Follows(k2, m2, i)'
  <2>1. i \in 0 .. n /\ i - 1 \in 0 .. n
    OBVIOUS
  <2>2. Follows(k, m, i)
    BY <1>3 DEF Links
  <2>3. QED
    BY <1>7, <1>10, <2>1, <2>2 DEF Follows
<1>13. Follows(k2, m2, n + 1)'
  <2>1. k2[n + 1 - 1] = k[n] /\ m2[n + 1 - 1] = m[n] /\ m[n] \in Nat
    BY <1>3, <1>10
  <2>2. CASE left.prefix = <<>> /\ Len(left.data) = m[n] /\ last = k[n]
    <3>1. Len(message) + rest = m[n] /\ Len(message) \in Nat \ {0}
      BY <1>6, <2>1, <2>2, EmptySeq
    <3>2. m2[n + 1 - 1] # 0 /\ k2[n + 1] = k2[n + 1 - 1] /\ Len(message) + m2[n + 1] = m2[n + 1 - 1]
      BY <1>10, <2>1, <2>2, <3>1
    <3>3. QED
      BY <1>6, <1>7, <3>2 DEF Follows
  <2>3. CASE /\ Len(left.prefix) = 1 /\ Head(left.prefix).look = last
             /\ Len(left.data) = Size[last]
             /\ m[n] = 0 /\ k[n] = "event"
    <3>1. left.prefix # <<>>
      BY <2>3, EmptySeq
    <3>2. Size[last] \in Nat
      BY FormatAssumption DEF Carried, Kind
    <3>3. Head(message).look = last
      BY <1>6, <2>3, <3>1
    <3>4. Len(message) + rest = Needed(last)
      <4>1. Len(message) \in Nat
        BY LenProperties
      <4>2. rest + Len(message) = 1 + Size[last]
        BY <1>6, <2>3
      <4>3. QED
        BY <3>2, <4>1, <4>2 DEF Needed
    <3>5. QED
      BY <1>6, <1>7, <1>10, <2>1, <2>3, <3>3, <3>4 DEF Follows
  <2>4. QED
    BY <1>4, <2>2, <2>3 DEF Remains
<1>14. Remains(k2[n + 1], m2[n + 1], last)' /\ EndsWithConfig(last)'
  BY <1>1, <1>4, <1>6, <1>10 DEF Remains, EndsWithConfig
<1>15. Links(k2, m2)'
  <2>1. ASSUME NEW i \in 1 .. n + 1 PROVE Follows(k2, m2, i)'
    <3>1. i \in 1 .. n \/ i = n + 1
      OBVIOUS
    <3>2. QED
      BY <1>12, <1>13, <3>1
  <2>2. QED
    BY <1>7, <1>11, <1>14, <2>1 DEF Links
<1>16. QED
  BY <1>1, <1>2, <1>7, <1>8, <1>9, <1>10, <1>15 DEF Answering

-----------------------------------------------------------------------------
(* A message that arrives.                                                 *)

\* With one connection the receiver is called once.
LEMMA NotifiedOnce ==
  ASSUME listeners = 1
  PROVE  /\ Notified[1].buffer = Attempt(rx \o Head(air)).buffer
         /\ Notified[1].objects = <<>> \o Attempt(rx \o Head(air)).objects
<1> DEFINE first == [buffer |-> rx, objects |-> <<>>]
           Heard(before) ==
             LET now == Attempt(before.buffer \o Head(air)) IN
             [buffer |-> now.buffer, objects |-> before.objects \o now.objects]
           Def(f) == [n \in 0 .. listeners |-> IF n = 0 THEN first ELSE Heard(f[n - 1])]
           run == [n \in 0 .. 1 |-> IF n = 0 THEN first ELSE Heard(first)]
<1>1. run = Def(run)
  <2> HIDE DEF first, Heard
  <2>1. \A n \in 0 .. 1 : n # 0 => run[n - 1] = first
    OBVIOUS
  <2>2. Def(run) = [n \in 0 .. 1 |-> IF n = 0 THEN first ELSE Heard(run[n - 1])]
    OBVIOUS
  <2>3. QED
    BY <2>1, <2>2
<1>2. Notified = CHOOSE f : f = Def(f)
  BY DEF Notified
<1>3. Notified = Def(Notified)
  <2> HIDE DEF Def, run
  <2>1. QED
    BY <1>1, <1>2
<1>4. Notified[1] = Heard(first)
  <2> HIDE DEF first, Heard
  <2>1. Notified[0] = first
    BY <1>3
  <2>2. Notified[1] = Heard(Notified[0])
    BY <1>3
  <2>3. QED
    BY <2>1, <2>2
<1>5. QED
  BY <1>4

\* The receiver leaves the beginning of a packet where it is, and takes a whole
\* one out.
LEMMA AttemptFacts ==
  ASSUME NEW buffer \in Seq(Bytes), buffer # <<>>,
         NEW kind \in Carried, Head(buffer).look = kind
  PROVE  /\ Len(buffer) < Needed(kind) =>
              Attempt(buffer) = [buffer |-> buffer, objects |-> <<>>]
         /\ Len(buffer) = Needed(kind) =>
              /\ Attempt(buffer).buffer = <<>>
              /\ \E o : o.kind = kind /\ Attempt(buffer).objects = <<o>>
<1>1. Needed(kind) \in Nat /\ Len(buffer) \in Nat /\ kind \in Kind
  BY FormatAssumption, LenProperties DEF Needed, Carried, Kind
<1>2. ASSUME Len(buffer) < Needed(kind)
      PROVE  Attempt(buffer) = [buffer |-> buffer, objects |-> <<>>]
  <2>1. ~Readable(buffer)
    BY <1>1, <1>2 DEF Readable
  <2>2. QED
    BY <2>1 DEF Attempt
<1>3. ASSUME Len(buffer) = Needed(kind)
      PROVE  /\ Attempt(buffer).buffer = <<>>
             /\ \E o : o.kind = kind /\ Attempt(buffer).objects = <<o>>
  <2>1. Readable(buffer)
    BY <1>1, <1>3 DEF Readable
  <2>2. Attempt(buffer) = [buffer |-> LeftOver(buffer), objects |-> <<Object(buffer)>>]
    BY <2>1 DEF Attempt
  <2>3. LeftOver(buffer) = <<>>
    <3>1. Needed(kind) + 1 \in Int /\ Len(buffer) \in Int /\ Len(buffer) < Needed(kind) + 1
      BY <1>1, <1>3
    <3>2. QED
      BY <3>1, SubSeqEmpty DEF LeftOver
  <2>4. Object(buffer).kind = kind
    BY DEF Object
  <2>5. QED
    BY <2>2, <2>3, <2>4
<1>4. QED
  BY <1>2, <1>3

\* What the buffer holds once the first message in the air is behind it.
LEMMA HeardFacts ==
  ASSUME AnswerType, air # <<>>,
         NEW k \in [0 .. Len(air) -> Carried], NEW m \in [0 .. Len(air) -> Nat], Links(k, m)
  PROVE  /\ 1 \in 0 .. Len(air)
         /\ rx \o Head(air) \in Seq(Bytes) /\ rx \o Head(air) # <<>>
         /\ Head(rx \o Head(air)).look = k[1]
         /\ Len(rx \o Head(air)) + m[1] = Needed(k[1])
<1> PICK n \in Nat : n = Len(air) /\ n > 0
  BY EmptySeq, LenProperties DEF AnswerType
<1>1. 1 \in 0 .. n /\ 0 \in 0 .. n /\ k[0] \in Carried /\ k[1] \in Carried
      /\ m[0] \in Nat /\ m[1] \in Nat
  OBVIOUS
<1> PICK message \in Seq(Bytes) : message = Head(air) /\ message = air[1]
  BY HeadTailProperties DEF AnswerType
<1>2. Follows(k, m, 1)
  BY DEF Links
<1>3. /\ message # <<>>
      /\ IF m[0] = 0
         THEN /\ k[0] = "event" /\ Head(message).look = k[1]
              /\ Len(message) + m[1] = Needed(k[1])
         ELSE /\ k[1] = k[0] /\ Len(message) + m[1] = m[0]
  BY <1>2 DEF Follows
<1>4. Len(message) \in Nat \ {0} /\ Len(rx) \in Nat
  BY <1>3, EmptySeq, LenProperties DEF AnswerType
<1>5. rx \in Seq(Bytes)
  BY DEF AnswerType
<1> PICK buffer \in Seq(Bytes) : buffer = rx \o message
  BY <1>5, ConcatProperties
<1>6. /\ Len(buffer) = Len(rx) + Len(message)
      /\ \A i \in 1 .. Len(rx) + Len(message) :
           buffer[i] = IF i <= Len(rx) THEN rx[i] ELSE message[i - Len(rx)]
  BY <1>5, ConcatProperties
<1>7. buffer # <<>> /\ Head(buffer) = buffer[1]
  <2>1. Len(buffer) > 0
    BY <1>4, <1>6
  <2>2. QED
    BY <2>1, EmptySeq
<1>8. Buffered(k[0], m[0])
  BY DEF Links
<1>9. CASE rx = <<>>
  <2>1. Len(rx) = 0 /\ m[0] = 0
    BY <1>8, <1>9, EmptySeq DEF Buffered
  <2>2. buffer[1] = message[1] /\ message[1] = Head(message)
    BY <1>3, <1>4, <1>6, <2>1
  <2>3. Len(buffer) + m[1] = Needed(k[1])
    BY <1>1, <1>3, <1>4, <1>6, <2>1
  <2>4. QED
    BY <1>1, <1>3, <1>7, <2>1, <2>2, <2>3
<1>10. CASE rx # <<>>
  <2>1. Len(rx) > 0 /\ m[0] > 0 /\ Head(rx).look = k[0] /\ Len(rx) + m[0] = Needed(k[0])
    BY <1>4, <1>5, <1>8, <1>10, EmptySeq DEF Buffered
  <2>2. buffer[1] = rx[1] /\ rx[1] = Head(rx)
    BY <1>4, <1>5, <1>6, <1>10, <2>1
  <2>3. k[1] = k[0] /\ Len(message) + m[1] = m[0]
    BY <1>1, <1>3, <2>1
  <2>4. Len(buffer) + m[1] = Needed(k[1])
    BY <1>1, <1>4, <1>6, <2>1, <2>3
  <2>5. QED
    BY <1>1, <1>7, <2>1, <2>2, <2>3, <2>4
<1>11. QED
  BY <1>9, <1>10

\* onConfigPacket is not called when nothing was put together.
LEMMA AnsweredNone == ~Answered(<<>> \o <<>>)
<1>1. <<>> \o <<>> = <<>>
  BY ConcatEmptySeq, EmptySeq
<1>2. DOMAIN <<>> = {}
  OBVIOUS
<1>3. QED
  BY <1>1, <1>2 DEF Answered

\* Of one object its kind decides.
LEMMA AnsweredOne ==
  ASSUME NEW o
  PROVE  Answered(<<>> \o <<o>>) <=> o.kind = "config"
<1>1. <<o>> \in Seq({o})
  OBVIOUS
<1>2. <<>> \o <<o>> = <<o>>
  BY <1>1, ConcatEmptySeq
<1>3. DOMAIN <<o>> = {1} /\ <<o>>[1] = o
  OBVIOUS
<1>4. QED
  BY <1>2, <1>3 DEF Answered

\* When the answer proper is whole, nothing is left of it, and the flag falls;
\* otherwise there is one message less in the air.
LEMMA AnswerHeard ==
  ASSUME AnswerInv, characteristicChanged
  PROVE  AnswerInv'
<1> SUFFICES ASSUME sound' PROVE AnswerType' /\ HeardOnce' /\ (Idle' \/ Answering')
  BY DEF AnswerInv
<1>1. /\ sound /\ air # <<>> /\ air' = Tail(air)
      /\ rx' = Notified[listeners].buffer
      /\ m_inProgress' = (m_inProgress /\ ~Answered(Notified[listeners].objects))
      /\ UNCHANGED <<asked, requests, work, left, listeners, subscribed>>
  BY DEF characteristicChanged
<1>2. AnswerType /\ HeardOnce /\ Answering
  BY <1>1 DEF AnswerInv, Idle, Waiting, Silent
<1>3. m_inProgress /\ listeners = 1 /\ requests = <<>>
  BY <1>2 DEF Answering
<1> PICK n \in Nat : n = Len(air) /\ n > 0
  BY <1>1, <1>2, EmptySeq, LenProperties DEF AnswerType
<1>4. PICK k \in [0 .. n -> Carried], m \in [0 .. n -> Nat] : Links(k, m)
  BY <1>2 DEF Answering
<1>5. PICK last \in Carried : Remains(k[n], m[n], last) /\ EndsWithConfig(last)
  BY <1>4 DEF Links
<1>6. /\ air' \in Seq(Seq(Bytes)) /\ Len(air') = n - 1
      /\ \A i \in 1 .. n - 1 : air'[i] = air[i + 1]
  BY <1>1, <1>2, HeadTailProperties DEF AnswerType
<1> PICK buffer \in Seq(Bytes) : buffer = rx \o Head(air)
  BY <1>1, <1>2, <1>4, HeardFacts
<1>7. buffer # <<>> /\ Head(buffer).look = k[1] /\ Len(buffer) + m[1] = Needed(k[1])
      /\ k[1] \in Carried /\ m[1] \in Nat
  BY <1>1, <1>2, <1>4, HeardFacts
<1>8. /\ rx' = Attempt(buffer).buffer
      /\ m_inProgress' = (m_inProgress /\ ~Answered(<<>> \o Attempt(buffer).objects))
  BY <1>1, <1>3, NotifiedOnce
<1>9. Len(buffer) \in Nat /\ Needed(k[1]) \in Nat
  BY <1>7, FormatAssumption, LenProperties DEF Needed, Carried, Kind
<1>10. HeardOnce'
  BY <1>1, <1>2 DEF HeardOnce
<1>11. ASSUME m_inProgress' = TRUE, Buffered(k[1], m[1])', rx' \in Seq(Bytes)
       PROVE  AnswerType' /\ HeardOnce' /\ Answering'
  <2>1. PICK k2 \in [0 .. n - 1 -> Carried], m2 \in [0 .. n - 1 -> Nat] :
          \A i \in 0 .. n - 1 : k2[i] = k[i + 1] /\ m2[i] = m[i + 1]
    <3> DEFINE k2 == [i \in 0 .. n - 1 |-> k[i + 1]]
               m2 == [i \in 0 .. n - 1 |-> m[i + 1]]
    <3>1. k2 \in [0 .. n - 1 -> Carried] /\ m2 \in [0 .. n - 1 -> Nat]
          /\ \A i \in 0 .. n - 1 : k2[i] = k[i + 1] /\ m2[i] = m[i + 1]
      OBVIOUS
    <3> HIDE DEF k2, m2
    <3>2. QED
      BY <3>1
  <2>2. k2[0] = k[1] /\ m2[0] = m[1] /\ k2[n - 1] = k[n] /\ m2[n - 1] = m[n]
    BY <2>1
  <2>3. ASSUME NEW i \in 1 .. n - 1 PROVE Follows(k2, m2, i)'
    <3>1. i + 1 \in 1 .. n /\ i \in 0 .. n - 1 /\ i - 1 \in 0 .. n - 1 /\ i - 1 + 1 = i
      OBVIOUS
    <3>2. k2[i] = k[i + 1] /\ m2[i] = m[i + 1] /\ k2[i - 1] = k[i] /\ m2[i - 1] = m[i]
      BY <2>1, <3>1
    <3>3. Follows(k, m, i + 1) /\ i + 1 - 1 = i
      BY <1>4, <3>1 DEF Links
    <3>4. air'[i] = air[i + 1]
      BY <1>6
    <3>5. /\ air[i + 1] # <<>>
          /\ IF m[i] = 0
             THEN /\ k[i] = "event" /\ Head(air[i + 1]).look = k[i + 1]
                  /\ Len(air[i + 1]) + m[i + 1] = Needed(k[i + 1])
             ELSE /\ k[i + 1] = k[i] /\ Len(air[i + 1]) + m[i + 1] = m[i]
      BY <3>3 DEF Follows
    <3>6. QED
      BY <3>2, <3>4, <3>5 DEF Follows
  <2>4. Buffered(k2[0], m2[0])'
    BY <1>11, <2>2
  <2>5. Remains(k2[n - 1], m2[n - 1], last)' /\ EndsWithConfig(last)'
    BY <1>1, <1>5, <2>2 DEF Remains, EndsWithConfig
  <2>6. Links(k2, m2)'
    BY <1>6, <2>3, <2>4, <2>5 DEF Links
  <2>7. AnswerType'
    BY <1>1, <1>2, <1>6, <1>11 DEF AnswerType
  <2>8. n - 1 = Len(air')
    BY <1>6
  <2>9. QED
    BY <1>1, <1>3, <1>10, <1>11, <2>1, <2>6, <2>7, <2>8 DEF Answering
<1>12. CASE m[1] # 0
  <2>1. Attempt(buffer) = [buffer |-> buffer, objects |-> <<>>]
    <3>1. Len(buffer) < Needed(k[1])
      BY <1>7, <1>9, <1>12
    <3>2. QED
      BY <1>7, <3>1, AttemptFacts
  <2>2. rx' = buffer /\ m_inProgress' = TRUE
    <3>1. ~Answered(<<>> \o Attempt(buffer).objects)
      BY <2>1, AnsweredNone
    <3>2. m_inProgress' = TRUE
      BY <1>3, <1>8, <3>1
    <3>3. rx' = buffer
      BY <1>8, <2>1
    <3>4. QED
      BY <3>2, <3>3
  <2>3. Buffered(k[1], m[1])'
    BY <1>7, <1>12, <2>2, SMTT(30) DEF Buffered
  <2>4. QED
    BY <1>11, <2>2, <2>3
<1>13. CASE m[1] = 0
  <2>1. Len(buffer) = Needed(k[1])
    BY <1>7, <1>9, <1>13
  <2>2. rx' = <<>> /\ rx' \in Seq(Bytes)
    BY <1>7, <1>8, <2>1, AttemptFacts, EmptySeq
  <2>3. PICK o : o.kind = k[1] /\ Attempt(buffer).objects = <<o>>
    BY <1>7, <2>1, AttemptFacts
  <2>4. Answered(<<>> \o Attempt(buffer).objects) <=> k[1] = "config"
    BY <2>3, AnsweredOne
  <2>5. CASE k[1] = "event"
    <3>1. m_inProgress' = TRUE
      BY <1>2, <1>3, <1>8, <2>4, <2>5 DEF AnswerType
    <3>2. Buffered(k[1], m[1])'
      BY <1>13, <2>2, <2>5 DEF Buffered
    <3>3. QED
      BY <1>11, <2>2, <3>1, <3>2
  <2>6. CASE k[1] = "config"
    <3>1. n = 1
      <4>1. SUFFICES ASSUME n > 1 PROVE FALSE
        OBVIOUS
      <4>2. Follows(k, m, 2) /\ 2 - 1 = 1
        BY <1>4, <4>1 DEF Links
      <4>3. k[1] = "event"
        BY <1>13, <4>2 DEF Follows
      <4>4. QED
        BY <2>6, <4>3
    <3>2. left.prefix = <<>> /\ Len(left.data) = 0 /\ last = "config"
      BY <1>5, <1>13, <2>6, <3>1 DEF Remains
    <3>3. left = Nothing
      <4>1. left.data = <<>>
        BY <1>2, <3>2, EmptySeq DEF AnswerType
      <4>2. QED
        BY <1>2, <3>2, <4>1 DEF AnswerType, Nothing
    <3>4. work = <<>>
      BY <1>5, <3>2 DEF EndsWithConfig
    <3>5. air' = <<>>
      BY <1>6, <3>1, EmptySeq
    <3>6. m_inProgress' = FALSE
      BY <1>8, <2>4, <2>6
    <3>7. AnswerType'
      BY <1>1, <1>2, <1>6, <2>2, <3>6 DEF AnswerType
    <3>8. Idle'
      BY <1>1, <1>3, <2>2, <3>3, <3>4, <3>5, <3>6 DEF Idle, Silent
    <3>9. QED
      BY <1>10, <3>7, <3>8
  <2>7. QED
    BY <1>7, <2>5, <2>6 DEF Carried
<1>14. QED
  BY <1>12, <1>13

\* Every step keeps the invariant.
LEMMA AnswerStep == AnswerInv /\ [Next]_vars => AnswerInv'
<1> SUFFICES ASSUME AnswerInv, [Next]_vars PROVE AnswerInv'
  OBVIOUS
<1>1. CASE tryDisconnect \/ deviceDiscovered \/ LinkLost
  BY <1>1, AnswerDisconnect DEF tryDisconnect, deviceDiscovered, LinkLost
<1>2. CASE tryConnect \/ connected \/ startStreamingSensors \/ stopStreamingSensors
  BY <1>2, AnswerElsewhere DEF tryConnect, connected, startStreamingSensors, stopStreamingSensors
<1>3. ASSUME NEW u \in Uuid, bleServiceDiscovered(u) PROVE AnswerInv'
  BY <1>3, AnswerElsewhere DEF bleServiceDiscovered
<1>4. ASSUME NEW u \in Uuid, serviceDetailsDiscovered(u) PROVE AnswerInv'
  BY <1>4, AnswerDetails
<1>5. ASSUME NEW list \in BOOLEAN, sendConfigPacket(list) PROVE AnswerInv'
  BY <1>5, AnswerSend
<1>6. CASE Handle \/ Pack \/ Transmit
  BY <1>6, AnswerHandle, AnswerPack, AnswerTransmit
<1>7. CASE DropRequest
  BY <1>7 DEF DropRequest, AnswerInv
<1>8. CASE DeviceStops
  BY <1>8, AnswerElsewhere DEF DeviceStops
<1>9. CASE characteristicChanged
  BY <1>9, AnswerHeard
<1>10. CASE UNCHANGED vars
  BY <1>10, AnswerElsewhere DEF vars
<1>11. QED
  BY <1>1, <1>2, <1>3, <1>4, <1>5, <1>6, <1>7, <1>8, <1>9, <1>10
     DEF Next, User, Discovery, Device

\* sendConfigPacket, onConfigPacket: as long as no request or answer was lost, by
\* the link or by a device whose main queue was full, and no notification doubled,
\* the flag stands exactly while something of the request or of its answer is on
\* its way, or left in a device that has stopped: it neither falls early nor is it
\* left behind.
FlagExact == sound => (m_inProgress <=> Busy)

THEOREM SessionFlagExact == Spec => []FlagExact
<1>1. AnswerInv => FlagExact
  BY AnswerBusy DEF AnswerInv, FlagExact
<1>2. QED
  BY AnswerInit, AnswerStep, <1>1, PTL DEF Spec

\* As long as no request or answer was lost and no notification doubled, nothing is left
\* of the last request anywhere once the flag has fallen, so that the device
\* never has two of them (sendConfigPacket, onConfigPacket).
THEOREM SessionFlagTellsAll == Spec => []FlagTellsAll
<1>1. FlagExact => FlagTellsAll
  BY DEF FlagExact, FlagTellsAll
<1>2. QED
  BY SessionFlagExact, <1>1, PTL
-----------------------------------------------------------------------------
(* The packets on their way: the history h of the packets sent, whose bytes *)
(* are on the air in messages.                                              *)

Body == UNION {[1 .. Size[k] -> Look] : k \in Kind}
Entry == [kind : Kind, body : Body, arrived : BOOLEAN, lost : BOOLEAN]

Past(h) ==
  h \in Seq(Entry) /\ \A p \in 1 .. Len(h) : h[p].body \in [1 .. Size[h[p].kind] -> Look]

\* The length of a packet, and its bytes from place a up to b; packet 0 stands for
\* the time before the first.
Total(h, p) == IF p = 0 THEN 0 ELSE Size[h[p].kind] + 1
ByteAt(h, p, j) == IF j = 0 THEN Header(h[p].kind, p) ELSE Cell(p, j, h[p].body[j])
Stretch(h, p, a, b) == [i \in 1 .. b - a |-> ByteAt(h, p, a + i - 1)]
LostIn(h, p) == p # 0 /\ h[p].lost

\* Where a message ends that starts at place a.
End(h, p, a) == Least(a + Fragment, Total(h, p))

\* m is the message of packet p that starts at a.
Carries(h, m, p, a) ==
  /\ p \in 1 .. Len(h) /\ a \in 0 .. Total(h, p) - 1 /\ a # 1
  /\ m = Stretch(h, p, a, End(h, p, a))

\* The sender has come to place s of the last packet.
SenderAt(h, remains, s) ==
  /\ s \in 0 .. Total(h, Len(h))
  /\ Len(h) # 0 => s # 1
  /\ IF Len(h) # 0 /\ s = 0
     THEN /\ remains.prefix = Stretch(h, Len(h), 0, 1)
          /\ remains.data = Stretch(h, Len(h), 1, Total(h, Len(h)))
     ELSE remains.prefix = <<>> /\ remains.data = Stretch(h, Len(h), s, Total(h, Len(h)))

\* What comes after place a of packet p starts at place b of packet q: nothing of a
\* packet is missing that was not lost.
Comes(h, p, a, q, b) ==
  \/ q = p /\ (~LostIn(h, p) => b = a)
  \/ /\ p < q /\ (~LostIn(h, p) => a = Total(h, p)) /\ (~LostIn(h, q) => b = 0)
     /\ \A r \in p + 1 .. q - 1 : LostIn(h, r)

\* g has the packets of h, and maybe more of each was lost or has arrived.
Grows(h, g) ==
  /\ Len(h) <= Len(g)
  /\ \A p \in 1 .. Len(h) :
       /\ g[p].kind = h[p].kind /\ g[p].body = h[p].body
       /\ (h[p].lost => g[p].lost) /\ (h[p].arrived => g[p].arrived)

LEMMA TotalRange ==
  ASSUME NEW h, Past(h), NEW p \in 0 .. Len(h)
  PROVE  /\ Total(h, p) \in Nat /\ (p # 0 => Total(h, p) >= 2)
         /\ Len(h) \in Nat /\ LostIn(h, p) \in BOOLEAN
<1>1. Len(h) \in Nat /\ (p # 0 => h[p] \in Entry)
  BY DEF Past
<1>2. p # 0 => h[p].kind \in Kind /\ h[p].lost \in BOOLEAN
  BY <1>1 DEF Entry
<1>3. p # 0 => Size[h[p].kind] \in Nat \ {0}
  BY <1>2, FormatAssumption
<1> QED
  BY <1>1, <1>2, <1>3 DEF Total, LostIn

LEMMA EndRange ==
  ASSUME NEW h, Past(h), NEW p \in 1 .. Len(h), NEW a \in 0 .. Total(h, p) - 1
  PROVE  /\ End(h, p, a) \in a + 1 .. Total(h, p) /\ End(h, p, a) # 1
         /\ End(h, p, a) <= a + Fragment
<1>1. Total(h, p) \in Nat /\ Total(h, p) >= 2
  BY TotalRange
<1>2. Fragment \in Nat /\ Fragment > 1
  BY FormatAssumption
<1> QED
  BY <1>1, <1>2 DEF End, Least

LEMMA StretchKept ==
  ASSUME NEW h, NEW g, Past(h), Past(g), Grows(h, g), NEW p \in 1 .. Len(h)
  PROVE  /\ Total(g, p) = Total(h, p)
         /\ \A a, b : Stretch(g, p, a, b) = Stretch(h, p, a, b)
         /\ \A a : End(g, p, a) = End(h, p, a)
         /\ \A m, a : Carries(h, m, p, a) => Carries(g, m, p, a)
<1>1. Total(g, p) = Total(h, p)
  BY DEF Total, Grows
<1>2. \A j : ByteAt(g, p, j) = ByteAt(h, p, j)
  BY DEF ByteAt, Grows
<1>3. \A a, b : Stretch(g, p, a, b) = Stretch(h, p, a, b)
  BY <1>2 DEF Stretch
<1>4. \A a : End(g, p, a) = End(h, p, a)
  BY <1>1 DEF End
<1>5. p \in 1 .. Len(g)
  <2>1. Len(h) \in Nat /\ Len(g) \in Nat /\ Len(h) <= Len(g)
    BY DEF Past, Grows
  <2> QED
    BY <2>1
<1> QED
  BY <1>1, <1>3, <1>4, <1>5 DEF Carries

\* Both ends of a step from one point to the next.
Point(h, p, a) == p \in 0 .. Len(h) /\ a \in 0 .. Total(h, p)

LEMMA ComesKept ==
  ASSUME NEW h, NEW g, Past(h), Past(g), Grows(h, g),
         NEW p \in 0 .. Len(h), NEW q \in 0 .. Len(h), NEW a, NEW b, Comes(h, p, a, q, b)
  PROVE  Comes(g, p, a, q, b)
<1>1. Total(g, p) = Total(h, p)
  BY StretchKept DEF Total
<1>2. \A r \in 0 .. Len(h) : LostIn(h, r) => LostIn(g, r)
  BY DEF LostIn, Grows
<1>3. Len(h) \in Nat
  BY DEF Past
<1>4. \A r \in p + 1 .. q - 1 : r \in 0 .. Len(h)
  BY <1>3
<1> QED
  BY <1>1, <1>2, <1>4 DEF Comes

\* A lost message may be left out between two points.
LEMMA ComesThrough ==
  ASSUME NEW h, Past(h), NEW p \in 0 .. Len(h), NEW q \in 1 .. Len(h), NEW r \in 0 .. Len(h),
         NEW a, NEW b, NEW c, NEW d, LostIn(h, q),
         Comes(h, p, a, q, b), Comes(h, q, c, r, d)
  PROVE  Comes(h, p, a, r, d)
<1>1. Len(h) \in Nat
  BY DEF Past
<1>2. CASE p = q
  BY <1>2 DEF Comes
<1>3. CASE p # q /\ r = q
  BY <1>3 DEF Comes
<1>4. CASE p # q /\ r # q
  <2>1. p < q /\ q < r
    BY <1>4 DEF Comes
  <2>2. \A x \in p + 1 .. r - 1 : x \in p + 1 .. q - 1 \/ x = q \/ x \in q + 1 .. r - 1
    BY <1>1
  <2>3. \A x \in p + 1 .. r - 1 : LostIn(h, x)
    BY <1>4, <2>2 DEF Comes
  <2>4. p < r
    BY <1>1, <2>1
  <2> QED
    BY <1>4, <2>3, <2>4 DEF Comes
<1> QED
  BY <1>2, <1>3, <1>4

\* From the end of the last packet the next one comes.
LEMMA ComesOver ==
  ASSUME NEW h, NEW g, Past(h), Past(g), Grows(h, g), Len(g) = Len(h) + 1,
         NEW p \in 0 .. Len(h), NEW a, Comes(h, p, a, Len(h), Total(h, Len(h)))
  PROVE  Comes(g, p, a, Len(h) + 1, 0)
<1> DEFINE n == Len(h)
<1>1. n \in Nat
  BY DEF Past
<1>2. Total(g, p) = Total(h, p)
  BY StretchKept DEF Total
<1>3. \A r \in 0 .. n : LostIn(h, r) => LostIn(g, r)
  BY DEF LostIn, Grows
<1>4. n # 0 => Total(h, n) # 0
  <2>1. n \in 0 .. Len(h)
    BY <1>1
  <2> QED
    BY <2>1, TotalRange
<1> HIDE DEF n
<1>5. p \in 0 .. n /\ Comes(h, p, a, n, Total(h, n))
  BY DEF n
<1>6. ASSUME p = n
      PROVE  Comes(g, p, a, n + 1, 0)
  <2>1. ~LostIn(h, p) => a = Total(h, p)
    BY <1>5, <1>6 DEF Comes
  <2>2. \A r \in p + 1 .. n : FALSE
    BY <1>1, <1>6
  <2>3. p < n + 1 /\ n + 1 - 1 = n
    BY <1>1, <1>6
  <2>4. ~LostIn(g, p) => a = Total(g, p)
    BY <1>2, <1>3, <1>5, <2>1
  <2>5. \A r \in p + 1 .. (n + 1) - 1 : LostIn(g, r)
    BY <1>1, <1>5, <2>2, <2>3
  <2> QED
    BY <2>3, <2>4, <2>5 DEF Comes
<1>7. ASSUME p # n
      PROVE  Comes(g, p, a, n + 1, 0)
  <2>1. p < n /\ (~LostIn(h, p) => a = Total(h, p)) /\ (~LostIn(h, n) => Total(h, n) = 0)
        /\ \A r \in p + 1 .. n - 1 : LostIn(h, r)
    BY <1>5, <1>7 DEF Comes
  <2>2. LostIn(h, n)
    BY <1>1, <1>4, <1>5, <2>1
  <2>3. \A r \in p + 1 .. n : r \in 0 .. n /\ (r \in p + 1 .. n - 1 \/ r = n)
    BY <1>1, <1>5
  <2>4. \A r \in p + 1 .. n : LostIn(g, r)
    BY <1>3, <2>1, <2>2, <2>3
  <2>5. p < n + 1 /\ n + 1 - 1 = n
    BY <1>1, <1>5, <2>1
  <2>6. ~LostIn(g, p) => a = Total(g, p)
    BY <1>2, <1>3, <1>5, <2>1
  <2>7. \A r \in p + 1 .. (n + 1) - 1 : LostIn(g, r)
    BY <1>1, <1>5, <2>4, <2>5
  <2> QED
    BY <2>5, <2>6, <2>7 DEF Comes
<1>8. Comes(g, p, a, n + 1, 0)
  BY <1>6, <1>7
<1> QED
  BY <1>8 DEF n

-----------------------------------------------------------------------------
(* The sender                                                              *)

Measured(h, p, a, b) ==
  /\ Len(Stretch(h, p, a, b)) = b - a /\ (Stretch(h, p, a, b) = <<>> <=> a = b)
  /\ \A i \in 1 .. b - a : Stretch(h, p, a, b)[i] = ByteAt(h, p, a + i - 1)

LEMMA StretchLen ==
  ASSUME NEW h, NEW p, NEW a \in Nat, NEW b \in Nat, a <= b
  PROVE  Measured(h, p, a, b)
<1>1. Stretch(h, p, a, b) = [i \in 1 .. b - a |-> ByteAt(h, p, a + i - 1)] /\ b - a \in Nat
  BY DEF Stretch
<1> QED
  BY <1>1 DEF Measured

\* The part of a stretch from one place on, up to another.
PartIs(h, p, a, b, c, d) ==
  SubSeq(Stretch(h, p, a, b), c - a + 1, d - a) = Stretch(h, p, c, d)

LEMMA StretchPart ==
  ASSUME NEW h, NEW p, NEW a \in Nat, NEW b \in Nat, NEW c \in Nat, NEW d \in Nat,
         a <= c, c <= d, d <= b
  PROVE  PartIs(h, p, a, b, c, d)
<1> DEFINE s == Stretch(h, p, a, b)  x == SubSeq(s, c - a + 1, d - a)
           y == Stretch(h, p, c, d)
<1>1. x = [i \in 1 .. d - c |-> s[(c - a) + i]]
  BY DEF Stretch
<1>2. \A i \in 1 .. d - c : s[(c - a) + i] = ByteAt(h, p, c + i - 1)
  <2>1. \A i \in 1 .. d - c : (c - a) + i \in 1 .. b - a /\ a + ((c - a) + i) - 1 = c + i - 1
    OBVIOUS
  <2>2. Measured(h, p, a, b)
    BY StretchLen
  <2> QED
    BY <2>1, <2>2 DEF Measured
<1>3. y = [i \in 1 .. d - c |-> ByteAt(h, p, c + i - 1)]
  BY DEF Stretch
<1> HIDE DEF s, x, y
<1>4. x = y
  BY <1>1, <1>2, <1>3
<1> QED
  BY <1>4 DEF PartIs, x, y, s

\* Two stretches side by side.
JoinIs(h, p, a, b, c) ==
  Stretch(h, p, a, b) \o Stretch(h, p, b, c) = Stretch(h, p, a, c)

LEMMA StretchJoin ==
  ASSUME NEW h, NEW p, NEW a \in Nat, NEW b \in Nat, NEW c \in Nat, a <= b, b <= c
  PROVE  JoinIs(h, p, a, b, c)
<1> DEFINE s == Stretch(h, p, a, b)  t == Stretch(h, p, b, c)  u == Stretch(h, p, a, c)
<1>1. /\ s = [i \in 1 .. b - a |-> ByteAt(h, p, a + i - 1)]
      /\ t = [i \in 1 .. c - b |-> ByteAt(h, p, b + i - 1)]
      /\ u = [i \in 1 .. c - a |-> ByteAt(h, p, a + i - 1)]
      /\ Len(s) = b - a /\ Len(t) = c - b
  BY DEF Stretch
<1> HIDE DEF s, t, u
<1>2. s \o t = [i \in 1 .. (b - a) + (c - b) |->
                  IF i <= b - a THEN s[i] ELSE t[i - (b - a)]]
  BY <1>1
<1>3. ASSUME NEW i \in 1 .. c - a
      PROVE  (IF i <= b - a THEN s[i] ELSE t[i - (b - a)]) = ByteAt(h, p, a + i - 1)
  <2>1. CASE i <= b - a
    BY <1>1, <2>1
  <2>2. CASE ~(i <= b - a)
    <3>1. i - (b - a) \in 1 .. c - b /\ b + (i - (b - a)) - 1 = a + i - 1
      BY <2>2
    <3> QED
      BY <1>1, <2>2, <3>1
  <2> QED
    BY <2>1, <2>2
<1>4. (b - a) + (c - b) = c - a
  OBVIOUS
<1>5. s \o t = u
  BY <1>1, <1>2, <1>3, <1>4
<1> QED
  BY <1>5 DEF JoinIs, s, t, u

\* The first byte of a message says where it belongs.
LEMMA MessageHead ==
  ASSUME NEW h, Past(h), NEW m, NEW p, NEW a, Carries(h, m, p, a)
  PROVE  /\ m # <<>> /\ Len(m) = End(h, p, a) - a /\ Head(m) = m[1]
         /\ m[1].packet = p /\ m[1].place = a
<1>1. /\ p \in 1 .. Len(h) /\ a \in 0 .. Total(h, p) - 1
      /\ m = Stretch(h, p, a, End(h, p, a))
  BY DEF Carries
<1>2. Len(h) \in Nat /\ Total(h, p) \in Nat
  BY <1>1, TotalRange
<1>3. a \in Nat /\ End(h, p, a) \in Nat /\ a < End(h, p, a)
  BY <1>1, <1>2, EndRange
<1>4. Len(m) = End(h, p, a) - a /\ m[1] = ByteAt(h, p, a + 1 - 1) /\ m # <<>>
  <2>1. Measured(h, p, a, End(h, p, a))
    BY <1>3, StretchLen
  <2>2. 1 \in 1 .. End(h, p, a) - a
    BY <1>3
  <2> QED
    BY <1>1, <1>3, <2>1, <2>2 DEF Measured
<1>5. m[1] = ByteAt(h, p, a)
  BY <1>3, <1>4
<1>6. Head(m) = m[1]
  OBVIOUS
<1> QED
  BY <1>4, <1>5, <1>6 DEF ByteAt, Header, Cell

\* Nothing is left to send exactly at the end of the last packet.
LEMMA SenderDone ==
  ASSUME NEW h, Past(h), NEW remains, NEW s, SenderAt(h, remains, s)
  PROVE  remains.data = <<>> <=> s = Total(h, Len(h))
<1>1. Len(h) \in 0 .. Len(h) /\ Len(h) \in Nat
  BY DEF Past
<1>2. Total(h, Len(h)) \in Nat /\ (Len(h) # 0 => Total(h, Len(h)) >= 2)
  BY <1>1, TotalRange
<1>3. s \in 0 .. Total(h, Len(h))
  BY DEF SenderAt
<1>4. CASE Len(h) # 0 /\ s = 0
  <2>1. remains.data = Stretch(h, Len(h), 1, Total(h, Len(h)))
    BY <1>4 DEF SenderAt
  <2> QED
    <3>1. Measured(h, Len(h), 1, Total(h, Len(h)))
      BY <1>2, <1>4, StretchLen
    <3> QED
      BY <1>2, <1>4, <2>1, <3>1 DEF Measured
<1>5. CASE ~(Len(h) # 0 /\ s = 0)
  <2>1. remains.data = Stretch(h, Len(h), s, Total(h, Len(h)))
    BY <1>5 DEF SenderAt
  <2> QED
    <3>1. Measured(h, Len(h), s, Total(h, Len(h)))
      BY <1>2, <1>3, StretchLen
    <3> QED
      BY <1>2, <1>3, <2>1, <3>1 DEF Measured
<1> QED
  BY <1>4, <1>5

LEMMA SenderKept ==
  ASSUME NEW h, NEW g, Past(h), Past(g), Grows(h, g), Len(g) = Len(h),
         NEW remains, NEW s, SenderAt(h, remains, s)
  PROVE  SenderAt(g, remains, s)
<1> DEFINE n == Len(h)
<1>1. n \in Nat
  BY DEF Past
<1>2. CASE n = 0
  <2>1. Total(g, 0) = 0 /\ Total(h, 0) = 0 /\ s = 0
    BY <1>2 DEF SenderAt, Total
  <2>2. Stretch(g, 0, 0, 0) = Stretch(h, 0, 0, 0)
    BY DEF Stretch
  <2> QED
    BY <1>2, <2>1, <2>2 DEF SenderAt
<1>3. CASE n # 0
  <2>1. n \in 1 .. Len(h)
    BY <1>1, <1>3
  <2>2. Total(g, n) = Total(h, n) /\ \A a, b : Stretch(g, n, a, b) = Stretch(h, n, a, b)
    BY <2>1, StretchKept
  <2> QED
    BY <2>2 DEF SenderAt
<1> QED
  BY <1>2, <1>3

\* One turn of ble_tx_head sends the next message of the packet.
LEMMA SenderStep ==
  ASSUME NEW h, Past(h), NEW remains, NEW s, SenderAt(h, remains, s), remains.data # <<>>
  PROVE  /\ Len(h) # 0 /\ Carries(h, Message(remains), Len(h), s)
         /\ SenderAt(h, Advance(remains), End(h, Len(h), s))
<1> DEFINE n == Len(h)  T == Total(h, n)  e == End(h, n, s)
<1>1. n \in Nat /\ n \in 0 .. Len(h)
  BY DEF Past
<1>2. T \in Nat /\ (n # 0 => T >= 2)
  BY <1>1, TotalRange
<1>3. s \in 0 .. T /\ s # T /\ (n # 0 => s # 1)
  BY SenderDone DEF SenderAt
<1>4. n # 0 /\ n \in 1 .. Len(h) /\ s \in 0 .. T - 1
  <2>1. n # 0
    BY <1>3 DEF Total
  <2> QED
    BY <1>1, <1>2, <1>3, <2>1
<1>5. e \in s + 1 .. T /\ e # 1
  BY <1>4, EndRange
<1>6. Fragment \in Nat /\ Fragment > 1 /\ e = IF s + Fragment < T THEN s + Fragment ELSE T
  BY FormatAssumption DEF End, Least
<1>7. /\ n # 0 /\ s = 0 =>
           remains.prefix = Stretch(h, n, 0, 1) /\ remains.data = Stretch(h, n, 1, T)
      /\ s # 0 => remains.prefix = <<>> /\ remains.data = Stretch(h, n, s, T)
  BY DEF SenderAt
<1>8. /\ Message(remains) = Stretch(h, n, s, e)
      /\ Advance(remains) = [prefix |-> <<>>, data |-> Stretch(h, n, e, T)]
  <2> HIDE DEF n, T, e
  <2>1. CASE s = 0
    <3>1. remains.prefix = Stretch(h, n, 0, 1) /\ remains.data = Stretch(h, n, 1, T)
      BY <1>4, <1>7, <2>1
    <3>2. Len(remains.prefix) = 1 /\ Len(remains.data) = T - 1
      <4>1. Measured(h, n, 0, 1) /\ Measured(h, n, 1, T)
        BY <1>2, <1>4, StretchLen
      <4> QED
        BY <3>1, <4>1 DEF Measured
    <3>3. ToSend(remains) = e - 1
      BY <1>2, <1>6, <2>1, <3>2 DEF ToSend, Least
    <3>4. SubSeq(remains.data, 1, e - 1) = Stretch(h, n, 1, e)
          /\ SubSeq(remains.data, e, T - 1) = Stretch(h, n, e, T)
      <4>1. PartIs(h, n, 1, T, 1, e) /\ PartIs(h, n, 1, T, e, T)
        BY <1>2, <1>5, <2>1, StretchPart
      <4>3. 1 - 1 + 1 = 1 /\ e - 1 + 1 = e
        BY <1>5
      <4> QED
        BY <3>1, <4>1, <4>3 DEF PartIs
    <3>5. Message(remains) = Stretch(h, n, 0, 1) \o Stretch(h, n, 1, e)
      BY <3>1, <3>3, <3>4 DEF Message
    <3>6. Message(remains) = Stretch(h, n, 0, e)
      <4>1. JoinIs(h, n, 0, 1, e)
        BY <1>2, <1>5, <2>1, StretchJoin
      <4> QED
        BY <3>5, <4>1 DEF JoinIs
    <3>7. (e - 1) + 1 = e
      BY <1>5
    <3> QED
      BY <2>1, <3>2, <3>3, <3>4, <3>6, <3>7 DEF Advance
  <2>2. CASE s # 0
    <3>1. remains.prefix = <<>> /\ remains.data = Stretch(h, n, s, T)
      BY <1>7, <2>2
    <3>2. Len(remains.prefix) = 0 /\ Len(remains.data) = T - s
      <4>1. Measured(h, n, s, T)
        BY <1>2, <1>4, StretchLen
      <4> QED
        BY <3>1, <4>1 DEF Measured
    <3>3. ToSend(remains) = e - s
      BY <1>2, <1>4, <1>6, <3>2 DEF ToSend, Least
    <3>4. SubSeq(remains.data, 1, e - s) = Stretch(h, n, s, e)
          /\ SubSeq(remains.data, (e - s) + 1, T - s) = Stretch(h, n, e, T)
      <4>1. PartIs(h, n, s, T, s, e) /\ PartIs(h, n, s, T, e, T)
        BY <1>2, <1>4, <1>5, StretchPart
      <4>3. s - s + 1 = 1
        BY <1>4
      <4> QED
        BY <3>1, <4>1, <4>3 DEF PartIs
    <3>5. Message(remains) = Stretch(h, n, s, e)
      <4>1. Stretch(h, n, s, e) = [i \in 1 .. e - s |-> ByteAt(h, n, s + i - 1)] /\ e - s \in Nat
        BY <1>4, <1>5 DEF Stretch
      <4>2. Stretch(h, n, s, e) \in Seq({ByteAt(h, n, s + i - 1) : i \in 1 .. e - s})
        BY <4>1
      <4> QED
        BY <3>1, <3>3, <3>4, <4>2 DEF Message
    <3> QED
      BY <3>2, <3>3, <3>4, <3>5 DEF Advance
  <2> QED
    BY <2>1, <2>2
<1>9. Carries(h, Message(remains), Len(h), s)
  BY <1>3, <1>4, <1>8 DEF Carries
<1>10. SenderAt(h, Advance(remains), e)
  <2>1. e \in 0 .. T /\ e # 0 /\ e # 1
    BY <1>2, <1>4, <1>5
  <2> QED
    BY <1>8, <2>1 DEF SenderAt
<1> QED
  BY <1>4, <1>9, <1>10

-----------------------------------------------------------------------------
(* What the steps do to the history                                        *)

LEMMA LoseFacts ==
  ASSUME NEW h, Past(h), NEW k \in 1 .. Len(h), NEW g, g = [h EXCEPT ![k].lost = TRUE]
  PROVE  Past(g) /\ Len(g) = Len(h) /\ Grows(h, g) /\ LostIn(g, k)
<1>1. h \in Seq(Entry) /\ Len(h) \in Nat /\ DOMAIN h = 1 .. Len(h)
  BY DEF Past
<1>2. h[k] \in Entry
  BY <1>1
<1>3. [h[k] EXCEPT !.lost = TRUE] \in Entry
  BY <1>2 DEF Entry
<1>4. g \in Seq(Entry) /\ Len(g) = Len(h)
  BY <1>1, <1>3
<1>5. \A p \in 1 .. Len(h) : g[p] = IF p = k THEN [h[k] EXCEPT !.lost = TRUE] ELSE h[p]
  BY <1>1
<1>6. \A p \in 1 .. Len(h) : h[p] \in Entry
  BY <1>1
<1>7. \A p \in 1 .. Len(h) :
        /\ g[p].kind = h[p].kind /\ g[p].body = h[p].body /\ g[p].arrived = h[p].arrived
        /\ (h[p].lost => g[p].lost) /\ (p = k => g[p].lost)
  <2> SUFFICES ASSUME NEW p \in 1 .. Len(h)
               PROVE  /\ g[p].kind = h[p].kind /\ g[p].body = h[p].body
                      /\ g[p].arrived = h[p].arrived
                      /\ (h[p].lost => g[p].lost) /\ (p = k => g[p].lost)
    OBVIOUS
  <2>1. CASE p = k
    <3>1. g[p] = [h[p] EXCEPT !.lost = TRUE] /\ h[p] \in Entry
      BY <1>5, <1>6, <2>1
    <3> QED
      BY <3>1 DEF Entry
  <2>2. CASE p # k
    BY <1>5, <2>2
  <2> QED
    BY <2>1, <2>2
<1>8. k # 0
  BY <1>1
<1> QED
  BY <1>1, <1>4, <1>7, <1>8 DEF Past, Grows, LostIn

LEMMA ArriveFacts ==
  ASSUME NEW h, Past(h), NEW k \in 1 .. Len(h), NEW g, g = [h EXCEPT ![k].arrived = TRUE]
  PROVE  Past(g) /\ Len(g) = Len(h) /\ Grows(h, g) /\ g[k].arrived
<1>1. h \in Seq(Entry) /\ Len(h) \in Nat /\ DOMAIN h = 1 .. Len(h)
  BY DEF Past
<1>2. h[k] \in Entry
  BY <1>1
<1>3. [h[k] EXCEPT !.arrived = TRUE] \in Entry
  BY <1>2 DEF Entry
<1>4. g \in Seq(Entry) /\ Len(g) = Len(h)
  BY <1>1, <1>3
<1>5. \A p \in 1 .. Len(h) : g[p] = IF p = k THEN [h[k] EXCEPT !.arrived = TRUE] ELSE h[p]
  BY <1>1
<1>6. \A p \in 1 .. Len(h) : h[p] \in Entry
  BY <1>1
<1>7. \A p \in 1 .. Len(h) :
        /\ g[p].kind = h[p].kind /\ g[p].body = h[p].body /\ g[p].lost = h[p].lost
        /\ (h[p].arrived => g[p].arrived) /\ (p = k => g[p].arrived)
  <2> SUFFICES ASSUME NEW p \in 1 .. Len(h)
               PROVE  /\ g[p].kind = h[p].kind /\ g[p].body = h[p].body
                      /\ g[p].lost = h[p].lost
                      /\ (h[p].arrived => g[p].arrived) /\ (p = k => g[p].arrived)
    OBVIOUS
  <2>1. CASE p = k
    <3>1. g[p] = [h[p] EXCEPT !.arrived = TRUE] /\ h[p] \in Entry
      BY <1>5, <1>6, <2>1
    <3> QED
      BY <3>1 DEF Entry
  <2>2. CASE p # k
    BY <1>5, <2>2
  <2> QED
    BY <2>1, <2>2
<1> QED
  BY <1>1, <1>4, <1>7 DEF Past, Grows

LEMMA AppendFacts ==
  ASSUME NEW h, Past(h), NEW e \in Entry, e.body \in [1 .. Size[e.kind] -> Look],
         NEW g, g = Append(h, e)
  PROVE  Past(g) /\ Len(g) = Len(h) + 1 /\ Grows(h, g) /\ g[Len(h) + 1] = e
<1>1. h \in Seq(Entry) /\ Len(h) \in Nat
  BY DEF Past
<1>2. g \in Seq(Entry) /\ Len(g) = Len(h) + 1 /\ g[Len(h) + 1] = e
      /\ \A p \in 1 .. Len(h) : g[p] = h[p]
  BY <1>1
<1>3. \A p \in 1 .. Len(h) + 1 : p \in 1 .. Len(h) \/ p = Len(h) + 1
  BY <1>1
<1> QED
  BY <1>1, <1>2, <1>3 DEF Past, Grows

\* A packet of h arrived in part.
Tears(h) == \E p \in 1 .. Len(h) : h[p].arrived /\ h[p].lost

LEMMA TearStays ==
  ASSUME NEW h, NEW g, Past(h), Past(g), Grows(h, g), Tears(h)
  PROVE  Tears(g)
<1>1. PICK p \in 1 .. Len(h) : h[p].arrived /\ h[p].lost
  BY DEF Tears
<1>2. p \in 1 .. Len(g)
  BY DEF Past, Grows
<1> QED
  BY <1>1, <1>2 DEF Tears, Grows

-----------------------------------------------------------------------------
(* The bytes                                                               *)

LEMMA LongestRange ==
  Longest \in Nat /\ \A k \in Kind : Size[k] <= Longest
<1>1. Kind = {"config", "event", "sample"} /\ \A k \in Kind : Size[k] \in Nat
  BY FormatAssumption DEF Kind
<1>2. \E n \in {Size[k] : k \in Kind} : \A k \in Kind : Size[k] <= n
  <2> DEFINE c == Size["config"]  e == Size["event"]  s == Size["sample"]
  <2>1. c \in Nat /\ e \in Nat /\ s \in Nat
    BY <1>1
  <2>2. \E n \in {c, e, s} : c <= n /\ e <= n /\ s <= n
    <3> HIDE DEF c, e, s
    <3>1. CASE c <= e /\ e <= s
      BY <2>1, <3>1
    <3>2. CASE c <= e /\ s <= e
      BY <2>1, <3>2
    <3>3. CASE e <= c /\ c <= s
      BY <2>1, <3>3
    <3>4. CASE e <= c /\ s <= c
      BY <2>1, <3>4
    <3> QED
      BY <2>1, <3>1, <3>2, <3>3, <3>4
  <2>3. {Size[k] : k \in Kind} = {c, e, s}
    BY <1>1
  <2> QED
    BY <1>1, <2>2, <2>3
<1>3. Longest \in {Size[k] : k \in Kind} /\ \A k \in Kind : Size[k] <= Longest
  BY <1>2 DEF Longest
<1> QED
  BY <1>1, <1>3

LEMMA ByteTyped ==
  ASSUME NEW h, Past(h), Len(h) <= MaxPackets, NEW p \in 1 .. Len(h),
         NEW j \in 0 .. Total(h, p) - 1
  PROVE  ByteAt(h, p, j) \in StreamCells
<1>1. Len(h) \in Nat /\ h[p] \in Entry /\ h[p].body \in [1 .. Size[h[p].kind] -> Look]
  BY DEF Past
<1>2. h[p].kind \in Kind /\ h[p].kind \in Look
  BY <1>1 DEF Entry, Look
<1>3. Size[h[p].kind] \in Nat /\ Size[h[p].kind] <= Longest /\ Longest \in Nat
  BY <1>2, LongestRange, FormatAssumption
<1>4. MaxPackets \in Nat /\ p \in 1 .. MaxPackets
  BY <1>1, StreamAssumption
<1>5. Total(h, p) = Size[h[p].kind] + 1
  BY <1>1 DEF Total
<1>6. j \in 0 .. Longest /\ (j # 0 => j \in 1 .. Size[h[p].kind])
  BY <1>3, <1>5
<1>7. j # 0 => h[p].body[j] \in Look
  BY <1>1, <1>6
<1> QED
  BY <1>2, <1>4, <1>6, <1>7 DEF ByteAt, Header, Cell, StreamCells

LEMMA StretchTyped ==
  ASSUME NEW h, Past(h), Len(h) <= MaxPackets, NEW p \in 1 .. Len(h),
         NEW a \in Nat, NEW b \in 0 .. Total(h, p), a <= b
  PROVE  Stretch(h, p, a, b) \in Seq(StreamCells)
<1>1. Total(h, p) \in Nat
  BY TotalRange
<1>2. b - a \in Nat /\ \A i \in 1 .. b - a : a + i - 1 \in 0 .. Total(h, p) - 1
  BY <1>1
<1>3. \A i \in 1 .. b - a : ByteAt(h, p, a + i - 1) \in StreamCells
  BY <1>2, ByteTyped
<1>4. Stretch(h, p, a, b) = [i \in 1 .. b - a |-> ByteAt(h, p, a + i - 1)]
  BY DEF Stretch
<1> HIDE DEF Stretch
<1>5. Stretch(h, p, a, b) \in [1 .. b - a -> StreamCells]
  BY <1>3, <1>4
<1> QED
  BY <1>2, <1>5

-----------------------------------------------------------------------------
(* The messages on the air, and behind them what the sender has left       *)

NextPacket(h, queue, i) == IF i <= Len(queue) THEN queue[i][1].packet ELSE Len(h)
NextPlace(queue, s, i) == IF i <= Len(queue) THEN queue[i][1].place ELSE s
ToNext(h, queue, s, p, a, i) == Comes(h, p, a, NextPacket(h, queue, i), NextPlace(queue, s, i))
EndOf(h, queue, i) == End(h, queue[i][1].packet, queue[i][1].place)

Flows(h, queue, s) ==
  \A i \in 1 .. Len(queue) :
    /\ Carries(h, queue[i], queue[i][1].packet, queue[i][1].place)
    /\ ToNext(h, queue, s, queue[i][1].packet, EndOf(h, queue, i), i + 1)

\* What came next after a point still does.
KeepsLinks(h, queue, s, g, over, t) ==
  \A p \in 0 .. Len(h) : \A a : \A i \in 1 .. Len(queue) + 1 :
    ToNext(h, queue, s, p, a, i) => ToNext(g, over, t, p, a, i)

LEMMA NextRange ==
  ASSUME NEW h, Past(h), NEW queue, Len(queue) \in Nat, NEW s, Flows(h, queue, s),
         NEW i \in 1 .. Len(queue) + 1
  PROVE  NextPacket(h, queue, i) \in 0 .. Len(h)
<1>1. Len(h) \in Nat
  BY DEF Past
<1>2. CASE i <= Len(queue)
  <2>1. i \in 1 .. Len(queue)
    BY <1>2
  <2>2. queue[i][1].packet \in 1 .. Len(h)
    BY <2>1 DEF Flows, Carries
  <2> QED
    BY <1>1, <1>2, <2>2 DEF NextPacket
<1>3. CASE ~(i <= Len(queue))
  BY <1>1, <1>3 DEF NextPacket
<1> QED
  BY <1>2, <1>3

\* The messages stay as they are and no link is broken.
LEMMA FlowsOn ==
  ASSUME NEW h, NEW g, Past(h), Past(g), Grows(h, g), NEW queue, Len(queue) \in Nat,
         NEW s, NEW t, Flows(h, queue, s), KeepsLinks(h, queue, s, g, queue, t)
  PROVE  Flows(g, queue, t)
<1> SUFFICES ASSUME NEW i \in 1 .. Len(queue)
             PROVE  /\ Carries(g, queue[i], queue[i][1].packet, queue[i][1].place)
                    /\ ToNext(g, queue, t, queue[i][1].packet, EndOf(g, queue, i), i + 1)
  BY DEF Flows
<1> DEFINE p == queue[i][1].packet  a == queue[i][1].place
<1>1. Carries(h, queue[i], p, a) /\ ToNext(h, queue, s, p, EndOf(h, queue, i), i + 1)
  BY DEF Flows
<1>2. p \in 1 .. Len(h) /\ p \in 0 .. Len(h)
  BY <1>1 DEF Carries, Past
<1>3. EndOf(g, queue, i) = EndOf(h, queue, i)
  BY <1>2, StretchKept DEF EndOf
<1>4. Carries(g, queue[i], p, a)
  BY <1>1, <1>2, StretchKept
<1>5. i + 1 \in 1 .. Len(queue) + 1
  OBVIOUS
<1>6. ToNext(g, queue, t, p, EndOf(h, queue, i), i + 1)
  <2> HIDE DEF p, a
  <2> QED
    BY <1>1, <1>2, <1>5 DEF KeepsLinks, p
<1> QED
  BY <1>3, <1>4, <1>6

\* Begin.
LEMMA LinksOver ==
  ASSUME NEW h, NEW g, Past(h), Past(g), Grows(h, g), Len(g) = Len(h) + 1,
         NEW queue, Len(queue) \in Nat, Flows(h, queue, Total(h, Len(h)))
  PROVE  KeepsLinks(h, queue, Total(h, Len(h)), g, queue, 0)
<1> SUFFICES ASSUME NEW p \in 0 .. Len(h), NEW a, NEW i \in 1 .. Len(queue) + 1,
                    ToNext(h, queue, Total(h, Len(h)), p, a, i)
             PROVE  ToNext(g, queue, 0, p, a, i)
  BY DEF KeepsLinks
<1> DEFINE T == Total(h, Len(h))  q == NextPacket(h, queue, i)
<1>1. CASE i <= Len(queue)
  <2>1. q \in 0 .. Len(h)
    BY NextRange
  <2>2. Comes(h, p, a, q, NextPlace(queue, T, i))
    BY DEF ToNext
  <2> HIDE DEF q
  <2>3. Comes(g, p, a, q, NextPlace(queue, T, i))
    BY <2>1, <2>2, ComesKept
  <2>4. NextPlace(queue, T, i) = NextPlace(queue, 0, i) /\ q = NextPacket(g, queue, i)
    BY <1>1 DEF NextPlace, NextPacket, q
  <2> QED
    BY <2>3, <2>4 DEF ToNext
<1>2. CASE ~(i <= Len(queue))
  <2>1. Comes(h, p, a, Len(h), T)
    BY <1>2 DEF ToNext, NextPacket, NextPlace
  <2>2. Comes(g, p, a, Len(h) + 1, 0)
    BY <2>1, ComesOver
  <2> QED
    BY <1>2, <2>2 DEF ToNext, NextPacket, NextPlace
<1> QED
  BY <1>1, <1>2

\* ble_tx_helper while the pipe is closed, and the history of the others.
LEMMA LinksGrow ==
  ASSUME NEW h, NEW g, Past(h), Past(g), Grows(h, g), Len(g) = Len(h),
         NEW queue, Len(queue) \in Nat, NEW s, NEW t, Flows(h, queue, s),
         t = s \/ LostIn(g, Len(h))
  PROVE  KeepsLinks(h, queue, s, g, queue, t)
<1> SUFFICES ASSUME NEW p \in 0 .. Len(h), NEW a, NEW i \in 1 .. Len(queue) + 1,
                    ToNext(h, queue, s, p, a, i)
             PROVE  ToNext(g, queue, t, p, a, i)
  BY DEF KeepsLinks
<1> DEFINE q == NextPacket(h, queue, i)
<1>1. q \in 0 .. Len(h) /\ q = NextPacket(g, queue, i)
  BY NextRange DEF NextPacket
<1>2. Comes(h, p, a, q, NextPlace(queue, s, i))
  BY DEF ToNext
<1>3. Comes(g, p, a, q, NextPlace(queue, s, i))
  <2> HIDE DEF q
  <2> QED
    BY <1>1, <1>2, ComesKept
<1>4. CASE i <= Len(queue) \/ t = s
  <2>1. NextPlace(queue, s, i) = NextPlace(queue, t, i)
    BY <1>4 DEF NextPlace
  <2> QED
    BY <1>1, <1>3, <2>1 DEF ToNext
<1>5. CASE ~(i <= Len(queue)) /\ t # s
  <2>1. Comes(g, p, a, Len(h), s)
    BY <1>3, <1>5 DEF NextPacket, NextPlace
  <2>2. LostIn(g, Len(h)) /\ Len(h) \in 0 .. Len(g) /\ Len(h) # 0 /\ Len(h) \in Nat
    BY <1>5 DEF LostIn, Past
  <2>3. Comes(g, Len(h), s, Len(h), t)
    BY <2>2 DEF Comes
  <2>4. p \in 0 .. Len(g) /\ Len(h) \in 1 .. Len(g)
    BY <2>2
  <2>5. Comes(g, p, a, Len(h), t)
    BY <2>1, <2>2, <2>3, <2>4, ComesThrough
  <2> QED
    BY <1>5, <2>5 DEF ToNext, NextPacket, NextPlace
<1> QED
  BY <1>4, <1>5

\* ble_tx_helper while the pipe is open.
LEMMA LinksSend ==
  ASSUME NEW h, Past(h), NEW queue \in Seq(Seq(StreamCells)), NEW s, Flows(h, queue, s),
         NEW m \in Seq(StreamCells), Carries(h, m, Len(h), s), Len(h) # 0
  PROVE  /\ KeepsLinks(h, queue, s, h, Append(queue, m), End(h, Len(h), s))
         /\ Flows(h, Append(queue, m), End(h, Len(h), s))
<1> DEFINE n == Len(h)  over == Append(queue, m)  t == End(h, n, s)  k == Len(queue)
<1>1. k \in Nat /\ Len(over) = k + 1 /\ over[k + 1] = m
      /\ \A i \in 1 .. k : over[i] = queue[i]
  OBVIOUS
<1>2. m[1].packet = n /\ m[1].place = s
  BY MessageHead
<1> HIDE DEF n, over, t, k
<1>3. \A i \in 1 .. k + 1 : /\ NextPacket(h, over, i) = NextPacket(h, queue, i)
                            /\ NextPlace(over, t, i) = NextPlace(queue, s, i)
  <2> SUFFICES ASSUME NEW i \in 1 .. k + 1
               PROVE  /\ NextPacket(h, over, i) = NextPacket(h, queue, i)
                      /\ NextPlace(over, t, i) = NextPlace(queue, s, i)
    OBVIOUS
  <2>1. CASE i <= k
    <3>1. i <= Len(over) /\ over[i] = queue[i] /\ i <= Len(queue)
      BY <1>1, <2>1 DEF k
    <3> QED
      BY <3>1 DEF NextPacket, NextPlace
  <2>2. CASE ~(i <= k)
    <3>1. i = k + 1 /\ i <= Len(over) /\ ~(i <= Len(queue))
      BY <1>1, <2>2 DEF k
    <3> QED
      BY <1>1, <1>2, <3>1 DEF NextPacket, NextPlace, n
  <2> QED
    BY <2>1, <2>2
<1>4. KeepsLinks(h, queue, s, h, over, t)
  BY <1>3 DEF KeepsLinks, ToNext, k
<1>5. Flows(h, over, t)
  <2> SUFFICES ASSUME NEW i \in 1 .. k + 1
               PROVE  /\ Carries(h, over[i], over[i][1].packet, over[i][1].place)
                      /\ ToNext(h, over, t, over[i][1].packet, EndOf(h, over, i), i + 1)
    BY <1>1 DEF Flows
  <2>1. CASE i \in 1 .. k
    <3>1. over[i] = queue[i] /\ EndOf(h, over, i) = EndOf(h, queue, i)
      BY <1>1, <2>1 DEF EndOf
    <3>2. /\ Carries(h, queue[i], queue[i][1].packet, queue[i][1].place)
          /\ ToNext(h, queue, s, queue[i][1].packet, EndOf(h, queue, i), i + 1)
      BY <2>1 DEF Flows, k
    <3>3. i + 1 \in 1 .. k + 1 /\ queue[i][1].packet \in 0 .. Len(h)
      <4>1. queue[i][1].packet \in 1 .. Len(h) /\ Len(h) \in Nat
        BY <3>2 DEF Carries, Past
      <4>2. i + 1 \in 1 .. k + 1
        BY <1>1, <2>1
      <4> QED
        BY <4>1, <4>2
    <3>4. ToNext(h, over, t, queue[i][1].packet, EndOf(h, queue, i), i + 1)
      BY <1>4, <3>2, <3>3 DEF KeepsLinks, k
    <3> QED
      BY <3>1, <3>2, <3>4
  <2>2. CASE i = k + 1
    <3>1. over[i] = m /\ EndOf(h, over, i) = t
      BY <1>1, <1>2, <2>2 DEF EndOf, t
    <3>2. ~(i + 1 <= Len(over))
      BY <1>1, <2>2
    <3>3. ToNext(h, over, t, n, t, i + 1)
      BY <3>2 DEF ToNext, NextPacket, NextPlace, Comes, n
    <3> QED
      BY <1>2, <3>1, <3>3 DEF n
  <2> QED
    BY <1>1, <2>1, <2>2
<1> QED
  BY <1>4, <1>5 DEF over, t, n

\* Notify and Refuse: the first message is taken.
LEMMA LinksTail ==
  ASSUME NEW h, Past(h), NEW queue \in Seq(Seq(StreamCells)), NEW s, Flows(h, queue, s),
         queue # <<>>
  PROVE  /\ Flows(h, Tail(queue), s)
         /\ \A p, a : ToNext(h, queue, s, p, a, 2) => ToNext(h, Tail(queue), s, p, a, 1)
<1> DEFINE rest == Tail(queue)
<1>1. Len(queue) \in Nat /\ Len(queue) >= 1 /\ Len(rest) = Len(queue) - 1
      /\ \A i \in 1 .. Len(queue) - 1 : rest[i] = queue[i + 1]
  OBVIOUS
<1> HIDE DEF rest
<1>2. \A i \in 1 .. Len(queue) : /\ NextPacket(h, rest, i) = NextPacket(h, queue, i + 1)
                               /\ NextPlace(rest, s, i) = NextPlace(queue, s, i + 1)
  <2> SUFFICES ASSUME NEW i \in 1 .. Len(queue)
               PROVE  /\ NextPacket(h, rest, i) = NextPacket(h, queue, i + 1)
                      /\ NextPlace(rest, s, i) = NextPlace(queue, s, i + 1)
    OBVIOUS
  <2>1. CASE i <= Len(rest)
    <3>1. rest[i] = queue[i + 1] /\ i + 1 <= Len(queue)
      BY <1>1, <2>1
    <3> QED
      BY <2>1, <3>1 DEF NextPacket, NextPlace
  <2>2. CASE ~(i <= Len(rest))
    <3>1. ~(i + 1 <= Len(queue))
      BY <1>1, <2>2
    <3> QED
      BY <2>2, <3>1 DEF NextPacket, NextPlace
  <2> QED
    BY <2>1, <2>2
<1>3. \A p, a : \A i \in 1 .. Len(queue) :
        ToNext(h, queue, s, p, a, i + 1) => ToNext(h, rest, s, p, a, i)
  BY <1>2 DEF ToNext
<1>4. Flows(h, rest, s)
  <2> SUFFICES ASSUME NEW i \in 1 .. Len(rest)
               PROVE  /\ Carries(h, rest[i], rest[i][1].packet, rest[i][1].place)
                      /\ ToNext(h, rest, s, rest[i][1].packet, EndOf(h, rest, i), i + 1)
    BY DEF Flows
  <2>1. i + 1 \in 1 .. Len(queue) /\ rest[i] = queue[i + 1]
        /\ EndOf(h, rest, i) = EndOf(h, queue, i + 1)
    <3>1. i \in 1 .. Len(queue) - 1
      BY <1>1
    <3>2. i + 1 \in 1 .. Len(queue)
      BY <1>1, <3>1
    <3>3. rest[i] = queue[i + 1]
      BY <1>1, <3>1
    <3> QED
      BY <3>2, <3>3 DEF EndOf
  <2>2. /\ Carries(h, queue[i + 1], queue[i + 1][1].packet, queue[i + 1][1].place)
        /\ ToNext(h, queue, s, queue[i + 1][1].packet, EndOf(h, queue, i + 1), (i + 1) + 1)
    BY <2>1 DEF Flows
  <2>3. ToNext(h, rest, s, queue[i + 1][1].packet, EndOf(h, queue, i + 1), i + 1)
    BY <1>3, <2>1, <2>2
  <2> QED
    BY <2>1, <2>2, <2>3
<1>5. 1 \in 1 .. Len(queue) /\ 1 + 1 = 2
  BY <1>1
<1>6. \A p, a : ToNext(h, queue, s, p, a, 2) => ToNext(h, rest, s, p, a, 1)
  BY <1>3, <1>5
<1> QED
  BY <1>4, <1>6 DEF rest

-----------------------------------------------------------------------------
(* What the receiver makes of the messages                                 *)

Things == [kind : Kind, data : Seq(StreamCells)]
Whole(h, p) == [kind |-> h[p].kind, data |-> Content(h[p].body, p)]

LEMMA WholeFacts ==
  ASSUME NEW h, Past(h), Len(h) <= MaxPackets, NEW p \in 1 .. Len(h)
  PROVE  /\ Whole(h, p) \in Things /\ PacketOf(Whole(h, p)) = p
         /\ Whole(h, p).data = Stretch(h, p, 1, Total(h, p))
<1> DEFINE size == Size[h[p].kind]  body == h[p].body  T == Total(h, p)
<1>1. h[p] \in Entry /\ body \in [1 .. size -> Look] /\ Len(h) \in Nat
  BY DEF Past
<1>2. h[p].kind \in Kind /\ size \in Nat /\ size >= 1 /\ T = size + 1
  BY <1>1, FormatAssumption DEF Entry, Total
<1>3. Content(body, p) = [i \in 1 .. size |-> Cell(p, i, body[i])]
  BY <1>1 DEF Content
<1>4. Stretch(h, p, 1, T) = [i \in 1 .. size |-> Cell(p, i, body[i])]
  <2>1. T - 1 = size /\ \A i \in 1 .. size : 1 + i - 1 = i /\ i # 0
    BY <1>2
  <2>2. \A i \in 1 .. size : ByteAt(h, p, 1 + i - 1) = Cell(p, i, body[i])
    BY <2>1 DEF ByteAt
  <2>3. Stretch(h, p, 1, T) = [i \in 1 .. T - 1 |-> ByteAt(h, p, 1 + i - 1)]
    BY DEF Stretch
  <2> HIDE DEF T, size, body
  <2> QED
    BY <2>1, <2>2, <2>3
<1>5. Stretch(h, p, 1, T) \in Seq(StreamCells)
  BY <1>2, StretchTyped
<1>6. Content(body, p)[1].packet = p
  <2>1. 1 \in 1 .. size
    BY <1>2
  <2>2. Content(body, p)[1] = Cell(p, 1, body[1])
    BY <1>3, <2>1
  <2> QED
    BY <2>2 DEF Cell
<1> QED
  BY <1>2, <1>3, <1>4, <1>5, <1>6 DEF Whole, Things, PacketOf

\* What is left in the buffer is the beginning of one packet, and the packet is
\* decoded with its last byte.
LEMMA AttemptStretch ==
  ASSUME NEW h, Past(h), Len(h) <= MaxPackets, NEW p \in 1 .. Len(h),
         NEW b \in 1 .. Total(h, p)
  PROVE  Attempt(Stretch(h, p, 0, b)) =
           IF b = Total(h, p) THEN [buffer |-> <<>>, objects |-> <<Whole(h, p)>>]
           ELSE [buffer |-> Stretch(h, p, 0, b), objects |-> <<>>]
<1> DEFINE T == Total(h, p)  s == Stretch(h, p, 0, b)  kind == h[p].kind
<1>1. h[p] \in Entry /\ Len(h) \in Nat
  BY DEF Past
<1>2. kind \in Kind /\ Size[kind] \in Nat /\ Size[kind] >= 1 /\ T = Size[kind] + 1
  BY <1>1, FormatAssumption DEF Entry, Total
<1>3. s \in Seq(StreamCells)
  <2>1. b \in 0 .. Total(h, p) /\ 0 \in Nat /\ 0 <= b
    BY <1>2
  <2> QED
    BY <2>1, StretchTyped
<1>4. Len(s) = b /\ s # <<>> /\ s[1] = Header(kind, p)
  <2>1. Measured(h, p, 0, b)
    BY <1>2, StretchLen
  <2>2. 1 \in 1 .. b - 0 /\ 0 + 1 - 1 = 0 /\ b - 0 = b /\ b # 0
    BY <1>2
  <2>3. s[1] = ByteAt(h, p, 0)
    BY <2>1, <2>2 DEF Measured
  <2> QED
    BY <2>1, <2>2, <2>3 DEF Measured, ByteAt
<1>5. Head(s).look = kind
  BY <1>3, <1>4 DEF Header, Cell
<1>6. Needed(Head(s).look) = T
  BY <1>2, <1>5 DEF Needed
<1>7. Readable(s) <=> b = T
  <2>1. b >= T <=> b = T
    BY <1>2
  <2> HIDE DEF s, T, kind
  <2> QED
    BY <1>2, <1>4, <1>5, <1>6, <2>1 DEF Readable
<1>8. CASE b = T
  <2>1. LeftOver(s) = <<>>
    <3>1. LeftOver(s) = SubSeq(s, T + 1, T)
      BY <1>4, <1>6, <1>8 DEF LeftOver
    <3> HIDE DEF s, T
    <3>2. T \in Nat
      BY <1>2
    <3> QED
      BY <1>3, <3>1, <3>2
  <2>2. Object(s) = Whole(h, p)
    <3>1. Object(s) = [kind |-> kind, data |-> SubSeq(s, 2, T)]
      BY <1>5, <1>6 DEF Object
    <3>2. SubSeq(s, 2, T) = Stretch(h, p, 1, T)
      <4>1. PartIs(h, p, 0, T, 1, T)
        BY <1>2, StretchPart
      <4>2. 1 - 0 + 1 = 2 /\ T - 0 = T
        BY <1>2
      <4> QED
        BY <1>8, <4>1, <4>2 DEF PartIs
    <3>3. Whole(h, p).data = Stretch(h, p, 1, T) /\ Whole(h, p).kind = kind
          /\ Whole(h, p) = [kind |-> kind, data |-> Whole(h, p).data]
      BY WholeFacts DEF Whole
    <3> QED
      BY <3>1, <3>2, <3>3
  <2> QED
    BY <1>7, <1>8, <2>1, <2>2 DEF Attempt
<1>9. CASE b # T
  BY <1>7, <1>9 DEF Attempt
<1> QED
  BY <1>8, <1>9

LEMMA AttemptTyped ==
  ASSUME NEW buffer \in Seq(StreamCells)
  PROVE  Attempt(buffer).buffer \in Seq(StreamCells) /\ Attempt(buffer).objects \in Seq(Things)
<1>1. CASE Readable(buffer)
  <2> DEFINE kind == Head(buffer).look  n == Needed(kind)
  <2>1. kind \in Kind /\ n \in Nat /\ Len(buffer) \in Nat /\ n <= Len(buffer)
    BY <1>1, FormatAssumption DEF Readable, Needed
  <2> HIDE DEF kind, n
  <2>2. SubSeq(buffer, n + 1, Len(buffer)) \in Seq(StreamCells)
        /\ SubSeq(buffer, 2, n) \in Seq(StreamCells)
    <3>1. \A i \in n + 1 .. Len(buffer) : buffer[i] \in StreamCells
      BY <2>1
    <3>2. \A i \in 2 .. n : buffer[i] \in StreamCells
      BY <2>1
    <3> QED
      BY <2>1, <3>1, <3>2, SubSeqProperties
  <2>3. LeftOver(buffer) = SubSeq(buffer, n + 1, Len(buffer))
        /\ Object(buffer) = [kind |-> kind, data |-> SubSeq(buffer, 2, n)]
    BY DEF LeftOver, Object, n, kind
  <2>4. Object(buffer) \in Things
    BY <2>1, <2>2, <2>3 DEF Things
  <2>5. Attempt(buffer) = [buffer |-> LeftOver(buffer), objects |-> <<Object(buffer)>>]
    BY <1>1 DEF Attempt
  <2> QED
    BY <2>2, <2>3, <2>4, <2>5
<1>2. CASE ~Readable(buffer)
  BY <1>2 DEF Attempt
<1> QED
  BY <1>1, <1>2

\* Of the packets before q, those that arrived were decoded, in order.
DecodedBefore(h, d, q) ==
  /\ \A i \in 1 .. Len(d) :
       /\ PacketOf(d[i]) \in 1 .. q - 1
       /\ h[PacketOf(d[i])].arrived /\ d[i] = Whole(h, PacketOf(d[i]))
  /\ \A i \in 1 .. Len(d) : \A j \in 1 .. i - 1 : PacketOf(d[j]) < PacketOf(d[i])
  /\ \A p \in 1 .. q - 1 : ~h[p].lost => \E i \in 1 .. Len(d) : PacketOf(d[i]) = p

\* The receiver has got the bytes up to place a of packet p.
Received(h, d, buffer, p, a) ==
  /\ p \in 0 .. Len(h) /\ a \in 0 .. Total(h, p) /\ (p # 0 => h[p].arrived)
  /\ buffer = IF a = Total(h, p) THEN <<>> ELSE Stretch(h, p, 0, a)
  /\ DecodedBefore(h, d, IF a = Total(h, p) THEN p + 1 ELSE p)

LEMMA DecodedKept ==
  ASSUME NEW h, NEW g, Past(h), Past(g), Grows(h, g), NEW q \in 0 .. Len(h) + 1, NEW d,
         DecodedBefore(h, d, q)
  PROVE  DecodedBefore(g, d, q)
<1>1. Len(h) \in Nat
  BY DEF Past
<1>2. \A p \in 1 .. q - 1 : p \in 1 .. Len(h)
  BY <1>1
<1>3. \A p \in 1 .. q - 1 : /\ Whole(g, p) = Whole(h, p) /\ (h[p].arrived => g[p].arrived)
                            /\ (h[p].lost => g[p].lost)
  BY <1>2 DEF Grows, Whole
<1> QED
  BY <1>3 DEF DecodedBefore

LEMMA DecodedSkips ==
  ASSUME NEW h, NEW d, NEW p \in Nat, NEW q \in Nat, p <= q, DecodedBefore(h, d, p),
         \A r \in p .. q - 1 : h[r].lost
  PROVE  DecodedBefore(h, d, q)
<1>1. \A r \in 1 .. q - 1 : r \in 1 .. p - 1 \/ r \in p .. q - 1
  OBVIOUS
<1>2. \A r \in 1 .. p - 1 : r \in 1 .. q - 1
  OBVIOUS
<1> QED
  BY <1>1, <1>2 DEF DecodedBefore

LEMMA DecodedOne ==
  ASSUME NEW h, Past(h), Len(h) <= MaxPackets, NEW d \in Seq(Things), NEW q \in 1 .. Len(h),
         h[q].arrived, DecodedBefore(h, d, q)
  PROVE  DecodedBefore(h, Append(d, Whole(h, q)), q + 1)
<1> DEFINE w == Whole(h, q)  e == Append(d, w)  k == Len(d)
<1>1. w \in Things /\ PacketOf(w) = q /\ w = Whole(h, q)
  BY WholeFacts
<1>2. k \in Nat /\ Len(e) = k + 1 /\ e[k + 1] = w /\ \A i \in 1 .. k : e[i] = d[i]
  OBVIOUS
<1>3. q \in Nat /\ q >= 1 /\ q + 1 - 1 = q /\ Len(h) \in Nat
  BY DEF Past
<1> HIDE DEF w, e, k
<1>4. \A i \in 1 .. k + 1 : i \in 1 .. k \/ i = k + 1
  BY <1>2
<1>5. \A i \in 1 .. k : PacketOf(e[i]) \in 1 .. q - 1
                        /\ h[PacketOf(e[i])].arrived /\ e[i] = Whole(h, PacketOf(e[i]))
  BY <1>2 DEF DecodedBefore, k
<1>6. \A p \in 1 .. q - 1 : p \in 1 .. q /\ p < q
  BY <1>3
<1>7. ASSUME NEW i \in 1 .. k + 1
      PROVE  PacketOf(e[i]) \in 1 .. q /\ h[PacketOf(e[i])].arrived
             /\ e[i] = Whole(h, PacketOf(e[i]))
  <2>1. CASE i \in 1 .. k
    BY <1>5, <1>6, <2>1
  <2>2. CASE i = k + 1
    BY <1>1, <1>2, <1>3, <2>2
  <2> QED
    BY <1>4, <2>1, <2>2
<1>8. ASSUME NEW i \in 1 .. k + 1, NEW j \in 1 .. i - 1
      PROVE  PacketOf(e[j]) < PacketOf(e[i])
  <2>1. j \in 1 .. k
    BY <1>2
  <2>2. CASE i \in 1 .. k
    BY <1>2, <2>1, <2>2 DEF DecodedBefore, k
  <2>3. CASE i = k + 1
    BY <1>1, <1>2, <1>5, <1>6, <2>1, <2>3
  <2> QED
    BY <1>4, <2>2, <2>3
<1>9. ASSUME NEW p \in 1 .. q, ~h[p].lost
      PROVE  \E i \in 1 .. k + 1 : PacketOf(e[i]) = p
  <2>1. CASE p = q
    <3>1. k + 1 \in 1 .. k + 1
      BY <1>2
    <3> QED
      BY <1>1, <1>2, <2>1, <3>1
  <2>2. CASE p # q
    <3>1. p \in 1 .. q - 1
      BY <1>3, <2>2
    <3>2. PICK i \in 1 .. k : PacketOf(d[i]) = p
      BY <1>9, <3>1 DEF DecodedBefore, k
    <3>3. i \in 1 .. k + 1 /\ PacketOf(e[i]) = p
      BY <1>2, <3>2
    <3> QED
      BY <3>3
  <2> QED
    BY <2>1, <2>2
<1>10. DecodedBefore(h, e, q + 1)
  BY <1>2, <1>3, <1>7, <1>8, <1>9 DEF DecodedBefore
<1> QED
  BY <1>10 DEF e, w

LEMMA ReceivedKept ==
  ASSUME NEW h, NEW g, Past(h), Past(g), Grows(h, g), NEW d, NEW buffer, NEW p, NEW a,
         Received(h, d, buffer, p, a)
  PROVE  Received(g, d, buffer, p, a)
<1>1. p \in 0 .. Len(h) /\ Len(h) \in Nat /\ Len(g) \in Nat /\ Len(h) <= Len(g)
  BY DEF Received, Past, Grows
<1>2. p \in 0 .. Len(g)
  BY <1>1
<1>3. Total(g, p) = Total(h, p)
  BY <1>1, StretchKept DEF Total
<1>4. p # 0 => g[p].arrived
  BY <1>1 DEF Received, Grows
<1>5. a # Total(h, p) => p # 0
  BY DEF Received, Total
<1>6. a # Total(h, p) => Stretch(g, p, 0, a) = Stretch(h, p, 0, a)
  BY <1>1, <1>5, StretchKept
<1>7. DecodedBefore(g, d, IF a = Total(h, p) THEN p + 1 ELSE p)
  <2> DEFINE q == IF a = Total(h, p) THEN p + 1 ELSE p
  <2>1. q \in 0 .. Len(h) + 1 /\ DecodedBefore(h, d, q)
    BY <1>1 DEF Received
  <2> HIDE DEF q
  <2>2. DecodedBefore(g, d, q)
    BY <2>1, DecodedKept
  <2> QED
    BY <2>2 DEF q
<1> QED
  BY <1>2, <1>3, <1>4, <1>6, <1>7 DEF Received

\* A message joins what is in the buffer, and nothing that arrived is missed.
LEMMA ReceivedMessage ==
  ASSUME NEW h, Past(h), Len(h) <= MaxPackets, ~Tears(h),
         NEW d \in Seq(Things), NEW buffer, NEW p, NEW a, Received(h, d, buffer, p, a),
         NEW m, NEW q, NEW b, Carries(h, m, q, b), Comes(h, p, a, q, b), h[q].arrived
  PROVE  LET r == Attempt(buffer \o m) IN
         Received(h, d \o r.objects, r.buffer, q, End(h, q, b)) /\ d \o r.objects \in Seq(Things)
<1> DEFINE e == End(h, q, b)  T == Total(h, q)
<1>1. Len(h) \in Nat /\ q \in 1 .. Len(h) /\ q \in 0 .. Len(h) /\ b \in 0 .. T - 1
      /\ m = Stretch(h, q, b, e)
  BY DEF Past, Carries
<1>2. T \in Nat /\ e \in b + 1 .. T
  BY <1>1, TotalRange, EndRange
<1>3. p \in 0 .. Len(h) /\ a \in 0 .. Total(h, p)
  BY DEF Received
<1>4. ~LostIn(h, q) /\ ~LostIn(h, p)
  BY <1>1, <1>3 DEF Tears, LostIn, Received
<1>5. m \in Seq(StreamCells)
  <2>1. b \in Nat /\ e \in 0 .. T /\ b <= e
    BY <1>1, <1>2
  <2> QED
    BY <1>1, <2>1, StretchTyped
<1> HIDE DEF e, T
<1>6. buffer \o m = Stretch(h, q, 0, e) /\ DecodedBefore(h, d, q)
  <2>1. CASE q = p
    <3>1. b = a /\ a # Total(h, p)
      BY <1>1, <1>2, <1>4, <2>1 DEF Comes, T
    <3>2. buffer = Stretch(h, q, 0, b) /\ DecodedBefore(h, d, q)
      BY <2>1, <3>1 DEF Received
    <3>3. JoinIs(h, q, 0, b, e)
      BY <1>1, <1>2, StretchJoin
    <3> QED
      BY <1>1, <3>2, <3>3 DEF JoinIs
  <2>2. CASE q # p
    <3>1. p < q /\ a = Total(h, p) /\ b = 0 /\ \A r \in p + 1 .. q - 1 : LostIn(h, r)
      BY <1>4, <2>2 DEF Comes
    <3>2. buffer = <<>> /\ DecodedBefore(h, d, p + 1)
      BY <3>1 DEF Received
    <3>3. buffer \o m = Stretch(h, q, 0, e)
      BY <1>1, <1>5, <3>1, <3>2
    <3>4. \A r \in p + 1 .. q - 1 : h[r].lost
      BY <3>1 DEF LostIn
    <3>5. p + 1 \in Nat /\ q \in Nat /\ p + 1 <= q
      BY <1>1, <1>3, <3>1
    <3>6. DecodedBefore(h, d, q)
      <4> DEFINE x == p + 1
      <4>1. x \in Nat /\ x <= q /\ DecodedBefore(h, d, x) /\ \A r \in x .. q - 1 : h[r].lost
        BY <3>2, <3>4, <3>5
      <4> HIDE DEF x
      <4> QED
        BY <3>5, <4>1, DecodedSkips
    <3> QED
      BY <3>3, <3>6
  <2> QED
    BY <2>1, <2>2
<1>7. e \in 1 .. T
  BY <1>1, <1>2
<1>8. Attempt(buffer \o m) =
        IF e = T THEN [buffer |-> <<>>, objects |-> <<Whole(h, q)>>]
        ELSE [buffer |-> Stretch(h, q, 0, e), objects |-> <<>>]
  BY <1>1, <1>6, <1>7, AttemptStretch DEF T
<1> DEFINE r == Attempt(buffer \o m)  over == d \o r.objects
<1>9. Received(h, over, r.buffer, q, e) /\ over \in Seq(Things)
  <2>1. e \in 0 .. Total(h, q)
    BY <1>7 DEF T
  <2>2. CASE e = T
    <3>1. r.buffer = <<>> /\ r.objects = <<Whole(h, q)>> /\ Whole(h, q) \in Things
      BY <1>1, <1>8, <2>2, WholeFacts
    <3>2. over = Append(d, Whole(h, q)) /\ over \in Seq(Things)
      <4> HIDE DEF r
      <4> QED
        BY <3>1
    <3>3. DecodedBefore(h, over, q + 1)
      BY <1>1, <1>6, <3>2, DecodedOne
    <3> HIDE DEF r, over
    <3> QED
      BY <1>1, <2>1, <2>2, <3>1, <3>2, <3>3 DEF Received, T
  <2>3. CASE e # T
    <3>1. r.buffer = Stretch(h, q, 0, e) /\ r.objects = <<>>
      BY <1>8, <2>3
    <3>2. over = d
      <4> HIDE DEF r
      <4> QED
        BY <3>1
    <3> HIDE DEF r, over
    <3> QED
      BY <1>1, <1>6, <2>1, <2>3, <3>1, <3>2 DEF Received, T
  <2> QED
    BY <2>2, <2>3
<1> QED
  BY <1>9 DEF e

\* Once everything has arrived, nothing waits in the buffer.
LEMMA ReceivedAll ==
  ASSUME NEW h, Past(h), ~Tears(h), NEW d, NEW buffer, NEW p, NEW a,
         Received(h, d, buffer, p, a), Comes(h, p, a, Len(h), Total(h, Len(h)))
  PROVE  buffer = <<>> /\ DecodedBefore(h, d, Len(h) + 1)
<1> DEFINE n == Len(h)
<1>1. n \in Nat /\ p \in 0 .. n /\ n \in 0 .. Len(h)
  BY DEF Past, Received
<1>2. ~LostIn(h, p)
  BY <1>1 DEF Tears, LostIn, Received
<1>3. a = Total(h, p)
  BY <1>2 DEF Comes
<1>4. buffer = <<>> /\ DecodedBefore(h, d, p + 1)
  BY <1>3 DEF Received
<1>5. CASE p = n
  BY <1>4, <1>5
<1>6. CASE p # n
  <2>1. p < n /\ (~LostIn(h, n) => Total(h, n) = 0) /\ \A r \in p + 1 .. n - 1 : LostIn(h, r)
    BY <1>6 DEF Comes
  <2>2. LostIn(h, n)
    BY <1>1, <2>1, TotalRange
  <2>3. \A r \in p + 1 .. n : r \in p + 1 .. n - 1 \/ r = n
    BY <1>1
  <2>4. \A r \in p + 1 .. n : h[r].lost
    BY <2>1, <2>2, <2>3 DEF LostIn
  <2>5. DecodedBefore(h, d, n + 1)
    <3> DEFINE x == p + 1  y == n + 1
    <3>1. x \in Nat /\ y \in Nat /\ x <= y /\ y - 1 = n /\ DecodedBefore(h, d, x)
      BY <1>1, <1>4
    <3>2. \A r \in x .. y - 1 : h[r].lost
      BY <2>4, <3>1
    <3> HIDE DEF x, y
    <3>3. DecodedBefore(h, d, y)
      BY <3>1, <3>2, DecodedSkips
    <3> QED
      BY <3>3 DEF y
  <2> QED
    BY <1>4, <2>5
<1> QED
  BY <1>5, <1>6

-----------------------------------------------------------------------------
(* The invariant of the stream.                                            *)

\* Where the receiver has got to, as long as no packet was torn: the next message
\* goes on there.
Taken(s) ==
  \E p, a : Received(sent, decoded, receiver, p, a) /\ ToNext(sent, onAir, s, p, a, 1)

\* The sender is at place s of the last packet.
Streams(s) ==
  /\ SenderAt(sent, sending, s) /\ Flows(sent, onAir, s)
  /\ ~Tears(sent) => Taken(s)

StreamTypes ==
  /\ Past(sent) /\ Len(sent) <= MaxPackets
  /\ onAir \in Seq(Seq(StreamCells)) /\ receiver \in Seq(StreamCells)
  /\ decoded \in Seq(Things)

PacketInv == StreamTypes /\ \E s : Streams(s)

LEMMA StreamBegins == PacketInit => PacketInv
<1> SUFFICES ASSUME PacketInit PROVE PacketInv
  OBVIOUS
<1>1. sent = <<>> /\ decoded = <<>> /\ onAir = <<>> /\ receiver = <<>>
      /\ sending.prefix = <<>> /\ sending.data = <<>>
  BY DEF PacketInit
<1>2. MaxPackets \in Nat /\ Len(sent) = 0 /\ Len(onAir) = 0 /\ Len(decoded) = 0
  BY <1>1, StreamAssumption
<1>3. StreamTypes
  BY <1>1, <1>2 DEF StreamTypes, Past
<1>4. Total(sent, 0) = 0 /\ Stretch(sent, 0, 0, 0) = <<>>
  BY DEF Total, Stretch
<1>5. SenderAt(sent, sending, 0)
  BY <1>1, <1>2, <1>4 DEF SenderAt
<1>6. Flows(sent, onAir, 0)
  BY <1>2 DEF Flows
<1>7. Received(sent, decoded, receiver, 0, 0)
  <2>1. DecodedBefore(sent, decoded, 1)
    BY <1>2 DEF DecodedBefore
  <2>2. 0 \in 0 .. Len(sent) /\ 0 \in 0 .. Total(sent, 0) /\ 0 + 1 = 1
    BY <1>2, <1>4
  <2> QED
    BY <1>1, <1>4, <2>1, <2>2 DEF Received
<1>8. ToNext(sent, onAir, 0, 0, 0, 1)
  BY <1>2 DEF ToNext, NextPacket, NextPlace, Comes
<1>9. Streams(0)
  BY <1>5, <1>6, <1>7, <1>8 DEF Streams, Taken
<1> QED
  BY <1>3, <1>9 DEF PacketInv

\* A step of which the client hears nothing: no link is broken.
LEMMA TakenKept ==
  ASSUME PacketInv, Past(sent'), Grows(sent, sent'), UNCHANGED <<decoded, receiver>>,
         NEW s, NEW t, Streams(s), Len(onAir) \in Nat, ~Tears(sent)',
         \A p \in 0 .. Len(sent) : \A a :
           ToNext(sent, onAir, s, p, a, 1) => ToNext(sent', onAir', t, p, a, 1)
  PROVE  \E p, a : /\ Received(sent', decoded', receiver', p, a)
                   /\ ToNext(sent', onAir', t, p, a, 1)
<1>1. Past(sent)
  BY DEF PacketInv, StreamTypes
<1>2. ~Tears(sent)
  BY <1>1, TearStays
<1>3. PICK p, a : Received(sent, decoded, receiver, p, a) /\ ToNext(sent, onAir, s, p, a, 1)
  BY <1>2 DEF Streams, Taken
<1>4. Received(sent', decoded', receiver', p, a)
  BY <1>1, <1>3, ReceivedKept
<1>5. p \in 0 .. Len(sent)
  BY <1>3 DEF Received
<1> QED
  BY <1>3, <1>4, <1>5

\* Streams after a step, at place t.
LEMMA StreamsNext ==
  ASSUME NEW t, StreamTypes', SenderAt(sent', sending', t), Flows(sent', onAir', t),
         ~Tears(sent)' =>
           \E p, a : /\ Received(sent', decoded', receiver', p, a)
                     /\ ToNext(sent', onAir', t, p, a, 1)
  PROVE  PacketInv'
BY DEF PacketInv, Streams, Taken

\* The step of Begin: the sender was done with the last packet.
LEMMA StreamBegin ==
  ASSUME PacketInv, Begin
  PROVE  PacketInv'
<1>1. Past(sent) /\ onAir \in Seq(Seq(StreamCells)) /\ decoded \in Seq(Things)
      /\ Len(onAir) \in Nat /\ receiver \in Seq(StreamCells)
  BY DEF PacketInv, StreamTypes
<1>2. PICK s : Streams(s)
  BY DEF PacketInv
<1>0. PICK k \in Kind : \E body \in Bodies[k] :
        /\ sending' = [prefix |-> <<Header(k, Len(sent) + 1)>>,
                       data |-> Content(body, Len(sent) + 1)]
        /\ sent' = Append(sent, [kind |-> k, body |-> body, arrived |-> FALSE, lost |-> FALSE])
  BY DEF Begin
<1>3. PICK body \in Bodies[k] :
        /\ sending' = [prefix |-> <<Header(k, Len(sent) + 1)>>,
                       data |-> Content(body, Len(sent) + 1)]
        /\ sent' = Append(sent, [kind |-> k, body |-> body, arrived |-> FALSE, lost |-> FALSE])
  BY <1>0
<1>4. body \in [1 .. Size[k] -> Look]
  BY StreamAssumption
<1> DEFINE e == [kind |-> k, body |-> body, arrived |-> FALSE, lost |-> FALSE]
           n == Len(sent)
<1>5. e \in Entry /\ e.kind = k /\ e.body = body
  BY <1>4 DEF Entry, Body
<1> HIDE DEF e
<1>6. Past(sent') /\ Len(sent') = n + 1 /\ Grows(sent, sent') /\ sent'[n + 1] = e
  <2>1. sent' = Append(sent, e)
    BY <1>3 DEF e
  <2> QED
    BY <1>1, <1>4, <1>5, <2>1, AppendFacts
<1>7. s = Total(sent, n) /\ UNCHANGED <<onAir, decoded, receiver>> /\ n \in Nat
      /\ n < MaxPackets
  <2>1. sending.data = <<>> /\ n < MaxPackets /\ UNCHANGED <<onAir, decoded, receiver>>
    BY DEF Begin
  <2>2. SenderAt(sent, sending, s)
    BY <1>2 DEF Streams
  <2>3. s = Total(sent, n)
    BY <1>1, <2>1, <2>2, SenderDone
  <2> QED
    BY <1>1, <2>1, <2>3 DEF Past
<1>8. MaxPackets \in Nat /\ Size[k] \in Nat
  BY StreamAssumption, FormatAssumption
<1>9. StreamTypes'
  BY <1>1, <1>6, <1>7, <1>8 DEF StreamTypes
<1>10. SenderAt(sent', sending', 0)
  <2> DEFINE g == sent'  q == n + 1  T == Total(g, q)
  <2>1. T = Size[k] + 1 /\ q \in Nat /\ q # 0
    BY <1>5, <1>6, <1>7 DEF Total
  <2>2. Stretch(g, q, 0, 1) = <<Header(k, q)>>
    <3>1. Stretch(g, q, 0, 1) = [i \in 1 .. 1 |-> ByteAt(g, q, i - 1)]
      BY DEF Stretch
    <3>2. ByteAt(g, q, 1 - 1) = Header(k, q)
      BY <1>5, <1>6 DEF ByteAt
    <3> QED
      BY <3>1, <3>2
  <2>3. Stretch(g, q, 1, T) = Content(body, q)
    <3>1. Past(g) /\ Len(g) <= MaxPackets /\ q \in 1 .. Len(g)
      BY <1>6, <1>7, <1>8
    <3>2. Whole(g, q).data = Stretch(g, q, 1, T)
      <4> HIDE DEF g, q
      <4> QED
        BY <3>1, WholeFacts
    <3>3. Whole(g, q).data = Content(body, q)
      BY <1>5, <1>6 DEF Whole
    <3> QED
      BY <3>2, <3>3
  <2>4. sending'.prefix = <<Header(k, q)>> /\ sending'.data = Content(body, q)
    BY <1>3
  <2>5. Len(g) = q /\ 0 \in 0 .. T
    BY <1>6, <1>8, <2>1
  <2> HIDE DEF g, q, T
  <2>6. SenderAt(g, sending', 0)
    BY <2>1, <2>2, <2>3, <2>4, <2>5 DEF SenderAt, T
  <2> QED
    BY <2>6 DEF g
<1>11. KeepsLinks(sent, onAir, s, sent', onAir, 0)
  BY <1>1, <1>2, <1>6, <1>7, LinksOver DEF Streams
<1>12. Flows(sent', onAir', 0)
  BY <1>1, <1>2, <1>6, <1>7, <1>11, FlowsOn DEF Streams
<1>13. ASSUME ~Tears(sent)'
       PROVE  \E p, a : /\ Received(sent', decoded', receiver', p, a)
                        /\ ToNext(sent', onAir', 0, p, a, 1)
  <2>1. 1 \in 1 .. Len(onAir) + 1
    BY <1>1
  <2>2. \A p \in 0 .. Len(sent) : \A a :
          ToNext(sent, onAir, s, p, a, 1) => ToNext(sent', onAir', 0, p, a, 1)
    BY <1>7, <1>11, <2>1 DEF KeepsLinks
  <2> QED
    BY <1>1, <1>2, <1>6, <1>7, <1>13, <2>2, TakenKept
<1> QED
  BY <1>9, <1>10, <1>12, <1>13, StreamsNext

\* The step of ble_tx_helper: the message is on the air or lost, and the sender has
\* come to its end.
LEMMA StreamHelper ==
  ASSUME PacketInv, ble_tx_helper
  PROVE  PacketInv'
<1>1. Past(sent) /\ onAir \in Seq(Seq(StreamCells)) /\ decoded \in Seq(Things)
      /\ Len(onAir) \in Nat /\ Len(sent) <= MaxPackets /\ 1 \in 1 .. Len(onAir) + 1
      /\ receiver \in Seq(StreamCells)
  BY DEF PacketInv, StreamTypes
<1>2. PICK s : Streams(s)
  BY DEF PacketInv
<1> DEFINE n == Len(sent)  m == Message(sending)  t == End(sent, n, s)
<1>3. /\ n # 0 /\ Carries(sent, m, n, s) /\ SenderAt(sent, Advance(sending), t)
      /\ sending' = Advance(sending) /\ UNCHANGED <<decoded, receiver>>
  BY <1>1, <1>2, SenderStep DEF Streams, ble_tx_helper
<1>4. n \in 1 .. Len(sent) /\ m = Stretch(sent, n, s, t) /\ n \in Nat /\ s \in 0 .. Total(sent, n) - 1
  BY <1>1, <1>3 DEF Carries
<1>5. Flows(sent, onAir, s)
  BY <1>2 DEF Streams
<1>6. CASE pipe
  <2>1. onAir' = Append(onAir, m) /\ sent' = sent
    BY <1>6 DEF ble_tx_helper
  <2>2. m \in Seq(StreamCells)
    <3>1. Total(sent, n) \in Nat /\ t \in s + 1 .. Total(sent, n)
      BY <1>1, <1>4, TotalRange, EndRange
    <3>2. s \in Nat /\ t \in 0 .. Total(sent, n) /\ s <= t
      BY <1>4, <3>1
    <3> HIDE DEF t, n, m
    <3> QED
      BY <1>1, <1>4, <3>2, StretchTyped
  <2>3. KeepsLinks(sent, onAir, s, sent, onAir', t) /\ Flows(sent, onAir', t)
    <3> HIDE DEF m
    <3> QED
      BY <1>1, <1>3, <1>5, <2>1, <2>2, LinksSend
  <2> HIDE DEF m, t, n
  <2>4. StreamTypes'
    BY <1>1, <1>3, <2>1, <2>2 DEF StreamTypes
  <2>5. Grows(sent, sent)
    BY <1>1 DEF Grows, Past
  <2>6. ASSUME ~Tears(sent)'
        PROVE  \E p, a : /\ Received(sent', decoded', receiver', p, a)
                         /\ ToNext(sent', onAir', t, p, a, 1)
    <3>1. \A p \in 0 .. Len(sent) : \A a :
            ToNext(sent, onAir, s, p, a, 1) => ToNext(sent', onAir', t, p, a, 1)
      BY <1>1, <2>1, <2>3 DEF KeepsLinks
    <3> QED
      BY <1>1, <1>2, <1>3, <2>1, <2>5, <2>6, <3>1, TakenKept
  <2>7. SenderAt(sent', sending', t) /\ Flows(sent', onAir', t)
    BY <1>3, <2>1, <2>3
  <2> QED
    BY <2>4, <2>6, <2>7, StreamsNext
<1>7. CASE ~pipe
  <2>1. onAir' = onAir /\ sent' = [sent EXCEPT ![n].lost = TRUE]
    BY <1>1, <1>3, <1>7, MessageHead DEF ble_tx_helper, Lose
  <2>2. Past(sent') /\ Len(sent') = n /\ Grows(sent, sent') /\ LostIn(sent', n)
    BY <1>1, <1>4, <2>1, LoseFacts
  <2>3. StreamTypes'
    BY <1>1, <1>3, <2>1, <2>2 DEF StreamTypes
  <2>4. SenderAt(sent', sending', t)
    <3> HIDE DEF t
    <3> QED
      BY <1>1, <1>3, <2>2, SenderKept
  <2>5. KeepsLinks(sent, onAir, s, sent', onAir, t)
    <3> HIDE DEF t
    <3> QED
      BY <1>1, <1>5, <2>2, LinksGrow
  <2>6. Flows(sent', onAir', t)
    <3> HIDE DEF t
    <3> QED
      BY <1>1, <1>5, <2>1, <2>2, <2>5, FlowsOn
  <2> HIDE DEF t, m
  <2>7. ASSUME ~Tears(sent)'
        PROVE  \E p, a : /\ Received(sent', decoded', receiver', p, a)
                         /\ ToNext(sent', onAir', t, p, a, 1)
    <3>1. \A p \in 0 .. Len(sent) : \A a :
            ToNext(sent, onAir, s, p, a, 1) => ToNext(sent', onAir', t, p, a, 1)
      BY <1>1, <2>1, <2>5 DEF KeepsLinks
    <3> QED
      BY <1>1, <1>2, <1>3, <2>2, <2>7, <3>1, TakenKept
  <2> QED
    BY <2>3, <2>4, <2>6, <2>7, StreamsNext
<1> QED
  BY <1>6, <1>7

\* The step of Notify: the receiver gets the first message.
LEMMA StreamNotify ==
  ASSUME PacketInv, Notify
  PROVE  PacketInv'
<1>1. Past(sent) /\ onAir \in Seq(Seq(StreamCells)) /\ decoded \in Seq(Things)
      /\ Len(onAir) \in Nat /\ Len(sent) <= MaxPackets /\ receiver \in Seq(StreamCells)
  BY DEF PacketInv, StreamTypes
<1>2. PICK s : Streams(s)
  BY DEF PacketInv
<1>3. onAir # <<>> /\ onAir' = Tail(onAir) /\ sending' = sending
      /\ sent' = [sent EXCEPT ![Head(Head(onAir)).packet].arrived = TRUE]
  BY DEF Notify
<1> DEFINE m == Head(onAir)  r == Attempt(receiver \o m)
           q == onAir[1][1].packet  b == onAir[1][1].place
<1>4. decoded' = decoded \o r.objects /\ receiver' = r.buffer
  BY DEF Notify
<1>5. 1 \in 1 .. Len(onAir) /\ m = onAir[1] /\ Tail(onAir) \in Seq(Seq(StreamCells))
  BY <1>1, <1>3
<1>6. Flows(sent, onAir, s) /\ Carries(sent, onAir[1], q, b)
      /\ ToNext(sent, onAir, s, q, EndOf(sent, onAir, 1), 1 + 1)
  BY <1>2, <1>5 DEF Streams, Flows
<1>7. Head(m).packet = q /\ q \in 1 .. Len(sent)
  BY <1>1, <1>5, <1>6, MessageHead DEF Carries
<1> HIDE DEF m, r, q, b
<1>8. Past(sent') /\ Len(sent') = Len(sent) /\ Grows(sent, sent') /\ sent'[q].arrived
  BY <1>1, <1>3, <1>7, ArriveFacts DEF m
<1>9. KeepsLinks(sent, onAir, s, sent', onAir, s)
  BY <1>1, <1>6, <1>8, LinksGrow
<1>10. Flows(sent', onAir, s)
  BY <1>1, <1>6, <1>8, <1>9, FlowsOn
<1>11. Flows(sent', onAir', s)
       /\ \A p, a : ToNext(sent', onAir, s, p, a, 2) => ToNext(sent', onAir', s, p, a, 1)
  BY <1>1, <1>3, <1>8, <1>10, LinksTail
<1>12. SenderAt(sent', sending', s)
  <2>1. SenderAt(sent, sending, s)
    BY <1>2 DEF Streams
  <2> QED
    BY <1>1, <1>3, <1>8, <2>1, SenderKept
<1>13. End(sent', q, b) = EndOf(sent, onAir, 1) /\ EndOf(sent, onAir, 1) = EndOf(sent', onAir, 1)
  BY <1>1, <1>7, <1>8, StretchKept DEF EndOf, q, b
<1>14. Carries(sent', m, q, b)
  BY <1>1, <1>5, <1>6, <1>7, <1>8, StretchKept
<1>15. ASSUME ~Tears(sent)'
       PROVE  \E p, a : /\ Received(sent', decoded', receiver', p, a)
                        /\ ToNext(sent', onAir', s, p, a, 1)
  <2>1. ~Tears(sent)
    BY <1>1, <1>8, <1>15, TearStays
  <2>2. PICK p, a : Received(sent, decoded, receiver, p, a) /\ ToNext(sent, onAir, s, p, a, 1)
    BY <1>2, <2>1 DEF Streams, Taken
  <2>3. Received(sent', decoded, receiver, p, a)
    BY <1>1, <1>8, <2>2, ReceivedKept
  <2>4. p \in 0 .. Len(sent) /\ 1 \in 1 .. Len(onAir) + 1 /\ 1 <= Len(onAir)
    BY <1>1, <1>5, <2>2 DEF Received
  <2>5. ToNext(sent', onAir, s, p, a, 1)
    BY <1>9, <2>2, <2>4 DEF KeepsLinks
  <2>6. Comes(sent', p, a, q, b)
    BY <2>4, <2>5 DEF ToNext, NextPacket, NextPlace, q, b
  <2>7. Received(sent', decoded', receiver', q, End(sent', q, b))
    <3> DEFINE g == sent'
    <3>1. Past(g) /\ Len(g) <= MaxPackets /\ ~Tears(g) /\ g[q].arrived
          /\ Received(g, decoded, receiver, p, a) /\ Carries(g, m, q, b) /\ Comes(g, p, a, q, b)
      BY <1>1, <1>8, <1>14, <1>15, <2>3, <2>6
    <3> HIDE DEF g
    <3>2. Received(g, decoded \o r.objects, r.buffer, q, End(g, q, b))
      BY <1>1, <3>1, ReceivedMessage DEF r
    <3> QED
      BY <1>4, <3>2 DEF g
  <2>8. ToNext(sent', onAir, s, q, EndOf(sent, onAir, 1), 2)
    <3>1. q \in 0 .. Len(sent) /\ 2 \in 1 .. Len(onAir) + 1
      BY <1>1, <1>5, <1>7
    <3> QED
      BY <1>6, <1>9, <3>1 DEF KeepsLinks
  <2>9. ToNext(sent', onAir', s, q, End(sent', q, b), 1)
    BY <1>11, <1>13, <2>8
  <2> QED
    BY <2>7, <2>9
<1>16. receiver' \in Seq(StreamCells) /\ decoded' \in Seq(Things)
  <2>1. receiver \o m \in Seq(StreamCells)
    BY <1>1, <1>5
  <2>2. r.buffer \in Seq(StreamCells) /\ r.objects \in Seq(Things)
    BY <2>1, AttemptTyped DEF r
  <2> QED
    BY <1>1, <1>4, <2>2
<1>17. StreamTypes'
  BY <1>1, <1>3, <1>5, <1>8, <1>16 DEF StreamTypes
<1> QED
  BY <1>11, <1>12, <1>15, <1>17, StreamsNext

\* The step of Refuse: the first message is lost, and what came next after it comes
\* next after the one before.
LEMMA StreamRefuse ==
  ASSUME PacketInv, Refuse
  PROVE  PacketInv'
<1>1. Past(sent) /\ onAir \in Seq(Seq(StreamCells)) /\ decoded \in Seq(Things)
      /\ Len(onAir) \in Nat /\ Len(sent) <= MaxPackets /\ receiver \in Seq(StreamCells)
  BY DEF PacketInv, StreamTypes
<1>2. PICK s : Streams(s)
  BY DEF PacketInv
<1>3. onAir # <<>> /\ onAir' = Tail(onAir) /\ UNCHANGED <<sending, receiver, decoded>>
      /\ sent' = [sent EXCEPT ![Head(Head(onAir)).packet].lost = TRUE]
  <2>1. sent' = Lose(Head(onAir)) /\ onAir # <<>> /\ onAir' = Tail(onAir)
        /\ UNCHANGED <<sending, receiver, decoded>>
    BY DEF Refuse
  <2> QED
    BY <2>1 DEF Lose
<1> DEFINE q == onAir[1][1].packet  b == onAir[1][1].place
<1>4. 1 \in 1 .. Len(onAir) /\ Head(onAir) = onAir[1] /\ Tail(onAir) \in Seq(Seq(StreamCells))
  BY <1>1, <1>3
<1>5. Flows(sent, onAir, s) /\ Carries(sent, onAir[1], q, b)
      /\ ToNext(sent, onAir, s, q, EndOf(sent, onAir, 1), 1 + 1)
  BY <1>2, <1>4 DEF Streams, Flows
<1>6. Head(Head(onAir)).packet = q /\ q \in 1 .. Len(sent)
  BY <1>1, <1>4, <1>5, MessageHead DEF Carries
<1> HIDE DEF q, b
<1>7. Past(sent') /\ Len(sent') = Len(sent) /\ Grows(sent, sent') /\ LostIn(sent', q)
  BY <1>1, <1>3, <1>6, LoseFacts
<1>8. KeepsLinks(sent, onAir, s, sent', onAir, s)
  BY <1>1, <1>5, <1>7, LinksGrow
<1>9. Flows(sent', onAir, s)
  BY <1>1, <1>5, <1>7, <1>8, FlowsOn
<1>10. Flows(sent', onAir', s)
       /\ \A p, a : ToNext(sent', onAir, s, p, a, 2) => ToNext(sent', onAir', s, p, a, 1)
  BY <1>1, <1>3, <1>7, <1>9, LinksTail
<1>11. SenderAt(sent', sending', s)
  <2>1. SenderAt(sent, sending, s)
    BY <1>2 DEF Streams
  <2> QED
    BY <1>1, <1>3, <1>7, <2>1, SenderKept
<1>12. StreamTypes'
  BY <1>1, <1>3, <1>4, <1>7 DEF StreamTypes
<1>13. ToNext(sent', onAir, s, q, EndOf(sent, onAir, 1), 2)
  <2>1. q \in 0 .. Len(sent) /\ 2 \in 1 .. Len(onAir) + 1
    BY <1>1, <1>4, <1>6
  <2> QED
    BY <1>5, <1>8, <2>1 DEF KeepsLinks
<1>14. ASSUME ~Tears(sent)'
       PROVE  \E p, a : /\ Received(sent', decoded', receiver', p, a)
                        /\ ToNext(sent', onAir', s, p, a, 1)
  <2>1. ASSUME NEW p \in 0 .. Len(sent), NEW a, ToNext(sent, onAir, s, p, a, 1)
        PROVE  ToNext(sent', onAir', s, p, a, 1)
    <3>1. ToNext(sent', onAir, s, p, a, 1)
      <4>1. 1 \in 1 .. Len(onAir) + 1
        BY <1>1
      <4> QED
        BY <1>8, <2>1, <4>1 DEF KeepsLinks
    <3>2. Comes(sent', p, a, q, b)
      <4>1. 1 <= Len(onAir)
        BY <1>4
      <4> QED
        BY <3>1, <4>1 DEF ToNext, NextPacket, NextPlace, q, b
    <3> DEFINE g == sent'  x == NextPacket(sent', onAir, 2)  y == NextPlace(onAir, s, 2)
               e == EndOf(sent, onAir, 1)
    <3>3. Comes(g, q, e, x, y)
      BY <1>13 DEF ToNext
    <3>4. 2 \in 1 .. Len(onAir) + 1
      BY <1>1, <1>4
    <3>5. x \in 0 .. Len(g)
      BY <1>1, <1>7, <1>9, <3>4, NextRange
    <3>6. p \in 0 .. Len(g) /\ q \in 1 .. Len(g) /\ Past(g) /\ LostIn(g, q)
          /\ Comes(g, p, a, q, b)
      BY <1>6, <1>7, <3>2
    <3> HIDE DEF g, x, y, e
    <3>7. Comes(g, p, a, x, y)
      BY <3>3, <3>5, <3>6, ComesThrough
    <3>8. ToNext(sent', onAir, s, p, a, 2)
      BY <3>7 DEF ToNext, g, x, y
    <3> QED
      BY <1>10, <3>8
  <2> QED
    BY <1>1, <1>2, <1>3, <1>7, <1>14, <2>1, TakenKept
<1> QED
  BY <1>10, <1>11, <1>12, <1>14, StreamsNext

\* The steps that are of no concern here: Close and Open.
LEMMA StreamPipe ==
  ASSUME PacketInv, UNCHANGED <<sending, onAir, receiver, sent, decoded>>
  PROVE  PacketInv'
BY DEF PacketInv, StreamTypes, Streams, Taken

LEMMA PacketStep == PacketInv /\ [PacketNext]_packetvars => PacketInv'
<1> SUFFICES ASSUME PacketInv, [PacketNext]_packetvars PROVE PacketInv'
  OBVIOUS
<1>1. CASE Begin
  BY <1>1, StreamBegin
<1>2. CASE ble_tx_helper
  BY <1>2, StreamHelper
<1>3. CASE Notify
  BY <1>3, StreamNotify
<1>4. CASE Refuse
  BY <1>4, StreamRefuse
<1>5. CASE Close \/ Open \/ UNCHANGED packetvars
  BY <1>5, StreamPipe DEF Close, Open, packetvars
<1> QED
  BY <1>1, <1>2, <1>3, <1>4, <1>5 DEF PacketNext

\* Without a torn packet, the packets that were decoded are those that were sent.
LEMMA StreamImplies == PacketInv => DecodesWhatWasSent
<1> SUFFICES ASSUME PacketInv, ~Torn PROVE DecodesWhatWasSent
  BY DEF DecodesWhatWasSent
<1> DEFINE n == Len(sent)
<1>1. Past(sent) /\ n \in Nat /\ DOMAIN sent = 1 .. n /\ decoded \in Seq(Things)
      /\ Len(onAir) \in Nat /\ DOMAIN decoded = 1 .. Len(decoded) /\ Len(decoded) \in Nat
  BY DEF PacketInv, StreamTypes, Past
<1>2. ~Tears(sent)
  BY <1>1 DEF Torn, Tears
<1>3. PICK s : Streams(s)
  BY DEF PacketInv
<1>4. PICK p, a : Received(sent, decoded, receiver, p, a) /\ ToNext(sent, onAir, s, p, a, 1)
  BY <1>2, <1>3 DEF Streams, Taken
<1>5. p \in 0 .. n
  BY <1>4 DEF Received
<1>6. PICK q \in 0 .. n + 1 : DecodedBefore(sent, decoded, q)
  <2>1. p + 1 \in 0 .. n + 1 /\ p \in 0 .. n + 1
    BY <1>1, <1>5
  <2> QED
    BY <1>4, <2>1 DEF Received
<1>7. \A x : Whole(sent, x) = Intact(x)
  BY DEF Whole, Intact
<1>8. ASSUME NEW i \in 1 .. Len(decoded)
      PROVE  LET x == PacketOf(decoded[i]) IN
             /\ x \in DOMAIN sent /\ ~sent[x].lost /\ decoded[i] = Intact(x)
             /\ \A y \in 1 .. x - 1 :
                  ~sent[y].lost => \E j \in 1 .. i - 1 : PacketOf(decoded[j]) = y
             /\ \A j \in 1 .. i - 1 : PacketOf(decoded[j]) < x
  <2> DEFINE x == PacketOf(decoded[i])
  <2>1. x \in 1 .. q - 1 /\ sent[x].arrived /\ decoded[i] = Whole(sent, x)
    BY <1>6 DEF DecodedBefore
  <2>2. x \in 1 .. n
    BY <1>1, <2>1
  <2>3. ~sent[x].lost
    BY <1>2, <2>1, <2>2 DEF Tears
  <2>4. \A j \in 1 .. i - 1 : PacketOf(decoded[j]) < x
    BY <1>6 DEF DecodedBefore
  <2> HIDE DEF x
  <2>5. ASSUME NEW y \in 1 .. x - 1, ~sent[y].lost
        PROVE  \E j \in 1 .. i - 1 : PacketOf(decoded[j]) = y
    <3>1. y \in 1 .. q - 1 /\ y < x /\ y \in Nat /\ x \in Nat
      BY <1>1, <2>1, <2>2
    <3>2. PICK j \in 1 .. Len(decoded) : PacketOf(decoded[j]) = y
      BY <1>6, <2>5, <3>1 DEF DecodedBefore
    <3>3. j # i
      BY <3>1, <3>2 DEF x
    <3>4. ~(i < j)
      <4>1. SUFFICES ASSUME i < j PROVE FALSE
        OBVIOUS
      <4>2. i \in 1 .. j - 1
        BY <4>1
      <4>3. PacketOf(decoded[i]) < PacketOf(decoded[j])
        BY <1>6, <4>2 DEF DecodedBefore
      <4> QED
        BY <3>1, <3>2, <4>3 DEF x
    <3>5. j \in 1 .. i - 1
      BY <3>3, <3>4
    <3> QED
      BY <3>2, <3>5
  <2>6. /\ x \in DOMAIN sent /\ ~sent[x].lost /\ decoded[i] = Intact(x)
        /\ \A y \in 1 .. x - 1 :
             ~sent[y].lost => \E j \in 1 .. i - 1 : PacketOf(decoded[j]) = y
        /\ \A j \in 1 .. i - 1 : PacketOf(decoded[j]) < x
    BY <1>1, <1>7, <2>1, <2>2, <2>3, <2>4, <2>5
  <2> QED
    BY <2>6 DEF x
<1>9. ASSUME Quiet
      PROVE  /\ receiver = <<>>
             /\ \A x \in 1 .. n :
                  ~sent[x].lost => \E i \in 1 .. Len(decoded) : PacketOf(decoded[i]) = x
  <2>1. onAir = <<>> /\ sending.data = <<>> /\ Len(onAir) = 0
    BY <1>9 DEF Quiet
  <2>2. s = Total(sent, n)
    BY <1>1, <1>3, <2>1, SenderDone DEF Streams
  <2>3. Comes(sent, p, a, n, Total(sent, n))
    BY <1>4, <2>1, <2>2 DEF ToNext, NextPacket, NextPlace
  <2>4. receiver = <<>> /\ DecodedBefore(sent, decoded, n + 1)
    BY <1>1, <1>2, <1>4, <2>3, ReceivedAll
  <2>5. n + 1 - 1 = n
    BY <1>1
  <2> QED
    BY <2>4, <2>5 DEF DecodedBefore
<1> QED
  BY <1>1, <1>8, <1>9 DEF DecodesWhatWasSent

\* However the packets are cut, and whatever is lost as a whole, the callbacks of
\* Receiver get exactly the packets that were sent, in order, as long as no packet
\* arrives in part (ble_tx_head, Receiver).
THEOREM StreamDecodes == PacketSpec => []DecodesWhatWasSent
<1>1. PacketInit => PacketInv
  BY StreamBegins
<1>2. PacketInv /\ [PacketNext]_packetvars => PacketInv'
  BY PacketStep
<1>3. PacketInv => DecodesWhatWasSent
  BY StreamImplies
<1> QED
  BY <1>1, <1>2, <1>3, PTL DEF PacketSpec

-----------------------------------------------------------------------------
(* PacketReader.  Only the header comes before the first byte of a body, and *)
(* it does not look like LEAD_BYTE.                                         *)

Guarded(buffer) ==
  \A i \in 2 .. Len(buffer) : buffer[i].place = 1 => buffer[i - 1].look \in Kind

\* What a message adds to a buffer keeps it so.
LEMMA GuardedMessage ==
  ASSUME NEW h, Past(h), Len(h) <= MaxPackets, NEW m, NEW p, NEW a, Carries(h, m, p, a),
         NEW buffer \in Seq(StreamCells), Guarded(buffer)
  PROVE  m \in Seq(StreamCells) /\ buffer \o m \in Seq(StreamCells) /\ Guarded(buffer \o m)
<1> DEFINE e == End(h, p, a)  T == Total(h, p)
<1>1. /\ p \in 1 .. Len(h) /\ a \in 0 .. T - 1 /\ a # 1 /\ m = Stretch(h, p, a, e)
      /\ Len(h) \in Nat
  BY DEF Carries, Past
<1>2. T \in Nat /\ e \in a + 1 .. T
  BY <1>1, TotalRange, EndRange
<1>3. a \in Nat /\ e \in 0 .. T /\ a <= e /\ e \in Nat
  BY <1>1, <1>2
<1>4. m \in Seq(StreamCells)
  BY <1>1, <1>3, StretchTyped
<1>5. Measured(h, p, a, e)
  BY <1>3, StretchLen
<1> HIDE DEF e, T
<1>6. Len(m) = e - a /\ \A i \in 1 .. e - a : m[i] = ByteAt(h, p, a + i - 1)
  BY <1>1, <1>5 DEF Measured
<1>7. \A j \in Nat : ByteAt(h, p, j).place = j
  BY DEF ByteAt, Header, Cell
<1>8. ByteAt(h, p, 0).look \in Kind
  <2>1. h[p] \in Entry
    BY <1>1 DEF Past
  <2> QED
    BY <2>1 DEF ByteAt, Header, Cell, Entry
<1> DEFINE s == buffer \o m  k == Len(buffer)
<1>9. k \in Nat /\ Len(s) = k + (e - a) /\ s \in Seq(StreamCells)
      /\ \A i \in 1 .. Len(s) : s[i] = IF i <= k THEN buffer[i] ELSE m[i - k]
  <2>1. /\ s \in Seq(StreamCells) /\ Len(s) = Len(buffer) + Len(m) /\ Len(buffer) \in Nat
        /\ \A i \in 1 .. Len(buffer) + Len(m) :
             s[i] = IF i <= Len(buffer) THEN buffer[i] ELSE m[i - Len(buffer)]
    BY <1>4, ConcatProperties
  <2> QED
    BY <1>6, <2>1
<1> HIDE DEF s
<1>10. Guarded(s)
  <2> SUFFICES ASSUME NEW i \in 2 .. Len(s), s[i].place = 1
               PROVE  s[i - 1].look \in Kind
    BY DEF Guarded
  <2>1. i \in 1 .. Len(s) /\ i - 1 \in 1 .. Len(s)
    BY <1>3, <1>9
  <2>2. CASE i <= k
    <3>1. s[i] = buffer[i] /\ s[i - 1] = buffer[i - 1] /\ i \in 2 .. Len(buffer)
      BY <1>9, <2>1, <2>2
    <3> QED
      BY <3>1 DEF Guarded
  <2>3. CASE ~(i <= k)
    <3>1. s[i] = m[i - k] /\ i - k \in 1 .. e - a
      BY <1>3, <1>9, <2>1, <2>3
    <3>2. s[i].place = a + (i - k) - 1
      <4>1. a + (i - k) - 1 \in Nat
        BY <1>3, <3>1
      <4> QED
        BY <1>6, <1>7, <3>1, <4>1
    <3>3. a = 0 /\ i - k = 2
      <4>1. a # 1 /\ i - k >= 1 /\ a + (i - k) - 1 = 1
        BY <1>1, <3>1, <3>2
      <4>2. \A x, y \in Nat : x # 1 /\ y >= 1 /\ x + y - 1 = 1 => x = 0 /\ y = 2
        OBVIOUS
      <4>3. i - k \in Nat
        BY <1>3, <3>1
      <4> QED
        BY <1>3, <4>1, <4>2, <4>3
    <3>4. ~(i - 1 <= k) /\ (i - 1) - k = 1 /\ 1 \in 1 .. e - a /\ a + 1 - 1 = 0
      BY <1>3, <1>9, <3>1, <3>3
    <3>5. s[i - 1] = m[1] /\ m[1] = ByteAt(h, p, 0)
      BY <1>6, <1>9, <2>1, <3>4
    <3> QED
      BY <1>8, <3>5
  <2> QED
    BY <2>2, <2>3
<1> QED
  BY <1>4, <1>9, <1>10 DEF s

LEMMA GuardedRest ==
  ASSUME NEW buffer \in Seq(StreamCells), Guarded(buffer), NEW n \in 1 .. Len(buffer) + 1
  PROVE  /\ SubSeq(buffer, n, Len(buffer)) \in Seq(StreamCells)
         /\ Guarded(SubSeq(buffer, n, Len(buffer)))
         /\ Len(SubSeq(buffer, n, Len(buffer))) = Len(buffer) - n + 1
         /\ n <= Len(buffer) => SubSeq(buffer, n, Len(buffer))[1] = buffer[n]
<1> DEFINE k == Len(buffer)  s == SubSeq(buffer, n, k)
<1>1. k \in Nat /\ n \in Nat /\ \A i \in n .. k : buffer[i] \in StreamCells
  OBVIOUS
<1>2. s \in Seq(StreamCells) /\ Len(s) = k - n + 1
      /\ \A i \in 1 .. k - n + 1 : s[i] = buffer[n + i - 1]
  BY <1>1, SubSeqProperties
<1> HIDE DEF s, k
<1>3. Guarded(s)
  <2> SUFFICES ASSUME NEW i \in 2 .. Len(s), s[i].place = 1
               PROVE  s[i - 1].look \in Kind
    BY DEF Guarded
  <2>1. i \in 1 .. k - n + 1 /\ i - 1 \in 1 .. k - n + 1
    BY <1>1, <1>2
  <2>2. s[i] = buffer[n + i - 1] /\ s[i - 1] = buffer[n + (i - 1) - 1]
    BY <1>2, <2>1
  <2>3. n + i - 1 \in 2 .. k /\ n + (i - 1) - 1 = (n + i - 1) - 1
    BY <1>1, <1>2, <2>1
  <2> QED
    BY <2>2, <2>3 DEF Guarded, k
<1>4. n <= k => s[1] = buffer[n]
  <2> SUFFICES ASSUME n <= k PROVE s[1] = buffer[n]
    OBVIOUS
  <2>1. 1 \in 1 .. k - n + 1 /\ n + 1 - 1 = n
    BY <1>1
  <2> QED
    BY <1>2, <2>1
<1> QED
  BY <1>2, <1>3, <1>4 DEF s, k

LEMMA LeastOf ==
  ASSUME NEW led, led \subseteq Nat, led # {}
  PROVE  \E i \in led : \A j \in led : i <= j
<1>1. PICK i \in led : \A j \in led : <<j, i>> \notin OpToRel(<, Nat)
  BY WFMin, NatLessThanWellFounded, Zenon
<1>2. \A j \in led : ~(j < i)
  BY <1>1 DEF OpToRel
<1> QED
  BY <1>2

\* What is left behind a LEAD_BYTE does not start with the first byte of a body.
LEMMA BehindLeadFacts ==
  ASSUME NEW buffer \in Seq(StreamCells), Guarded(buffer)
  PROVE  /\ BehindLead(buffer) \in Seq(StreamCells) /\ Guarded(BehindLead(buffer))
         /\ BehindLead(buffer) # <<>> => BehindLead(buffer)[1].place # 1
<1> DEFINE led == {i \in DOMAIN buffer : buffer[i].look = "lead"}
           first == CHOOSE i \in led : \A j \in led : i <= j
           rest == SubSeq(buffer, first + 1, Len(buffer))
<1>1. Len(buffer) \in Nat /\ DOMAIN buffer = 1 .. Len(buffer)
  OBVIOUS
<1>2. CASE led = {}
  <2>1. BehindLead(buffer) = <<>>
    BY <1>2 DEF BehindLead
  <2> QED
    BY <2>1 DEF Guarded
<1>3. CASE led # {}
  <2>1. led \subseteq Nat
    BY <1>1
  <2>2. BehindLead(buffer) = rest
    BY <1>3 DEF BehindLead
  <2>3. first \in led
    <3> HIDE DEF led
    <3> QED
      BY <1>3, <2>1, LeastOf
  <2> HIDE DEF first
  <2>4. first \in 1 .. Len(buffer) /\ buffer[first].look = "lead"
    BY <1>1, <2>3
  <2>5. first + 1 \in 1 .. Len(buffer) + 1
    BY <1>1, <2>4
  <2>6. rest \in Seq(StreamCells) /\ Guarded(rest)
        /\ Len(rest) = Len(buffer) - (first + 1) + 1
        /\ (first + 1 <= Len(buffer) => rest[1] = buffer[first + 1])
    BY <2>5, GuardedRest
  <2> HIDE DEF rest
  <2>7. rest # <<>> => rest[1].place # 1
    <3> SUFFICES ASSUME rest # <<>>, rest[1].place = 1 PROVE FALSE
      OBVIOUS
    <3>1. first + 1 \in 2 .. Len(buffer) /\ (first + 1) - 1 = first
      <4>1. Len(rest) # 0
        BY <2>6
      <4>2. Len(rest) = Len(buffer) - (first + 1) + 1
        BY <2>6
      <4>3. first \in 1 .. Len(buffer)
        BY <2>4
      <4>4. \A k \in Nat : \A f \in 1 .. k :
              k - (f + 1) + 1 # 0 => f + 1 \in 2 .. k /\ (f + 1) - 1 = f
        OBVIOUS
      <4> QED
        BY <1>1, <4>1, <4>2, <4>3, <4>4, Zenon
    <3>2. buffer[first + 1].place = 1
      BY <2>6, <3>1
    <3>3. buffer[first].look \in Kind
      BY <3>1, <3>2 DEF Guarded
    <3> QED
      BY <2>4, <3>3 DEF Kind
  <2> QED
    BY <2>2, <2>6, <2>7
<1> QED
  BY <1>2, <1>3

\* No object is the body of a packet.
NoneInStep(objects) == \A i \in 1 .. Len(objects) : objects[i].data[1].place # 1

LEMMA ReadSampleFacts ==
  ASSUME NEW buffer \in Seq(StreamCells), Guarded(buffer)
  PROVE  /\ ReadSample(buffer).buffer \in Seq(StreamCells)
         /\ Guarded(ReadSample(buffer).buffer)
         /\ ReadSample(buffer).objects \in Seq(Things)
         /\ NoneInStep(ReadSample(buffer).objects)
<1> DEFINE rest == BehindLead(buffer)  size == Size["sample"]
<1>1. /\ rest \in Seq(StreamCells) /\ Guarded(rest) /\ (rest # <<>> => rest[1].place # 1)
      /\ size \in Nat /\ size >= 1 /\ Len(rest) \in Nat
  <2>1. "sample" \in Kind
    BY DEF Kind
  <2> QED
    BY <2>1, BehindLeadFacts, FormatAssumption
<1>2. NoneInStep(<<>>)
  BY DEF NoneInStep
<1>3. CASE Len(buffer) < size
  BY <1>2, <1>3 DEF ReadSample
<1>4. CASE ~(Len(buffer) < size) /\ Len(rest) < size
  <2>1. ReadSample(buffer) = [buffer |-> rest, objects |-> <<>>]
    BY <1>4 DEF ReadSample
  <2> HIDE DEF rest, size
  <2> QED
    BY <1>1, <1>2, <2>1
<1>5. CASE ~(Len(buffer) < size) /\ ~(Len(rest) < size)
  <2> DEFINE data == SubSeq(rest, 1, size)  over == SubSeq(rest, size + 1, Len(rest))
             object == [kind |-> "sample", data |-> data]
  <2>1. ReadSample(buffer) = [buffer |-> over, objects |-> <<object>>]
    BY <1>5 DEF ReadSample
  <2> HIDE DEF rest, size
  <2>2. size + 1 \in 1 .. Len(rest) + 1
    BY <1>1, <1>5
  <2>3. over \in Seq(StreamCells) /\ Guarded(over)
    BY <1>1, <2>2, GuardedRest
  <2>4. data \in Seq(StreamCells) /\ data[1] = rest[1]
    <3>1. \A i \in 1 .. size : rest[i] \in StreamCells
      BY <1>1, <1>5
    <3>2. data \in Seq(StreamCells) /\ \A i \in 1 .. size - 1 + 1 : data[i] = rest[1 + i - 1]
      BY <1>1, <3>1, SubSeqProperties
    <3>3. 1 \in 1 .. size - 1 + 1 /\ 1 + 1 - 1 = 1
      BY <1>1
    <3> QED
      BY <3>2, <3>3
  <2>5. rest[1].place # 1
    BY <1>1, <1>5
  <2> HIDE DEF data, over
  <2>6. object \in Things
    BY <2>4 DEF Things, Kind
  <2>7. NoneInStep(<<object>>)
    BY <2>4, <2>5 DEF NoneInStep
  <2> QED
    BY <2>1, <2>3, <2>6, <2>7
<1> QED
  BY <1>3, <1>4, <1>5

\* The inductive invariant.
ReaderInv ==
  /\ reader \in Seq(StreamCells) /\ Guarded(reader)
  /\ shown \in Seq(Things) /\ NoneInStep(shown)

LEMMA ReaderStep ==
  ASSUME PacketInv, ReaderInv, [PacketNext]_packetvars
  PROVE  ReaderInv'
<1>1. CASE UNCHANGED <<reader, shown>>
  BY <1>1 DEF ReaderInv
<1>2. CASE Notify
  <2>1. Past(sent) /\ Len(sent) <= MaxPackets /\ onAir \in Seq(Seq(StreamCells)) /\ onAir # <<>>
    BY <1>2 DEF PacketInv, StreamTypes, Notify
  <2>2. PICK s : Flows(sent, onAir, s)
    BY DEF PacketInv, Streams
  <2> DEFINE m == Head(onAir)  r == ReadSample(reader \o m)
  <2>3. m = onAir[1] /\ 1 \in 1 .. Len(onAir)
    BY <2>1
  <2>4. Carries(sent, m, onAir[1][1].packet, onAir[1][1].place)
    BY <2>2, <2>3 DEF Flows
  <2>5. reader' = r.buffer /\ shown' = shown \o r.objects
    BY <1>2 DEF Notify
  <2> HIDE DEF m
  <2>6. reader \o m \in Seq(StreamCells) /\ Guarded(reader \o m)
    BY <2>1, <2>4, GuardedMessage DEF ReaderInv
  <2>7. r.buffer \in Seq(StreamCells) /\ Guarded(r.buffer)
        /\ r.objects \in Seq(Things) /\ NoneInStep(r.objects)
    BY <2>6, ReadSampleFacts
  <2> DEFINE o == r.objects
  <2> HIDE DEF r, o
  <2>8. shown \o o \in Seq(Things) /\ NoneInStep(shown \o o)
    <3>1. shown \in Seq(Things) /\ NoneInStep(shown) /\ o \in Seq(Things) /\ NoneInStep(o)
      BY <2>7 DEF ReaderInv, o
    <3>2. /\ Len(shown \o o) = Len(shown) + Len(o) /\ Len(shown) \in Nat /\ Len(o) \in Nat
          /\ \A i \in 1 .. Len(shown) + Len(o) :
               (shown \o o)[i] = IF i <= Len(shown) THEN shown[i] ELSE o[i - Len(shown)]
      BY <3>1
    <3>3. \A i \in 1 .. Len(shown) + Len(o) :
            i \in 1 .. Len(shown) \/ (~(i <= Len(shown)) /\ i - Len(shown) \in 1 .. Len(o))
      BY <3>2
    <3> QED
      BY <3>1, <3>2, <3>3 DEF NoneInStep
  <2> QED
    BY <2>5, <2>7, <2>8 DEF ReaderInv, o
<1> QED
  BY <1>1, <1>2 DEF PacketNext, packetvars, Begin, ble_tx_helper, Refuse, Close, Open

\* Whatever is sent and whatever of it is lost, PacketReader never shows the bytes of one
\* sample: what it takes for one starts behind a LEAD_BYTE, which no body does
\* (ble_tx_head, PacketReader).
THEOREM StreamReaderOutOfStep == PacketSpec => []ReaderOutOfStep
<1>1. PacketInit => PacketInv /\ ReaderInv
  <2>1. PacketInit => ReaderInv
    BY DEF PacketInit, ReaderInv, Guarded, NoneInStep
  <2> QED
    BY <2>1, StreamBegins
<1>2. PacketInv /\ ReaderInv /\ [PacketNext]_packetvars => (PacketInv /\ ReaderInv)'
  BY PacketStep, ReaderStep
<1>3. ReaderInv => ReaderOutOfStep
  BY DEF ReaderInv, ReaderOutOfStep, NoneInStep
<1> QED
  BY <1>1, <1>2, <1>3, PTL DEF PacketSpec

-----------------------------------------------------------------------------
(* The types.                                                              *)

\* The part of the types that the other invariants do not need.
OtherTypes ==
  /\ pipe \in BOOLEAN /\ closings \in 0 .. MaxClosings /\ Len(onAir) <= Window
  /\ sent \in Seq([kind : Kind, body : UNION {Bodies[k] : k \in Kind},
                   arrived : BOOLEAN, lost : BOOLEAN])

LEMMA OtherTypesStep ==
  ASSUME PacketInv, OtherTypes, [PacketNext]_packetvars
  PROVE  OtherTypes'
<1> DEFINE Sent == [kind : Kind, body : UNION {Bodies[k] : k \in Kind},
                    arrived : BOOLEAN, lost : BOOLEAN]
<1>1. /\ sent \in Seq(Sent) /\ Window \in Nat /\ MaxClosings \in Nat
      /\ onAir \in Seq(Seq(StreamCells)) /\ Len(onAir) <= Window
      /\ pipe \in BOOLEAN /\ closings \in 0 .. MaxClosings
  BY StreamAssumption DEF OtherTypes, PacketInv, StreamTypes
<1>2. \A i : [sent EXCEPT ![i].lost = TRUE] \in Seq(Sent)
             /\ [sent EXCEPT ![i].arrived = TRUE] \in Seq(Sent)
  <2> SUFFICES ASSUME NEW i
               PROVE  [sent EXCEPT ![i].lost = TRUE] \in Seq(Sent)
                      /\ [sent EXCEPT ![i].arrived = TRUE] \in Seq(Sent)
    OBVIOUS
  <2>0. DOMAIN sent = 1 .. Len(sent) /\ sent \in [1 .. Len(sent) -> Sent]
    <3> HIDE DEF Sent
    <3> QED
      BY <1>1
  <2>1. CASE i \in DOMAIN sent
    <3>1. sent[i] \in Sent
      <4> HIDE DEF Sent
      <4> QED
        BY <2>0, <2>1
    <3>2. [sent[i] EXCEPT !.lost = TRUE] \in Sent /\ [sent[i] EXCEPT !.arrived = TRUE] \in Sent
      BY <3>1
    <3> HIDE DEF Sent
    <3> QED
      BY <1>1, <2>1, <3>2
  <2>2. CASE i \notin DOMAIN sent
    <3> HIDE DEF Sent
    <3>1. [sent EXCEPT ![i].lost = TRUE] = sent /\ [sent EXCEPT ![i].arrived = TRUE] = sent
      BY <2>0, <2>2
    <3> QED
      BY <1>1, <3>1
  <2> QED
    BY <2>1, <2>2
<1>3. CASE Begin
  <2>1. PICK k \in Kind : \E body \in Bodies[k] :
          sent' = Append(sent, [kind |-> k, body |-> body, arrived |-> FALSE, lost |-> FALSE])
    BY <1>3 DEF Begin
  <2>2. PICK body \in Bodies[k] :
          sent' = Append(sent, [kind |-> k, body |-> body, arrived |-> FALSE, lost |-> FALSE])
    BY <2>1
  <2> DEFINE e == [kind |-> k, body |-> body, arrived |-> FALSE, lost |-> FALSE]
  <2>3. e \in Sent /\ sent' = Append(sent, e)
    BY <2>2
  <2> HIDE DEF e, Sent
  <2>4. sent' \in Seq(Sent) /\ UNCHANGED <<pipe, closings, onAir>>
    BY <1>1, <1>3, <2>3 DEF Begin
  <2> QED
    BY <1>1, <2>4 DEF OtherTypes, Sent
<1>4. CASE ble_tx_helper
  <2>1. UNCHANGED <<pipe, closings>> /\ sent' \in Seq(Sent)
    <3> HIDE DEF Sent
    <3> QED
      BY <1>1, <1>2, <1>4 DEF ble_tx_helper, Lose
  <2>2. Len(onAir') <= Window
    <3>1. CASE pipe
      <4>1. onAir' = Append(onAir, Message(sending)) /\ Len(onAir) < Window
        BY <1>4, <3>1 DEF ble_tx_helper
      <4>2. Len(onAir') = Len(onAir) + 1 /\ Len(onAir) \in Nat
        BY <1>1, <4>1
      <4> QED
        BY <1>1, <4>1, <4>2
    <3>2. CASE ~pipe
      BY <1>1, <1>4, <3>2 DEF ble_tx_helper
    <3> QED
      BY <3>1, <3>2
  <2> QED
    BY <1>1, <2>1, <2>2 DEF OtherTypes
<1>5. CASE Notify \/ Refuse
  <2>1. UNCHANGED <<pipe, closings>> /\ onAir # <<>> /\ onAir' = Tail(onAir) /\ sent' \in Seq(Sent)
    <3> HIDE DEF Sent
    <3> QED
      BY <1>2, <1>5 DEF Notify, Refuse, Lose
  <2>2. Len(onAir') <= Window
    BY <1>1, <2>1
  <2> QED
    BY <1>1, <2>1, <2>2 DEF OtherTypes
<1>6. CASE Close \/ Open
  <2>1. pipe' \in BOOLEAN /\ UNCHANGED <<onAir, sent>>
    BY <1>6 DEF Close, Open
  <2>2. closings' \in 0 .. MaxClosings
    BY <1>1, <1>6 DEF Close, Open
  <2> QED
    BY <1>1, <2>1, <2>2 DEF OtherTypes
<1>7. CASE UNCHANGED packetvars
  BY <1>1, <1>7 DEF OtherTypes, packetvars
<1> QED
  BY <1>3, <1>4, <1>5, <1>6, <1>7 DEF PacketNext

\* What the sender has left is typed, and no longer than a body.
LEMMA SenderTyped ==
  ASSUME NEW h, Past(h), Len(h) <= MaxPackets, NEW remains, NEW s, SenderAt(h, remains, s)
  PROVE  /\ remains.prefix \in Seq(StreamCells) /\ remains.data \in Seq(StreamCells)
         /\ Len(remains.data) <= Longest /\ Len(remains.prefix) <= 1
<1> DEFINE n == Len(h)  T == Total(h, n)
<1>1. n \in Nat /\ n \in 0 .. Len(h) /\ T \in Nat /\ (n # 0 => T >= 2)
      /\ s \in 0 .. T /\ (n # 0 => s # 1) /\ Longest \in Nat
  BY TotalRange, LongestRange DEF Past, SenderAt
<1>2. CASE n = 0
  <2>1. T = 0 /\ s = 0
    BY <1>1, <1>2 DEF Total
  <2>2. remains.prefix = <<>> /\ remains.data = Stretch(h, n, 0, 0)
    BY <1>2, <2>1 DEF SenderAt
  <2>3. Measured(h, n, 0, 0)
    BY StretchLen
  <2>4. remains.data = <<>>
    BY <2>2, <2>3 DEF Measured
  <2>5. Len(<<>>) = 0 /\ <<>> \in Seq(StreamCells)
    OBVIOUS
  <2>6. Longest \in Nat
    BY LongestRange
  <2> HIDE DEF n, T
  <2>7. Len(remains.data) <= Longest /\ Len(remains.prefix) <= 1
    BY <2>2, <2>4, <2>5, <2>6
  <2> QED
    BY <2>2, <2>4, <2>5, <2>7
<1>3. CASE n # 0
  <2>1. n \in 1 .. Len(h) /\ T <= Longest + 1
    <3>1. n \in 1 .. Len(h)
      BY <1>1, <1>3
    <3>2. h[n].kind \in Kind
      <4>1. h \in Seq(Entry)
        BY DEF Past
      <4>2. h[n] \in Entry
        BY <3>1, <4>1
      <4> QED
        BY <4>2 DEF Entry
    <3> QED
      BY <1>3, <3>1, <3>2, LongestRange, FormatAssumption DEF Total
  <2> HIDE DEF n, T
  <2>2. CASE s = 0
    <3>1. remains.prefix = Stretch(h, n, 0, 1) /\ remains.data = Stretch(h, n, 1, T)
      BY <1>3, <2>2 DEF SenderAt, n, T
    <3>2. remains.prefix \in Seq(StreamCells) /\ remains.data \in Seq(StreamCells)
      <4>1. T \in 0 .. Total(h, n) /\ 1 \in 0 .. Total(h, n) /\ 1 <= T
        BY <1>1, <1>3 DEF T
      <4> QED
        BY <2>1, <3>1, <4>1, StretchTyped
    <3>3. Measured(h, n, 0, 1) /\ Measured(h, n, 1, T)
      BY <1>1, <1>3, StretchLen
    <3>4. Len(remains.prefix) = 1 - 0 /\ Len(remains.data) = T - 1
      BY <3>1, <3>3 DEF Measured
    <3> QED
      BY <1>1, <2>1, <3>2, <3>4
  <2>3. CASE s # 0
    <3>1. remains.prefix = <<>> /\ remains.data = Stretch(h, n, s, T)
      BY <2>3 DEF SenderAt, n, T
    <3>2. remains.data \in Seq(StreamCells)
      <4>1. T \in 0 .. Total(h, n) /\ s \in Nat /\ s <= T
        BY <1>1 DEF T
      <4> QED
        BY <2>1, <3>1, <4>1, StretchTyped
    <3>3. Measured(h, n, s, T)
      BY <1>1, StretchLen
    <3>4. Len(remains.data) = T - s
      BY <3>1, <3>3 DEF Measured
    <3> QED
      BY <1>1, <2>1, <2>3, <3>1, <3>2, <3>4
  <2> QED
    BY <2>2, <2>3
<1> QED
  BY <1>2, <1>3

LEMMA TypesImplied == PacketInv /\ ReaderInv /\ OtherTypes => PacketType
<1> SUFFICES ASSUME PacketInv, ReaderInv, OtherTypes PROVE PacketType
  OBVIOUS
<1>1. PICK s : SenderAt(sent, sending, s) /\ Flows(sent, onAir, s)
  BY DEF PacketInv, Streams
<1>2. /\ Past(sent) /\ Len(sent) <= MaxPackets /\ onAir \in Seq(Seq(StreamCells))
      /\ receiver \in Seq(StreamCells) /\ decoded \in Seq(Things)
  BY DEF PacketInv, StreamTypes
<1>3. /\ sending.prefix \in Seq(StreamCells) /\ sending.data \in Seq(StreamCells)
      /\ Len(sending.data) <= Longest /\ Len(sending.prefix) <= 1
  BY <1>1, <1>2, SenderTyped
<1>4. ASSUME NEW i \in DOMAIN onAir
      PROVE  Len(onAir[i]) \in 1 .. Fragment
  <2> DEFINE p == onAir[i][1].packet  a == onAir[i][1].place  e == End(sent, p, a)
  <2>1. i \in 1 .. Len(onAir)
    BY <1>2
  <2>2. Carries(sent, onAir[i], p, a)
    BY <1>1, <2>1 DEF Flows
  <2>3. p \in 1 .. Len(sent) /\ a \in 0 .. Total(sent, p) - 1
    BY <2>2 DEF Carries
  <2>4. Len(onAir[i]) = e - a
    BY <1>2, <2>2, MessageHead
  <2>5. e \in a + 1 .. Total(sent, p) /\ e <= a + Fragment
    BY <1>2, <2>3, EndRange
  <2>6. Total(sent, p) \in Nat /\ Fragment \in Nat
    <3>1. Len(sent) \in Nat
      BY <1>2 DEF Past
    <3>2. p \in 0 .. Len(sent)
      BY <2>3, <3>1
    <3> QED
      BY <1>2, <3>2, TotalRange, FormatAssumption
  <2> HIDE DEF p, a, e
  <2> QED
    BY <2>3, <2>4, <2>5, <2>6
<1> QED
  BY <1>2, <1>3, <1>4 DEF PacketType, ReaderInv, OtherTypes, Things

\* The types of the stream, from the sender's prefix to what both receivers were given
\* (ble_tx_head, Receiver, PacketReader).
THEOREM StreamTypeCorrect == PacketSpec => []PacketType
<1>1. PacketInit => PacketInv /\ ReaderInv /\ OtherTypes
  <2>1. PacketInit => ReaderInv
    BY DEF PacketInit, ReaderInv, Guarded, NoneInStep
  <2>2. PacketInit => OtherTypes
    BY StreamAssumption DEF PacketInit, OtherTypes
  <2> QED
    BY <2>1, <2>2, StreamBegins
<1>2. PacketInv /\ ReaderInv /\ OtherTypes /\ [PacketNext]_packetvars
      => (PacketInv /\ ReaderInv /\ OtherTypes)'
  BY PacketStep, ReaderStep, OtherTypesStep
<1>3. PacketInv /\ ReaderInv /\ OtherTypes => PacketType
  BY TypesImplied
<1> QED
  BY <1>1, <1>2, <1>3, PTL DEF PacketSpec
=============================================================================
