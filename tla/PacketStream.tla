---------------------------- MODULE PacketStream ----------------------------
(* The packets of the main task on their way to the client.  ble_tx_helper *)
(* looks at the pipe once for every message and drops the message when the *)
(* pipe is closed, so a packet may lose any of its messages; the receiving *)
(* side has no way to notice.  Both receivers of the Qt client are fed:    *)
(* Receiver, which reads the configuration pipe, and PacketReader, which   *)
(* reads the pipe of the sensors.                                          *)
(*                                                                         *)
(* Credits, which only delay a message, are the concern of BleLink; the    *)
(* content of a body is of no concern but for bytes that look like a       *)
(* header or like LEAD_BYTE.  onConfigPacket etc. are the histories of     *)
(* what they were given.  PacketReader::getObject falls through to the     *)
(* case of a config packet and emits a second signal, which nothing is     *)
(* connected to: left out.                                                 *)
(***************************************************************************)
EXTENDS PacketFormat

CONSTANTS Bodies,        \* the bodies of each kind of packet
          Window,        \* messages between ble_tx_helper and the client
          MaxPackets,    \* bound: packets sent
          MaxClosings    \* bound: times the pipe is closed

ASSUME StreamAssumption ==
  /\ \A k \in Kind : Bodies[k] \subseteq [1 .. Size[k] -> Look]
  /\ {Window, MaxPackets, MaxClosings} \subseteq Nat

VARIABLES
  pipe,      \* PIPE_OPEN
  sending,   \* ble_tx_head: what is left of the packet
  onAir,     \* messages that were handed over and have not arrived
  receiver,  \* Receiver._buffer
  reader,    \* PacketReader._buffer
  sent,      \* history: the packets sent, whether a message of it arrived
             \* and whether one was lost
  decoded,   \* history: what the callbacks of Receiver were given
  shown,     \* history: what gotSensorPacket was given
  closings   \* how much of the bound is used up

packetvars == <<pipe, sending, onAir, receiver, reader, sent, decoded, shown, closings>>

Longest == CHOOSE n \in {Size[k] : k \in Kind} : \A k \in Kind : Size[k] <= n
StreamCells == [packet : 1 .. MaxPackets, place : 0 .. Longest, look : Look]

PacketType ==
  /\ pipe \in BOOLEAN
  /\ sending.prefix \in Seq(StreamCells) /\ sending.data \in Seq(StreamCells)
  /\ Len(sending.data) <= Longest /\ Len(sending.prefix) <= 1
  /\ onAir \in Seq(Seq(StreamCells)) /\ Len(onAir) <= Window
  /\ \A i \in DOMAIN onAir : Len(onAir[i]) \in 1 .. Fragment
  /\ receiver \in Seq(StreamCells) /\ reader \in Seq(StreamCells)
  /\ sent \in Seq([kind : Kind, body : UNION {Bodies[k] : k \in Kind},
                   arrived : BOOLEAN, lost : BOOLEAN])
  /\ decoded \in Seq([kind : Kind, data : Seq(StreamCells)])
  /\ shown \in Seq([kind : Kind, data : Seq(StreamCells)])
  /\ closings \in 0 .. MaxClosings

PacketInit ==
  /\ pipe = TRUE
  /\ sending = [prefix |-> <<>>, data |-> <<>>]
  /\ onAir = <<>> /\ receiver = <<>> /\ reader = <<>>
  /\ sent = <<>> /\ decoded = <<>> /\ shown = <<>>
  /\ closings = 0

\* The main task has a packet for the client: it looks at the pipe before it
\* calls ble_tx_head, which it stays in until nothing is left.
Begin ==
  /\ sending.data = <<>> /\ pipe
  /\ Len(sent) < MaxPackets
  /\ \E k \in Kind : \E body \in Bodies[k] :
       LET p == Len(sent) + 1 IN
       /\ sending' = [prefix |-> <<Header(k, p)>>, data |-> Content(body, p)]
       /\ sent' = Append(sent, [kind |-> k, body |-> body,
                                arrived |-> FALSE, lost |-> FALSE])
  /\ UNCHANGED <<pipe, onAir, receiver, reader, decoded, shown, closings>>

Lose(message) == [sent EXCEPT ![Head(message).packet].lost = TRUE]

\* One turn of the loop: ble_tx_helper hands the message over, or returns
\* because the pipe is closed.
ble_tx_helper ==
  /\ sending.data # <<>>
  /\ sending' = Advance(sending)
  /\ IF pipe
     THEN /\ Len(onAir) < Window
          /\ onAir' = Append(onAir, Message(sending))
          /\ UNCHANGED sent
     ELSE /\ sent' = Lose(Message(sending))
          /\ UNCHANGED onAir
  /\ UNCHANGED <<pipe, receiver, reader, decoded, shown, closings>>

\* characteristicChanged: both receivers take the message.
Notify ==
  /\ onAir # <<>> /\ pipe
  /\ LET r == Attempt(receiver \o Head(onAir))
         s == ReadSample(reader \o Head(onAir)) IN
     /\ receiver' = r.buffer /\ decoded' = decoded \o r.objects
     /\ reader' = s.buffer /\ shown' = shown \o s.objects
  /\ onAir' = Tail(onAir)
  /\ sent' = [sent EXCEPT ![Head(Head(onAir)).packet].arrived = TRUE]
  /\ UNCHANGED <<pipe, sending, closings>>

\* The radio has no use for a message for a closed pipe.
Refuse ==
  /\ onAir # <<>> /\ ~pipe
  /\ onAir' = Tail(onAir)
  /\ sent' = Lose(Head(onAir))
  /\ UNCHANGED <<pipe, sending, receiver, reader, decoded, shown, closings>>

\* The client unsubscribes, or the link drops; nothing resets the buffers of
\* the client, nor does ble_tx_head learn of it.
Close ==
  /\ pipe /\ closings < MaxClosings
  /\ pipe' = FALSE /\ closings' = closings + 1
  /\ UNCHANGED <<sending, onAir, receiver, reader, sent, decoded, shown>>

Open ==
  /\ ~pipe /\ pipe' = TRUE
  /\ UNCHANGED <<sending, onAir, receiver, reader, sent, decoded, shown, closings>>

PacketNext == Begin \/ ble_tx_helper \/ Notify \/ Refuse \/ Close \/ Open

PacketSpec == PacketInit /\ [][PacketNext]_packetvars

(***************************************************************************)
(* Properties.                                                             *)
(***************************************************************************)
\* Some packet arrived in part.
Torn == \E p \in DOMAIN sent : sent[p].arrived /\ sent[p].lost

Intact(p) == [kind |-> sent[p].kind, data |-> Content(sent[p].body, p)]

\* The packet an object was made of.
PacketOf(object) == object.data[1].packet

Quiet == sending.data = <<>> /\ onAir = <<>>

\* datareader.h, Receiver: as long as no packet was torn, the callbacks get
\* exactly the packets that were sent, whole, in order and none twice, and
\* none waits in the buffer when everything has arrived, although only one
\* packet is decoded for every message and nothing marks where one begins.
DecodesWhatWasSent ==
  ~Torn =>
    /\ \A i \in DOMAIN decoded :
         LET p == PacketOf(decoded[i]) IN
         /\ p \in DOMAIN sent /\ ~sent[p].lost /\ decoded[i] = Intact(p)
         /\ \A q \in 1 .. p - 1 :
              ~sent[q].lost => \E j \in 1 .. i - 1 : PacketOf(decoded[j]) = q
         /\ \A j \in 1 .. i - 1 : PacketOf(decoded[j]) < p
    /\ Quiet => /\ receiver = <<>>
                /\ \A p \in DOMAIN sent :
                     ~sent[p].lost => \E i \in DOMAIN decoded : PacketOf(decoded[i]) = p

\* datareader.h, PacketReader: it waits for a LEAD_BYTE, which the firmware
\* does not send in front of a sample (ble_tx_head with
\* CONFIG_RESPONSE_SAMPLE), so whatever it shows is never the bytes of one
\* sample: it begins in the middle of some packet.
ReaderOutOfStep ==
  \A i \in DOMAIN shown : shown[i].data[1].place # 1

=============================================================================
