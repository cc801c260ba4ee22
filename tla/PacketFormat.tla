---------------------------- MODULE PacketFormat ----------------------------
(* How a packet is cut into radio messages (ble_tx_head, task_ble.c) and    *)
(* put together again by the Qt client (datareader.h).  Of a byte only what *)
(* the receiving side can tell is kept: what it looks like.  A packet is    *)
(* one header byte and Size[kind] more, and nothing else on the air says    *)
(* where it begins: only its first message starts with the header.          *)
(*                                                                          *)
(* A definition named Slip... is a plausible mistake in the one that        *)
(* follows it, which the properties must notice.                            *)
(****************************************************************************)
EXTENDS Integers, Sequences

CONSTANTS Fragment,    \* NRF8001_MAX_DATA_LENGTH, 20
          Size         \* sizeof of config_packet_s, event_header_s and
                       \* sensor_packet_s

Kind == {"config", "event", "sample"}
Look == Kind \cup {"lead", "other"}   \* a header, LEAD_BYTE or neither

ASSUME FormatAssumption ==
  /\ Fragment \in Nat /\ Fragment > 1
  /\ Size \in [Kind -> Nat \ {0}]

\* A byte, which remembers the packet it belongs to and its place in it.
Cell(p, i, look) == [packet |-> p, place |-> i, look |-> look]

Header(kind, p) == Cell(p, 0, kind)
Content(body, p) == [i \in DOMAIN body |-> Cell(p, i, body[i])]

Least(a, b) == IF a < b THEN a ELSE b

(***************************************************************************)
(* The loop of ble_tx_head: one turn with what is left to send.            *)
(***************************************************************************)
ToSend(left) == Least(Fragment, Len(left.data) + Len(left.prefix)) - Len(left.prefix)

Message(left) == left.prefix \o SubSeq(left.data, 1, ToSend(left))

\* Slip: the header goes in front of every message.
SlipAdvance(left) ==
  [left EXCEPT !.data = SubSeq(@, ToSend(left) + 1, Len(@))]

Advance(left) ==
  [prefix |-> <<>>, data |-> SubSeq(left.data, ToSend(left) + 1, Len(left.data))]

(***************************************************************************)
(* Receiver: receivedBytes appends a message and makes one attempt.        *)
(***************************************************************************)
Needed(kind) == Size[kind] + 1

\* peekHeader of a buffer names a kind, and read finds enough of it.
Readable(buffer) ==
  /\ buffer # <<>> /\ Head(buffer).look \in Kind
  /\ Len(buffer) >= Needed(Head(buffer).look)

LeftOver(buffer) == SubSeq(buffer, Needed(Head(buffer).look) + 1, Len(buffer))

Object(buffer) ==
  [kind |-> Head(buffer).look, data |-> SubSeq(buffer, 2, Needed(Head(buffer).look))]

\* attempt: what a callback gets, a sequence of at most one object.
Attempt(buffer) ==
  IF Readable(buffer)
  THEN [buffer |-> LeftOver(buffer), objects |-> <<Object(buffer)>>]
  ELSE [buffer |-> buffer, objects |-> <<>>]

(***************************************************************************)
(* ByteReceiver, of which PacketReader is the one that waits for samples:  *)
(* once there are enough bytes it drops those up to LEAD_BYTE and takes a  *)
(* sample if enough are left.                                              *)
(***************************************************************************)
\* Slip: the header of a sample is taken for the byte that leads it.
SlipBehindLead(buffer) ==
  LET led == {i \in DOMAIN buffer : buffer[i].look = "sample"}
      first == CHOOSE i \in led : \A j \in led : i <= j
  IN IF led = {} THEN <<>> ELSE SubSeq(buffer, first + 1, Len(buffer))

BehindLead(buffer) ==
  LET led == {i \in DOMAIN buffer : buffer[i].look = "lead"}
      first == CHOOSE i \in led : \A j \in led : i <= j
  IN IF led = {} THEN <<>> ELSE SubSeq(buffer, first + 1, Len(buffer))

ReadSample(buffer) ==
  LET rest == BehindLead(buffer)
      size == Size["sample"] IN
  IF Len(buffer) < size
  THEN [buffer |-> buffer, objects |-> <<>>]
  ELSE IF Len(rest) < size
  THEN [buffer |-> rest, objects |-> <<>>]
  ELSE [buffer |-> SubSeq(rest, size + 1, Len(rest)),
        objects |-> <<[kind |-> "sample", data |-> SubSeq(rest, 1, size)]>>]

=============================================================================
