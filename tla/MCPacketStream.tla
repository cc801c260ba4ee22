--------------------------- MODULE MCPacketStream ---------------------------
(* Packets of two and of three messages and one that fits in a message.     *)
(* Some bodies hold bytes that look like a header, or like LEAD_BYTE.       *)
EXTENDS PacketStream

MCSize == [config |-> 3, event |-> 2, sample |-> 6]
MCBodies == [config |-> {<<"other", "event", "sample">>, <<"event", "config", "config">>},
             event |-> {<<"other", "config">>, <<"lead", "sample">>},
             sample |-> {<<"other", "other", "config", "event", "other", "lead">>,
                         <<"lead", "other", "sample", "other", "other", "other">>}]
=============================================================================
