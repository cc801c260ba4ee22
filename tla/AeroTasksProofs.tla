---------------------------- MODULE AeroTasksProofs ----------------------------
(***************************************************************************)
(* What the tasks promise about a packet and about the receiver, for every *)
(* length of the queues, of the filter and of the run.                     *)
(*                                                                         *)
(* SamplesTogether is not inductive: it is about the moment the main task  *)
(* has taken a completion, and rests on the order in which the sensor task *)
(* fills the queue.  TrailInv says that of every place of the main queue:  *)
(* just behind it lies the sample the sensor task sent before, or that     *)
(* sample is in the packet already (Behind).                               *)
(*                                                                         *)
(* PacketSettles rests on the way of the last request (NewestAsked): it is *)
(* that of the position in the packet, whether it still waits for the      *)
(* sensor task, is being measured, or its completion is in the main queue. *)
(*                                                                         *)
(* ReceiverFollowsSession needs what the receiver will have been told when *)
(* the queue of the GPS task is empty (Told), and how far the main task is *)
(* with the pair of a command and its log entry (CommandInv).              *)
(*                                                                         *)
(* FilterIsRecentMean needs where each recent value stands in the ring     *)
(* (Holds) and that the sums agree (SameSum): the value that is replaced is*)
(* the oldest one, or a zero.                                              *)
(***************************************************************************)
EXTENDS AeroTasks, WellFoundedInduction, TLAPS

Answers == {"baro", "accel", "complete"}
Event == [kind : Sample, round : Nat] \cup [kind : {"data"}, command : AllCommands]
         \cup [kind : {"pipes"}]

\* The last sample in q before place j is of this kind and round, or there is
\* none and it is in the packet p.
Behind(q, p, j, kind, round) ==
  \/ \E i \in 1 .. j - 1 :
       /\ q[i].kind = kind /\ q[i].round = round
       /\ \A k \in i + 1 .. j - 1 : q[k].kind \notin Answers
  \/ /\ \A k \in 1 .. j - 1 : q[k].kind \notin Answers
     /\ p["baro"] = round
     /\ kind = "accel" => p["accel"] = round

\* Each sample lies behind the one sent before it.
InOrder(q, p) ==
  \A j \in 1 .. Len(q) :
    /\ q[j].kind = "accel" => Behind(q, p, j, "baro", q[j].round)
    /\ q[j].kind = "complete" => Behind(q, p, j, "accel", q[j].round)

\* And so will the one the sensor task sends next.
NextInOrder ==
  /\ sensor.at = "accel" => Behind(mainq, packet, Len(mainq) + 1, "baro", sensor.round)
  /\ sensor.at = "complete" => Behind(mainq, packet, Len(mainq) + 1, "accel", sensor.round)

\* No request, and no answer to one, is newer than the position in the packet;
\* no position in the queue is older.
NoneNewer ==
  /\ \A j \in 1 .. Len(mainq) : mainq[j].kind \in Answers => mainq[j].round <= packet["gps"]
  /\ sensor.at # "wait" => sensor.round <= packet["gps"]
  /\ \A j \in 1 .. Len(sensorq) : sensorq[j] <= packet["gps"]
  /\ packet["baro"] <= packet["gps"]

PositionsRise ==
  /\ packet["gps"] <= spent.fixes
  /\ \A j \in 1 .. Len(mainq) : mainq[j].kind = "gps" =>
       /\ packet["gps"] <= mainq[j].round /\ mainq[j].round <= spent.fixes
       /\ \A i \in 1 .. j - 1 : mainq[i].kind = "gps" => mainq[i].round <= mainq[j].round

\* While the main task works on a completed packet nothing is put into it.
PacketStands ==
  \A i \in 1 .. Len(todo) :
    todo[i] \in {"log", "filter_add"} => packet["baro"] = packet["accel"]

\* What is counted of the bounds, without the bounds.
Counts == [messages : Nat, fixes : Nat, requests : Nat, changes : Nat]

Shapes ==
  /\ mainq \in Seq(Event) /\ sensorq \in Seq(Nat) /\ todo \in Seq(Work)
  /\ packet \in [{"gps", "baro", "accel"} -> Nat]
  /\ sensor \in [at : {"wait", "baro", "accel", "complete"}, round : Nat]
  /\ spent \in Counts

\* The inductive invariant for SamplesTogether.
TrailInv ==
  /\ Shapes
  /\ InOrder(mainq, packet)
  /\ NextInOrder
  /\ NoneNewer
  /\ PositionsRise
  /\ PacketStands

\* What the receiver will have been told last, from the queue of the GPS task.
ToldBy(q, running, on) ==
  \/ \E i \in 1 .. Len(q) :
       /\ q[i] # "waiting" /\ (q[i] = "start" <=> on)
       /\ \A k \in i + 1 .. Len(q) : q[k] = "waiting"
  \/ /\ \A k \in 1 .. Len(q) : q[k] = "waiting"
     /\ running <=> on

Told(on) == ToldBy(gpsq, gps.running, on)

Commanding == {"gps_start", "gps_sleep", "log_start", "log_end"}

\* The work t begins with w, and nothing in the rest of it is about the
\* receiver or the event.
Begins(t, w) ==
  /\ Len(w) <= Len(t)
  /\ \A i \in 1 .. Len(w) : t[i] = w[i]
  /\ \A i \in Len(w) + 1 .. Len(t) : t[i] \notin Commanding

\* The inductive invariant for ReceiverFollowsSession.
CommandInv ==
  /\ todo \in Seq(Work) /\ gpsq \in Seq(GpsEvent)
  /\ gps \in [at : {"init", "wait", "send"}, running : BOOLEAN]
  /\ session \in BOOLEAN
  /\ \/ Begins(todo, <<>>) /\ Told(session)
     \/ Begins(todo, <<"filter_init", "gps_start", "log_start">>)
     \/ Begins(todo, <<"gps_start", "log_start">>)
     \/ Begins(todo, <<"log_start">>) /\ Told(TRUE)
     \/ Begins(todo, <<"gps_sleep", "log_end">>)
     \/ Begins(todo, <<"log_end">>) /\ Told(FALSE)

-----------------------------------------------------------------------------
(* Queues.                                                                 *)

\* A queue with one more event at its end.
LEMMA Appended ==
  ASSUME NEW S, NEW q \in Seq(S), NEW e \in S
  PROVE  /\ Append(q, e) \in Seq(S) /\ Len(Append(q, e)) = Len(q) + 1
         /\ \A i \in 1 .. Len(q) : Append(q, e)[i] = q[i]
         /\ Append(q, e)[Len(q) + 1] = e
OBVIOUS

\* A queue without its first event.
LEMMA Taken ==
  ASSUME NEW S, NEW q \in Seq(S), q # <<>>
  PROVE  /\ Tail(q) \in Seq(S) /\ Len(q) \in Nat \ {0} /\ Len(Tail(q)) = Len(q) - 1
         /\ \A i \in 1 .. Len(q) - 1 : Tail(q)[i] = q[i + 1]
         /\ Head(q) = q[1]
OBVIOUS

\* One sequence after another.
LEMMA Joined ==
  ASSUME NEW S, NEW u \in Seq(S), NEW t \in Seq(S)
  PROVE  /\ u \o t \in Seq(S) /\ Len(u \o t) = Len(u) + Len(t)
         /\ \A i \in 1 .. Len(u) : (u \o t)[i] = u[i]
         /\ \A i \in 1 .. Len(t) : (u \o t)[Len(u) + i] = t[i]
OBVIOUS

\* A new event at the end changes nothing for the places before it.
LEMMA BehindKept ==
  ASSUME NEW q \in Seq(Event), NEW e \in Event, NEW p, NEW j \in 1 .. Len(q) + 1,
         NEW kind, NEW round, Behind(q, p, j, kind, round)
  PROVE  Behind(Append(q, e), p, j, kind, round)
<1>1. Len(q) \in Nat /\ \A i \in 1 .. Len(q) : Append(q, e)[i] = q[i]
  BY Appended
<1>2. \A i \in 1 .. j - 1 : Append(q, e)[i] = q[i]
  BY <1>1
<1>3. QED
  BY <1>1, <1>2 DEF Behind

\* An event that is no sample hides none.
LEMMA BehindPast ==
  ASSUME NEW q \in Seq(Event), NEW e \in Event, NEW p, e.kind \notin Answers,
         NEW kind, NEW round, Behind(q, p, Len(q) + 1, kind, round)
  PROVE  Behind(Append(q, e), p, Len(Append(q, e)) + 1, kind, round)
<1>1. /\ Len(q) \in Nat /\ \A i \in 1 .. Len(q) : Append(q, e)[i] = q[i]
      /\ Len(Append(q, e)) = Len(q) + 1 /\ Append(q, e)[Len(q) + 1] = e
  BY Appended
<1>2. CASE \E i \in 1 .. Len(q) :
             /\ q[i].kind = kind /\ q[i].round = round
             /\ \A k \in i + 1 .. Len(q) : q[k].kind \notin Answers
  <2>1. PICK i \in 1 .. Len(q) :
             /\ q[i].kind = kind /\ q[i].round = round
             /\ \A k \in i + 1 .. Len(q) : q[k].kind \notin Answers
    BY <1>2
  <2>2. \A k \in i + 1 .. Len(q) + 1 : Append(q, e)[k].kind \notin Answers
    BY <1>1, <2>1
  <2>3. i \in 1 .. (Len(q) + 2) - 1 /\ Append(q, e)[i] = q[i]
    BY <1>1
  <2>4. QED
    BY <1>1, <2>1, <2>2, <2>3 DEF Behind
<1>3. CASE /\ \A k \in 1 .. Len(q) : q[k].kind \notin Answers
           /\ p["baro"] = round
           /\ kind = "accel" => p["accel"] = round
  <2>1. \A k \in 1 .. Len(q) + 1 : Append(q, e)[k].kind \notin Answers
    BY <1>1, <1>3
  <2>2. QED
    BY <1>1, <1>3, <2>1 DEF Behind
<1>4. QED
  BY <1>1, <1>2, <1>3 DEF Behind

\* A sample lies just behind the place after it.
LEMMA BehindNext ==
  ASSUME NEW q \in Seq(Event), NEW e \in Event, NEW p
  PROVE  Behind(Append(q, e), p, Len(Append(q, e)) + 1, e.kind, e.round)
<1>1. /\ Len(q) \in Nat
      /\ Len(Append(q, e)) = Len(q) + 1 /\ Append(q, e)[Len(q) + 1] = e
  BY Appended
<1>2. Len(q) + 1 \in 1 .. (Len(q) + 2) - 1
      /\ \A k \in (Len(q) + 1) + 1 .. (Len(q) + 2) - 1 : FALSE
  BY <1>1
<1>3. QED
  BY <1>1, <1>2 DEF Behind

\* What the main task does with the event it takes.
Received(e, p) ==
  IF e.kind \in {"gps", "baro", "accel"} THEN [p EXCEPT ![e.kind] = e.round] ELSE p

\* The sample taken from the head of the queue goes into the packet, which
\* then stands for it.
LEMMA BehindTaken ==
  ASSUME NEW q \in Seq(Event), q # <<>>, NEW p \in [{"gps", "baro", "accel"} -> Nat],
         InOrder(q, p), NEW j \in 2 .. Len(q) + 1, NEW kind \in {"baro", "accel"},
         NEW round, Behind(q, p, j, kind, round)
  PROVE  Behind(Tail(q), Received(q[1], p), j - 1, kind, round)
<1>1. /\ Len(q) \in Nat \ {0} /\ Len(Tail(q)) = Len(q) - 1
      /\ \A i \in 1 .. Len(q) - 1 : Tail(q)[i] = q[i + 1]
  BY Taken
<1>2. CASE \E i \in 2 .. j - 1 :
             /\ q[i].kind = kind /\ q[i].round = round
             /\ \A k \in i + 1 .. j - 1 : q[k].kind \notin Answers
  <2>1. PICK i \in 2 .. j - 1 :
             /\ q[i].kind = kind /\ q[i].round = round
             /\ \A k \in i + 1 .. j - 1 : q[k].kind \notin Answers
    BY <1>2
  <2>2. i - 1 \in 1 .. (j - 1) - 1 /\ Tail(q)[i - 1] = q[i]
    BY <1>1
  <2>3. \A k \in (i - 1) + 1 .. (j - 1) - 1 : Tail(q)[k] = q[k + 1] /\ k + 1 \in i + 1 .. j - 1
    BY <1>1
  <2>4. \A k \in (i - 1) + 1 .. (j - 1) - 1 : Tail(q)[k].kind \notin Answers
    BY <2>1, <2>3
  <2>5. QED
    BY <2>1, <2>2, <2>4 DEF Behind
<1>3. CASE \A k \in 2 .. j - 1 : q[k].kind \notin Answers
  <2>1. \A k \in 1 .. (j - 1) - 1 : Tail(q)[k] = q[k + 1] /\ k + 1 \in 2 .. j - 1
    BY <1>1
  <2>2. \A k \in 1 .. (j - 1) - 1 : Tail(q)[k].kind \notin Answers
    BY <1>3, <2>1
  <2>3. Received(q[1], p)["baro"] = round
        /\ (kind = "accel" => Received(q[1], p)["accel"] = round)
    <3>1. CASE q[1].kind = kind /\ q[1].round = round /\ kind = "baro"
      BY <3>1 DEF Received
    <3>2. CASE q[1].kind = kind /\ q[1].round = round /\ kind = "accel"
      <4>1. Behind(q, p, 1, "baro", q[1].round)
        BY <1>1, <3>2 DEF InOrder
      <4>2. p["baro"] = round
        BY <3>2, <4>1 DEF Behind
      <4>3. QED
        BY <3>2, <4>2 DEF Received
    <3>3. CASE /\ q[1].kind \notin Answers
               /\ p["baro"] = round
               /\ kind = "accel" => p["accel"] = round
      BY <3>3 DEF Received, Answers
    <3>4. QED
      <4>1. 1 \in 1 .. j - 1
        OBVIOUS
      <4>2. \/ q[1].kind = kind /\ q[1].round = round
            \/ /\ q[1].kind \notin Answers
               /\ p["baro"] = round
               /\ kind = "accel" => p["accel"] = round
        BY <1>3, <4>1 DEF Behind, Answers
      <4>3. QED
        BY <3>1, <3>2, <3>3, <4>2
  <2>4. QED
    BY <2>2, <2>3 DEF Behind
<1>4. QED
  BY <1>2, <1>3, SMTT(30) DEF Behind

\* The order of the queue when its head is taken.
LEMMA OrderTaken ==
  ASSUME NEW q \in Seq(Event), q # <<>>, NEW p \in [{"gps", "baro", "accel"} -> Nat],
         InOrder(q, p)
  PROVE  InOrder(Tail(q), Received(q[1], p))
<1>1. /\ Len(q) \in Nat \ {0} /\ Len(Tail(q)) = Len(q) - 1
      /\ \A i \in 1 .. Len(q) - 1 : Tail(q)[i] = q[i + 1]
  BY Taken
<1>2. ASSUME NEW j \in 1 .. Len(Tail(q)), NEW kind \in {"baro", "accel"},
             Behind(q, p, j + 1, kind, q[j + 1].round)
      PROVE  Behind(Tail(q), Received(q[1], p), j, kind, Tail(q)[j].round)
  <2>1. PICK n \in 2 .. Len(q) + 1 : n = j + 1
    BY <1>1
  <2>2. Behind(Tail(q), Received(q[1], p), n - 1, kind, q[n].round)
    BY <1>2, <2>1, BehindTaken
  <2>3. n - 1 = j /\ q[n] = Tail(q)[j]
    BY <1>1, <2>1
  <2>4. QED
    BY <2>2, <2>3
<1>3. ASSUME NEW j \in 1 .. Len(Tail(q))
      PROVE  /\ Tail(q)[j].kind = "accel" =>
                  Behind(Tail(q), Received(q[1], p), j, "baro", Tail(q)[j].round)
             /\ Tail(q)[j].kind = "complete" =>
                  Behind(Tail(q), Received(q[1], p), j, "accel", Tail(q)[j].round)
  <2>1. j + 1 \in 1 .. Len(q) /\ Tail(q)[j] = q[j + 1]
    BY <1>1
  <2>2. /\ q[j + 1].kind = "accel" => Behind(q, p, j + 1, "baro", q[j + 1].round)
        /\ q[j + 1].kind = "complete" => Behind(q, p, j + 1, "accel", q[j + 1].round)
    BY <2>1 DEF InOrder
  <2>3. QED
    BY <1>2, <2>1, <2>2
<1>4. QED
  BY <1>3 DEF InOrder

\* The order of the queue when an event joins it that is no sample, or the
\* sample that follows.
LEMMA OrderAppended ==
  ASSUME NEW q \in Seq(Event), NEW e \in Event, NEW p, InOrder(q, p),
         e.kind = "accel" => Behind(q, p, Len(q) + 1, "baro", e.round),
         e.kind = "complete" => Behind(q, p, Len(q) + 1, "accel", e.round)
  PROVE  InOrder(Append(q, e), p)
<1>1. /\ Len(q) \in Nat /\ \A i \in 1 .. Len(q) : Append(q, e)[i] = q[i]
      /\ Len(Append(q, e)) = Len(q) + 1 /\ Append(q, e)[Len(q) + 1] = e
  BY Appended
<1>2. ASSUME NEW j \in 1 .. Len(q)
      PROVE  /\ q[j].kind = "accel" => Behind(Append(q, e), p, j, "baro", q[j].round)
             /\ q[j].kind = "complete" => Behind(Append(q, e), p, j, "accel", q[j].round)
  <2>1. j \in 1 .. Len(q) + 1
    BY <1>1
  <2>2. /\ q[j].kind = "accel" => Behind(q, p, j, "baro", q[j].round)
        /\ q[j].kind = "complete" => Behind(q, p, j, "accel", q[j].round)
    BY DEF InOrder
  <2>3. QED
    BY <2>1, <2>2, BehindKept
<1>3. /\ e.kind = "accel" => Behind(Append(q, e), p, Len(q) + 1, "baro", e.round)
      /\ e.kind = "complete" => Behind(Append(q, e), p, Len(q) + 1, "accel", e.round)
  <2>1. Len(q) + 1 \in 1 .. Len(q) + 1
    BY <1>1
  <2>2. QED
    BY <2>1, BehindKept
<1>4. QED
  BY <1>1, <1>2, <1>3 DEF InOrder

-----------------------------------------------------------------------------
(* SamplesTogether, step by step.                                          *)

\* A round of the packet after an event is received.
LEMMA ReceivedType ==
  ASSUME NEW e \in Event, NEW p \in [{"gps", "baro", "accel"} -> Nat]
  PROVE  /\ Received(e, p) \in [{"gps", "baro", "accel"} -> Nat]
         /\ Received(e, p)["gps"] = IF e.kind = "gps" THEN e.round ELSE p["gps"]
         /\ Received(e, p)["baro"] = IF e.kind = "baro" THEN e.round ELSE p["baro"]
         /\ e.kind \in Sample => e.round \in Nat
<1>1. e.kind \in Sample => e.round \in Nat
  BY DEF Event, Sample
<1>2. QED
  BY <1>1 DEF Received, Sample

\* Taking the head of the queue, whatever it is.
LEMMA TakeKeeps ==
  ASSUME TrailInv, mainq # <<>>, mainq' = Tail(mainq),
         packet' = Received(mainq[1], packet), UNCHANGED <<sensor, spent>>
  PROVE  /\ mainq' \in Seq(Event) /\ packet' \in [{"gps", "baro", "accel"} -> Nat]
         /\ InOrder(mainq, packet)' /\ NextInOrder' /\ PositionsRise'
         /\ packet["gps"] <= packet'["gps"]
         /\ \A j \in 1 .. Len(mainq') :
              mainq'[j].kind \in Answers => mainq'[j].round <= packet'["gps"]
         /\ sensor.at # "wait" => sensor.round <= packet'["gps"]
         /\ packet'["baro"] <= packet'["gps"]
<1>1. /\ mainq' \in Seq(Event) /\ Len(mainq) \in Nat \ {0} /\ Len(mainq') = Len(mainq) - 1
      /\ \A i \in 1 .. Len(mainq) - 1 : mainq'[i] = mainq[i + 1]
      /\ mainq \in Seq(Event) /\ packet \in [{"gps", "baro", "accel"} -> Nat]
  BY Taken DEF TrailInv, Shapes
<1>2. mainq[1] \in Event /\ 1 \in 1 .. Len(mainq)
  BY <1>1
<1>3. /\ packet' \in [{"gps", "baro", "accel"} -> Nat]
      /\ packet'["gps"] = IF mainq[1].kind = "gps" THEN mainq[1].round ELSE packet["gps"]
      /\ packet'["baro"] = IF mainq[1].kind = "baro" THEN mainq[1].round ELSE packet["baro"]
      /\ mainq[1].kind \in Sample => mainq[1].round \in Nat
  BY <1>1, <1>2, ReceivedType
<1>4. InOrder(mainq, packet)'
  BY <1>1, OrderTaken DEF TrailInv
<1>5. NextInOrder'
  <2>1. PICK n \in 2 .. Len(mainq) + 1 : n = Len(mainq) + 1 /\ n - 1 = Len(mainq') + 1
    BY <1>1
  <2>2. ASSUME NEW kind \in {"baro", "accel"}, Behind(mainq, packet, n, kind, sensor.round)
        PROVE  Behind(mainq', packet', n - 1, kind, sensor.round)
    BY <1>1, <2>2, BehindTaken DEF TrailInv
  <2>3. QED
    BY <2>1, <2>2 DEF TrailInv, NextInOrder
<1>6. packet["gps"] <= packet'["gps"] /\ packet'["gps"] <= spent.fixes
  BY <1>1, <1>2, <1>3 DEF TrailInv, PositionsRise, Sample
<1>7. ASSUME NEW j \in 1 .. Len(mainq')
      PROVE  /\ mainq'[j] = mainq[j + 1] /\ j + 1 \in 1 .. Len(mainq)
             /\ mainq[j + 1] \in Event
             /\ mainq[j + 1].kind \in Sample => mainq[j + 1].round \in Nat
  <2>1. mainq'[j] = mainq[j + 1] /\ j + 1 \in 1 .. Len(mainq)
    BY <1>1
  <2>2. mainq[j + 1] \in Event
    BY <1>1, <2>1
  <2>3. QED
    BY <1>1, <2>1, <2>2, ReceivedType
<1>8. spent.fixes \in Nat /\ sensor.round \in Nat /\ spent' = spent
  BY DEF TrailInv, Shapes, Counts
<1>9. PositionsRise'
  <2>1. ASSUME NEW j \in 1 .. Len(mainq'), mainq'[j].kind = "gps"
        PROVE  /\ packet'["gps"] <= mainq'[j].round /\ mainq'[j].round <= spent.fixes
               /\ \A i \in 1 .. j - 1 :
                    mainq'[i].kind = "gps" => mainq'[i].round <= mainq'[j].round
    <3>1. mainq[j + 1].kind = "gps" /\ mainq'[j] = mainq[j + 1] /\ j + 1 \in 1 .. Len(mainq)
      BY <1>7, <2>1
    <3>2. /\ packet["gps"] <= mainq[j + 1].round /\ mainq[j + 1].round <= spent.fixes
          /\ \A i \in 1 .. j : mainq[i].kind = "gps" => mainq[i].round <= mainq[j + 1].round
      BY <3>1 DEF TrailInv, PositionsRise
    <3>3. packet'["gps"] <= mainq[j + 1].round
      BY <1>1, <1>3, <3>2
    <3>4. ASSUME NEW i \in 1 .. j - 1, mainq'[i].kind = "gps"
          PROVE  mainq'[i].round <= mainq'[j].round
      <4>1. mainq'[i] = mainq[i + 1] /\ i + 1 \in 1 .. j
        BY <1>1
      <4>2. QED
        BY <3>1, <3>2, <3>4, <4>1
    <3>5. QED
      BY <3>1, <3>2, <3>3, <3>4
  <2>2. QED
    BY <1>6, <1>8, <2>1 DEF PositionsRise
<1>10. ASSUME NEW j \in 1 .. Len(mainq'), mainq'[j].kind \in Answers
       PROVE  mainq'[j].round <= packet'["gps"]
  <2>1. mainq[j + 1].round <= packet["gps"]
    BY <1>7, <1>10 DEF TrailInv, NoneNewer
  <2>2. mainq[j + 1].round \in Nat
    BY <1>7, <1>10 DEF Answers, Sample
  <2>3. QED
    BY <1>1, <1>3, <1>6, <1>7, <2>1, <2>2
<1>11. sensor.at # "wait" => sensor.round <= packet'["gps"]
  BY <1>1, <1>3, <1>6, <1>8 DEF TrailInv, NoneNewer
<1>12. packet'["baro"] <= packet'["gps"]
  BY <1>1, <1>2, <1>3, <1>6 DEF TrailInv, NoneNewer, Answers, Sample
<1>13. QED
  BY <1>1, <1>3, <1>4, <1>5, <1>6, <1>9, <1>10, <1>11, <1>12

\* An event that joins the queue: no sample, a position of the latest round, or
\* the sample that follows.
LEMMA AppendKeeps ==
  ASSUME TrailInv, NEW e \in Event, mainq' = Append(mainq, e), packet' = packet,
         spent'.fixes = spent.fixes,
         e.kind = "accel" => Behind(mainq, packet, Len(mainq) + 1, "baro", e.round),
         e.kind = "complete" => Behind(mainq, packet, Len(mainq) + 1, "accel", e.round),
         e.kind \in Answers => e.round <= packet["gps"],
         e.kind = "gps" => e.round = spent.fixes
  PROVE  /\ mainq' \in Seq(Event) /\ InOrder(mainq, packet)' /\ PositionsRise'
         /\ \A j \in 1 .. Len(mainq') :
              mainq'[j].kind \in Answers => mainq'[j].round <= packet'["gps"]
<1>1. /\ mainq \in Seq(Event) /\ Len(mainq) \in Nat
      /\ packet \in [{"gps", "baro", "accel"} -> Nat] /\ spent.fixes \in Nat
  BY DEF TrailInv, Shapes, Counts
<1>2. /\ mainq' \in Seq(Event) /\ Len(mainq') = Len(mainq) + 1
      /\ \A i \in 1 .. Len(mainq) : mainq'[i] = mainq[i]
      /\ mainq'[Len(mainq) + 1] = e
  BY <1>1, Appended
<1>3. InOrder(mainq, packet)'
  BY <1>1, OrderAppended DEF TrailInv
<1>4. PositionsRise'
  <2>1. packet["gps"] <= spent.fixes
    BY DEF TrailInv, PositionsRise
  <2>2. ASSUME NEW j \in 1 .. Len(mainq), mainq[j].kind = "gps"
        PROVE  /\ packet["gps"] <= mainq[j].round /\ mainq[j].round <= spent.fixes
               /\ \A i \in 1 .. j - 1 : mainq[i].kind = "gps" => mainq[i].round <= mainq[j].round
    BY <2>2 DEF TrailInv, PositionsRise
  <2>3. ASSUME NEW j \in 1 .. Len(mainq'), mainq'[j].kind = "gps"
        PROVE  /\ packet["gps"] <= mainq'[j].round /\ mainq'[j].round <= spent.fixes
               /\ \A i \in 1 .. j - 1 :
                    mainq'[i].kind = "gps" => mainq'[i].round <= mainq'[j].round
    <3>1. CASE j \in 1 .. Len(mainq)
      <4>1. mainq'[j] = mainq[j] /\ \A i \in 1 .. j - 1 : mainq'[i] = mainq[i]
        BY <1>1, <1>2, <3>1
      <4>2. QED
        BY <2>2, <2>3, <3>1, <4>1
    <3>2. CASE j = Len(mainq) + 1
      <4>1. mainq'[j] = e /\ e.round = spent.fixes
        BY <1>2, <2>3, <3>2
      <4>2. \A i \in 1 .. j - 1 : i \in 1 .. Len(mainq) /\ mainq'[i] = mainq[i]
        BY <1>1, <1>2, <3>2
      <4>3. \A i \in 1 .. j - 1 : mainq'[i].kind = "gps" => mainq'[i].round <= spent.fixes
        BY <2>2, <4>2
      <4>4. QED
        BY <1>1, <2>1, <4>1, <4>3
    <3>3. QED
      BY <1>1, <1>2, <3>1, <3>2
  <2>4. QED
    BY <2>1, <2>3 DEF PositionsRise
<1>5. ASSUME NEW j \in 1 .. Len(mainq'), mainq'[j].kind \in Answers
      PROVE  mainq'[j].round <= packet'["gps"]
  <2>1. CASE j \in 1 .. Len(mainq)
    BY <1>2, <1>5, <2>1 DEF TrailInv, NoneNewer
  <2>2. CASE j = Len(mainq) + 1
    BY <1>2, <1>5, <2>2
  <2>3. QED
    BY <1>1, <1>2, <2>1, <2>2
<1>6. QED
  BY <1>2, <1>3, <1>4, <1>5

\* An event that is no sample joins the queue, or finds it full.
LEMMA ReportKeeps ==
  ASSUME TrailInv, NEW e \in Event, e.kind \notin Answers,
         e.kind = "gps" => e.round = spent.fixes,
         mainq' = Append(mainq, e) \/ mainq' = mainq,
         UNCHANGED <<sensorq, todo, packet, sensor>>,
         spent' \in Counts, spent'.fixes = spent.fixes
  PROVE  TrailInv'
<1>1. CASE mainq' = mainq
  BY <1>1 DEF TrailInv, Shapes, InOrder, NextInOrder, NoneNewer, PositionsRise,
              PacketStands, Behind
<1>2. CASE mainq' = Append(mainq, e)
  <2>1. /\ mainq' \in Seq(Event) /\ InOrder(mainq, packet)' /\ PositionsRise'
        /\ \A j \in 1 .. Len(mainq') :
             mainq'[j].kind \in Answers => mainq'[j].round <= packet'["gps"]
    BY <1>2, AppendKeeps DEF Answers
  <2>2. NextInOrder'
    <3>1. mainq \in Seq(Event)
      BY DEF TrailInv, Shapes
    <3>2. ASSUME NEW kind, Behind(mainq, packet, Len(mainq) + 1, kind, sensor.round)
          PROVE  Behind(mainq', packet, Len(mainq') + 1, kind, sensor.round)
      BY <1>2, <3>1, <3>2, BehindPast
    <3>3. QED
      BY <3>2 DEF TrailInv, NextInOrder
  <2>3. NoneNewer'
    BY <2>1 DEF TrailInv, NoneNewer
  <2>4. Shapes'
    BY <2>1 DEF TrailInv, Shapes
  <2>5. PacketStands'
    BY DEF TrailInv, PacketStands
  <2>6. QED
    BY <2>1, <2>2, <2>3, <2>4, <2>5 DEF TrailInv
<1>3. QED
  BY <1>1, <1>2

\* The main task works on without looking at the queue.
LEMMA WorkKeeps ==
  ASSUME TrailInv, todo' \in Seq(Work), UNCHANGED <<mainq, sensorq, packet, sensor, spent>>,
         \A i \in 1 .. Len(todo') : todo'[i] \in {"log", "filter_add"} =>
           \E j \in 1 .. Len(todo) : todo[j] \in {"log", "filter_add"}
  PROVE  TrailInv'
<1>1. PacketStands'
  BY DEF TrailInv, PacketStands
<1>2. Shapes' /\ InOrder(mainq, packet)' /\ NextInOrder' /\ NoneNewer' /\ PositionsRise'
  BY DEF TrailInv, Shapes, InOrder, NextInOrder, NoneNewer, PositionsRise, Behind
<1>3. QED
  BY <1>1, <1>2 DEF TrailInv

\* What is left to do after a piece of work, and after a piece that brings more.
LEMMA WorkLeft ==
  ASSUME todo \in Seq(Work), todo # <<>>, NEW more \in Seq(Work),
         \A i \in 1 .. Len(more) : more[i] \notin {"log", "filter_add"},
         todo' = Tail(todo) \/ todo' = more \o Tail(todo)
  PROVE  /\ todo' \in Seq(Work)
         /\ \A i \in 1 .. Len(todo') : todo'[i] \in {"log", "filter_add"} =>
              \E j \in 1 .. Len(todo) : todo[j] \in {"log", "filter_add"}
<1>1. /\ Tail(todo) \in Seq(Work) /\ Len(todo) \in Nat \ {0}
      /\ Len(Tail(todo)) = Len(todo) - 1
      /\ \A i \in 1 .. Len(todo) - 1 : Tail(todo)[i] = todo[i + 1]
  BY Taken
<1>2. \A i \in 1 .. Len(Tail(todo)) : Tail(todo)[i] = todo[i + 1] /\ i + 1 \in 1 .. Len(todo)
  BY <1>1
<1>3. CASE todo' = Tail(todo)
  BY <1>1, <1>2, <1>3
<1>4. CASE todo' = more \o Tail(todo)
  <2>1. /\ todo' \in Seq(Work) /\ Len(todo') = Len(more) + Len(Tail(todo))
        /\ \A i \in 1 .. Len(more) : todo'[i] = more[i]
        /\ \A i \in 1 .. Len(Tail(todo)) : todo'[Len(more) + i] = Tail(todo)[i]
    BY <1>1, <1>4, Joined
  <2>2. ASSUME NEW i \in 1 .. Len(todo'), todo'[i] \in {"log", "filter_add"}
        PROVE  \E j \in 1 .. Len(todo) : todo[j] \in {"log", "filter_add"}
    <3>1. Len(more) \in Nat
      OBVIOUS
    <3>2. i \notin 1 .. Len(more)
      BY <2>1, <2>2
    <3>3. PICK n \in 1 .. Len(Tail(todo)) : i = Len(more) + n
      <4>1. i - Len(more) \in 1 .. Len(Tail(todo)) /\ i = Len(more) + (i - Len(more))
        BY <1>1, <2>1, <3>1, <3>2
      <4>2. QED
        BY <4>1
    <3>4. todo'[i] = todo[n + 1] /\ n + 1 \in 1 .. Len(todo)
      BY <1>2, <2>1, <3>3
    <3>5. QED
      BY <2>2, <3>4
  <2>3. QED
    BY <2>1, <2>2
<1>5. QED
  BY <1>3, <1>4

\* What the handler of a command does is work, and none of it about a sample.
LEMMA HandlerType ==
  ASSUME NEW command
  PROVE  /\ Handler(command) \o <<"reply">> \in Seq(Work)
         /\ \A i \in 1 .. Len(Handler(command) \o <<"reply">>) :
              (Handler(command) \o <<"reply">>)[i] \notin {"log", "filter_add"}
<1>1. \/ Handler(command) = <<"filter_init", "gps_start", "log_start">>
      \/ Handler(command) = <<"gps_sleep", "log_end">>
      \/ Handler(command) = <<"list">>
      \/ Handler(command) = <<"store">>
      \/ Handler(command) = <<>>
  BY DEF Handler
<1>2. PICK h \in Seq(Work) :
        h = Handler(command) /\ \A i \in 1 .. Len(h) : h[i] \notin {"log", "filter_add"}
  <2>1. CASE Handler(command) = <<"filter_init", "gps_start", "log_start">>
    <3>1. <<"filter_init", "gps_start", "log_start">> \in Seq(Work)
          /\ \A i \in 1 .. Len(<<"filter_init", "gps_start", "log_start">>) :
               <<"filter_init", "gps_start", "log_start">>[i] \notin {"log", "filter_add"}
      BY DEF Work, Storage, Send, GpsSend
    <3>2. QED
      BY <2>1, <3>1
  <2>2. CASE Handler(command) = <<"gps_sleep", "log_end">>
    <3>1. <<"gps_sleep", "log_end">> \in Seq(Work)
          /\ \A i \in 1 .. Len(<<"gps_sleep", "log_end">>) :
               <<"gps_sleep", "log_end">>[i] \notin {"log", "filter_add"}
      BY DEF Work, Storage, Send, GpsSend
    <3>2. QED
      BY <2>2, <3>1
  <2>3. CASE Handler(command) = <<"list">>
    <3>1. <<"list">> \in Seq(Work)
          /\ \A i \in 1 .. Len(<<"list">>) :
               <<"list">>[i] \notin {"log", "filter_add"}
      BY DEF Work, Storage, Send, GpsSend
    <3>2. QED
      BY <2>3, <3>1
  <2>4. CASE Handler(command) = <<>>
    <3>1. <<>> \in Seq(Work)
          /\ \A i \in 1 .. Len(<<>>) :
               <<>>[i] \notin {"log", "filter_add"}
      BY DEF Work, Storage, Send, GpsSend
    <3>2. QED
      BY <2>4, <3>1
  <2>6. CASE Handler(command) = <<"store">>
    <3>1. <<"store">> \in Seq(Work)
          /\ \A i \in 1 .. Len(<<"store">>) :
               <<"store">>[i] \notin {"log", "filter_add"}
      BY DEF Work, Storage, Send, GpsSend
    <3>2. QED
      BY <2>6, <3>1
  <2>5. QED
    BY <1>1, <2>1, <2>2, <2>3, <2>4, <2>6
<1>3. PICK t \in Seq(Work) : t = <<"reply">> /\ Len(t) = 1 /\ t[1] = "reply"
  <2>1. <<"reply">> \in Seq(Work) /\ Len(<<"reply">>) = 1 /\ <<"reply">>[1] = "reply"
    BY DEF Work, Storage, Send
  <2>2. QED
    BY <2>1
<1>4. /\ h \o t \in Seq(Work) /\ Len(h \o t) = Len(h) + 1 /\ Len(h) \in Nat
      /\ \A i \in 1 .. Len(h) : (h \o t)[i] = h[i]
      /\ (h \o t)[Len(h) + 1] = "reply"
  BY <1>3, Joined
<1>5. \A i \in 1 .. Len(h \o t) : i \in 1 .. Len(h) \/ i = Len(h) + 1
  BY <1>4
<1>6. \A i \in 1 .. Len(h \o t) : (h \o t)[i] \notin {"log", "filter_add"}
  BY <1>2, <1>4, <1>5
<1>7. QED
  BY <1>2, <1>3, <1>4, <1>6

\* What a complete packet leads to is work.
LEMMA CompletedType == Completed \in Seq(Work)
<1>1. PICK a \in Seq(Work) : a = IF session THEN <<"log">> ELSE <<>>
  <2>1. <<"log">> \in Seq(Work) /\ <<>> \in Seq(Work)
    BY DEF Work, Storage
  <2>2. QED
    BY <2>1
<1>2. PICK b \in Seq(Work) : b = <<"filter_add", "stream">>
  <2>1. <<"filter_add", "stream">> \in Seq(Work)
    BY DEF Work, Storage, Send
  <2>2. QED
    BY <2>1
<1>3. a \o b \in Seq(Work)
  BY Joined
<1>4. QED
  BY <1>1, <1>2, <1>3 DEF Completed

\* The main task takes an event.
LEMMA TakingKeeps ==
  ASSUME TrailInv,
         TakePosition \/ TakeSample \/ TakeComplete \/ TakeCommand \/ TakePipes
  PROVE  TrailInv'
<1>1. mainq \in Seq(Event) /\ mainq # <<>> /\ Head(mainq) = mainq[1] /\ todo = <<>>
      /\ mainq[1] \in Event /\ Len(mainq) \in Nat \ {0} /\ mainq' = Tail(mainq)
      /\ UNCHANGED <<sensor, spent>>
  <2>1. mainq \in Seq(Event) /\ mainq # <<>> /\ todo = <<>> /\ mainq' = Tail(mainq)
        /\ UNCHANGED <<sensor, spent>>
    BY DEF TrailInv, Shapes, TakePosition, TakeSample, TakeComplete, TakeCommand,
           TakePipes, Took, mainvars, world
  <2>2. QED
    BY <2>1
<1>2. packet' = Received(mainq[1], packet)
  <2>1. CASE TakePosition
    BY <1>1, <2>1 DEF TakePosition, Took, Received
  <2>2. CASE TakeSample
    BY <1>1, <2>2 DEF TakeSample, Took, Received
  <2>3. CASE TakeComplete
    BY <1>1, <2>3 DEF TakeComplete, Took, Received
  <2>4. CASE TakeCommand
    BY <1>1, <2>4 DEF TakeCommand, Took, Received
  <2>5. CASE TakePipes
    BY <1>1, <2>5 DEF TakePipes, Took, Received, mainvars
  <2>6. QED
    BY <2>1, <2>2, <2>3, <2>4, <2>5
<1>3. /\ mainq' \in Seq(Event) /\ packet' \in [{"gps", "baro", "accel"} -> Nat]
      /\ InOrder(mainq, packet)' /\ NextInOrder' /\ PositionsRise'
      /\ packet["gps"] <= packet'["gps"]
      /\ \A j \in 1 .. Len(mainq') :
           mainq'[j].kind \in Answers => mainq'[j].round <= packet'["gps"]
      /\ sensor.at # "wait" => sensor.round <= packet'["gps"]
      /\ packet'["baro"] <= packet'["gps"]
  BY <1>1, <1>2, TakeKeeps
<1>4. sensorq \in Seq(Nat) /\ packet["gps"] \in Nat /\ packet'["gps"] \in Nat
  BY <1>3 DEF TrailInv, Shapes
<1>5. sensorq' \in Seq(Nat) /\ \A j \in 1 .. Len(sensorq') : sensorq'[j] <= packet'["gps"]
  <2>1. \A j \in 1 .. Len(sensorq) : sensorq[j] \in Nat /\ sensorq[j] <= packet'["gps"]
    BY <1>3, <1>4 DEF TrailInv, NoneNewer
  <2>2. CASE TakePosition
    <3>1. mainq[1].kind = "gps"
      BY <1>1, <2>2 DEF TakePosition, Took
    <3>2. mainq[1].round \in Nat
      BY <1>1, <3>1, ReceivedType DEF TrailInv, Shapes, Sample
    <3>3. packet'["gps"] = mainq[1].round
      BY <1>1, <1>2, <3>1, ReceivedType DEF TrailInv, Shapes
    <3>4. sensorq' = Append(sensorq, mainq[1].round) \/ sensorq' = sensorq
      BY <1>1, <2>2 DEF TakePosition, Request
    <3>5. /\ Append(sensorq, mainq[1].round) \in Seq(Nat)
          /\ Len(Append(sensorq, mainq[1].round)) = Len(sensorq) + 1
          /\ \A i \in 1 .. Len(sensorq) : Append(sensorq, mainq[1].round)[i] = sensorq[i]
          /\ Append(sensorq, mainq[1].round)[Len(sensorq) + 1] = mainq[1].round
      BY <1>4, <3>2, Appended
    <3>6. \A j \in 1 .. Len(sensorq) + 1 : j \in 1 .. Len(sensorq) \/ j = Len(sensorq) + 1
      BY <1>4
    <3>7. \A j \in 1 .. Len(sensorq) + 1 :
            Append(sensorq, mainq[1].round)[j] <= packet'["gps"]
      BY <1>4, <2>1, <3>2, <3>3, <3>5, <3>6
    <3>8. QED
      BY <1>4, <2>1, <3>4, <3>5, <3>7
  <2>3. CASE TakeSample \/ TakeComplete \/ TakeCommand \/ TakePipes
    <3>1. sensorq' = sensorq
      BY <2>3 DEF TakeSample, TakeComplete, TakeCommand, TakePipes
    <3>2. QED
      BY <1>4, <2>1, <3>1
  <2>4. QED
    BY <2>2, <2>3
<1>6. NoneNewer'
  BY <1>1, <1>3, <1>5 DEF NoneNewer
<1>7. todo' \in Seq(Work) /\ PacketStands'
  <2>1. CASE TakePosition \/ TakeSample \/ TakePipes
    <3>1. todo' = <<>>
      BY <1>1, <2>1 DEF TakePosition, TakeSample, TakePipes, mainvars
    <3>2. QED
      BY <3>1 DEF PacketStands
  <2>2. CASE TakeCommand
    <3>1. todo' = Handler(Head(mainq).command) \o <<"reply">>
      BY <2>2 DEF TakeCommand
    <3>2. QED
      BY <3>1, HandlerType DEF PacketStands
  <2>3. CASE TakeComplete
    <3>1. mainq[1].kind = "complete" /\ packet' = packet /\ todo' = Completed
      BY <1>1, <2>3 DEF TakeComplete, Took
    <3>2. Behind(mainq, packet, 1, "accel", mainq[1].round)
      BY <1>1, <3>1 DEF TrailInv, InOrder
    <3>3. packet["baro"] = packet["accel"]
      BY <3>2 DEF Behind
    <3>4. QED
      BY <3>1, <3>3, CompletedType DEF PacketStands
  <2>4. QED
    BY <2>1, <2>2, <2>3
<1>8. Shapes'
  BY <1>1, <1>3, <1>5, <1>7 DEF TrailInv, Shapes
<1>9. QED
  BY <1>3, <1>6, <1>7, <1>8 DEF TrailInv

\* The main task works.
LEMMA WorkingKeeps ==
  ASSUME TrailInv,
         CommandGps \/ LogCommand \/ LogSample \/ ResetFilter \/ AddValue \/ List
         \/ Skip \/ FindOpen \/ Transmit
  PROVE  TrailInv'
<1>1. todo \in Seq(Work) /\ todo # <<>> /\ UNCHANGED <<mainq, sensorq, packet, sensor, spent>>
  BY DEF TrailInv, Shapes, CommandGps, LogCommand, LogSample, ResetFilter, AddValue,
         List, Skip, FindOpen, Looks, Transmit, Does, queues, world
<1>2. PICK more \in Seq(Work) :
        /\ \A i \in 1 .. Len(more) : more[i] \notin {"log", "filter_add"}
        /\ todo' = Tail(todo) \/ todo' = more \o Tail(todo)
  <2>1. CASE LogSample
    <3>1. <<"gps_sleep", "log_end">> \in Seq(Work)
      BY DEF Work, Storage, GpsSend
    <3>2. \A i \in 1 .. Len(<<"gps_sleep", "log_end">>) :
            <<"gps_sleep", "log_end">>[i] \notin {"log", "filter_add"}
      OBVIOUS
    <3>3. QED
      BY <2>1, <3>1, <3>2 DEF LogSample
  <2>2. CASE List
    <3>1. PICK n \in 0 .. (IF "config" \in pipes THEN MaxListed ELSE 0) :
               todo' = [i \in 1 .. n |-> "event"] \o Tail(todo)
      BY <2>2 DEF List
    <3>2. n \in Nat
      BY TasksAssumption
    <3>3. [i \in 1 .. n |-> "event"] \in Seq(Work)
          /\ \A i \in 1 .. Len([j \in 1 .. n |-> "event"]) :
               [j \in 1 .. n |-> "event"][i] \notin {"log", "filter_add"}
      BY <3>2 DEF Work, Storage, Send
    <3>4. QED
      BY <3>1, <3>3
  <2>5. CASE FindOpen
    <3>1. PipeOf(Head(todo)) \in {"sensor", "config"}
      BY DEF PipeOf
    <3>2. <<PipeOf(Head(todo))>> \in Seq(Work)
      BY <3>1 DEF Work, Pipe
    <3>3. \A i \in 1 .. Len(<<PipeOf(Head(todo))>>) :
            <<PipeOf(Head(todo))>>[i] \notin {"log", "filter_add"}
      BY <3>1
    <3>4. QED
      BY <2>5, <3>2, <3>3 DEF FindOpen
  <2>3. CASE CommandGps \/ LogCommand \/ ResetFilter \/ AddValue \/ Skip \/ Transmit
    <3>1. todo' = Tail(todo)
      BY <2>3 DEF CommandGps, LogCommand, ResetFilter, AddValue, Skip, Transmit
    <3>2. <<>> \in Seq(Work) /\ \A i \in 1 .. Len(<<>>) : <<>>[i] \notin {"log", "filter_add"}
      OBVIOUS
    <3>3. QED
      BY <3>1, <3>2
  <2>4. QED
    BY <2>1, <2>2, <2>3, <2>5
<1>3. QED
  BY <1>1, <1>2, WorkLeft, WorkKeeps

\* The sensor task takes a request, or sends what comes next.
LEMMA SensorKeeps ==
  ASSUME TrailInv, Sensor
  PROVE  TrailInv'
<1>1. CASE SensorReceive
  <2>1. sensorq \in Seq(Nat) /\ sensorq # <<>>
        /\ sensor' = [at |-> "baro", round |-> Head(sensorq)]
        /\ sensorq' = Tail(sensorq) /\ UNCHANGED <<mainq, todo, packet, spent>>
    BY <1>1 DEF SensorReceive, TrailInv, Shapes, mainvars, world
  <2>2. /\ Tail(sensorq) \in Seq(Nat) /\ Len(sensorq) \in Nat \ {0}
        /\ Len(Tail(sensorq)) = Len(sensorq) - 1
        /\ \A i \in 1 .. Len(sensorq) - 1 : Tail(sensorq)[i] = sensorq[i + 1]
        /\ Head(sensorq) = sensorq[1]
    BY <2>1, Taken
  <2>3. \A j \in 1 .. Len(sensorq) : sensorq[j] \in Nat /\ sensorq[j] <= packet["gps"]
    BY <2>1 DEF TrailInv, NoneNewer
  <2>4. \A j \in 1 .. Len(Tail(sensorq)) : Tail(sensorq)[j] <= packet["gps"]
    BY <2>2, <2>3
  <2>5. sensor'.at = "baro" /\ sensor'.round = sensorq[1] /\ sensorq[1] \in Nat
        /\ sensorq[1] <= packet["gps"]
    BY <2>1, <2>2, <2>3
  <2>6. NextInOrder'
    BY <2>5 DEF NextInOrder
  <2>7. NoneNewer'
    BY <2>1, <2>4, <2>5 DEF TrailInv, NoneNewer
  <2>8. Shapes'
    BY <2>1, <2>2, <2>5 DEF TrailInv, Shapes
  <2>9. InOrder(mainq, packet)' /\ PositionsRise' /\ PacketStands'
    BY <2>1 DEF TrailInv, InOrder, Behind, PositionsRise, PacketStands
  <2>10. QED
    BY <2>6, <2>7, <2>8, <2>9 DEF TrailInv
<1>2. CASE SensorSend
  <2> DEFINE e == [kind |-> sensor.at, round |-> sensor.round]
  <2>1. /\ sensor \in [at : {"wait", "baro", "accel", "complete"}, round : Nat]
        /\ sensor.at \in Answers /\ mainq' = Append(mainq, e)
        /\ sensor' = [sensor EXCEPT !.at = AfterSample[@]]
        /\ UNCHANGED <<sensorq, todo, packet, spent>>
    BY <1>2 DEF SensorSend, TrailInv, Shapes, Answers, mainvars, world
  <2>2. e \in Event /\ e.kind = sensor.at /\ e.round = sensor.round
    BY <2>1 DEF Event, Answers, Sample
  <2> HIDE DEF e
  <2>3. /\ mainq' \in Seq(Event) /\ InOrder(mainq, packet)' /\ PositionsRise'
        /\ \A j \in 1 .. Len(mainq') :
             mainq'[j].kind \in Answers => mainq'[j].round <= packet'["gps"]
    <3>1. /\ e.kind = "accel" => Behind(mainq, packet, Len(mainq) + 1, "baro", e.round)
          /\ e.kind = "complete" => Behind(mainq, packet, Len(mainq) + 1, "accel", e.round)
      BY <2>2 DEF TrailInv, NextInOrder
    <3>2. e.round <= packet["gps"] /\ e.kind # "gps"
      BY <2>1, <2>2 DEF TrailInv, NoneNewer, Answers
    <3>3. QED
      BY <2>1, <2>2, <3>1, <3>2, AppendKeeps
  <2>4. /\ sensor'.round = sensor.round
        /\ sensor.at = "baro" => sensor'.at = "accel"
        /\ sensor.at = "accel" => sensor'.at = "complete"
        /\ sensor.at = "complete" => sensor'.at = "wait"
    BY <2>1 DEF AfterSample
  <2>5. sensor' \in [at : {"wait", "baro", "accel", "complete"}, round : Nat]
    BY <2>1 DEF AfterSample, Answers
  <2>6. Behind(mainq', packet', Len(mainq') + 1, sensor.at, sensor.round)
    <3>1. mainq \in Seq(Event)
      BY DEF TrailInv, Shapes
    <3>2. Behind(Append(mainq, e), packet, Len(Append(mainq, e)) + 1, e.kind, e.round)
      BY <2>2, <3>1, BehindNext
    <3>3. QED
      BY <2>1, <2>2, <3>2
  <2>7. NextInOrder'
    BY <2>1, <2>4, <2>6 DEF NextInOrder, Answers
  <2>8. NoneNewer'
    BY <2>1, <2>3, <2>4 DEF TrailInv, NoneNewer, Answers
  <2>9. Shapes'
    BY <2>1, <2>3, <2>5 DEF TrailInv, Shapes
  <2>10. PacketStands'
    BY <2>1 DEF TrailInv, PacketStands
  <2>11. QED
    BY <2>3, <2>7, <2>8, <2>9, <2>10 DEF TrailInv
<1>3. QED
  BY <1>1, <1>2 DEF Sensor

\* The GPS task, the receiver and the client.
LEMMA OthersKeep ==
  ASSUME TrailInv, Gps \/ Announce \/ World
  PROVE  TrailInv'
<1>1. CASE GpsInit \/ GpsCommand \/ GpsIgnores \/ CreditReturns \/ LinkReturns
  <2>1. UNCHANGED <<mainq, sensorq, todo, packet, sensor, spent>>
    BY <1>1 DEF GpsInit, GpsCommand, GpsIgnores, CreditReturns, LinkReturns, queues,
                mainvars, world
  <2>2. QED
    BY <2>1 DEF TrailInv, Shapes, InOrder, NextInOrder, NoneNewer, PositionsRise,
                PacketStands, Behind
<1>2. CASE GpsFix \/ Announce \/ LinkDrops \/ ClientSubscribes
  <2>1. UNCHANGED <<mainq, sensorq, todo, packet, sensor>>
    BY <1>2 DEF GpsFix, Announce, LinkDrops, ClientSubscribes, queues, mainvars
  <2>2. spent \in Counts
    BY DEF TrailInv, Shapes
  <2>3. \/ spent' = [spent EXCEPT !.fixes = @ + 1]
        \/ spent' = [spent EXCEPT !.messages = @ + 1]
        \/ spent' = [spent EXCEPT !.changes = @ + 1]
    BY <1>2 DEF GpsFix, Announce, LinkDrops, ClientSubscribes
  <2>4. spent' \in Counts
    BY <2>2, <2>3 DEF Counts
  <2>5. spent'.fixes = spent.fixes \/ spent'.fixes = spent.fixes + 1
    BY <2>2, <2>3 DEF Counts
  <2>6. PositionsRise'
    <3>1. packet["gps"] \in Nat /\ mainq \in Seq(Event) /\ spent.fixes \in Nat
      BY <2>2 DEF TrailInv, Shapes, Counts
    <3>2. \A j \in 1 .. Len(mainq) : mainq[j].kind = "gps" => mainq[j].round \in Nat
      BY <3>1, ReceivedType DEF Event, Sample
    <3>3. \A j \in 1 .. Len(mainq) : mainq[j].kind = "gps" => mainq[j].round <= spent'.fixes
      BY <2>5, <3>1, <3>2 DEF TrailInv, PositionsRise
    <3>4. packet["gps"] <= spent'.fixes
      BY <2>5, <3>1 DEF TrailInv, PositionsRise
    <3>5. QED
      BY <2>1, <3>3, <3>4 DEF TrailInv, PositionsRise
  <2>7. Shapes' /\ InOrder(mainq, packet)' /\ NextInOrder' /\ NoneNewer' /\ PacketStands'
    BY <2>1, <2>4 DEF TrailInv, Shapes, InOrder, NextInOrder, NoneNewer, PacketStands, Behind
  <2>8. QED
    BY <2>6, <2>7 DEF TrailInv
<1>3. CASE GpsPosition
  <2>1. UNCHANGED <<sensorq, todo, packet, sensor, spent>>
        /\ mainq' = Append(mainq, [kind |-> "gps", round |-> spent.fixes])
    BY <1>3 DEF GpsPosition, mainvars, world
  <2>2. [kind |-> "gps", round |-> spent.fixes] \in Event
    BY DEF TrailInv, Shapes, Counts, Event, Sample
  <2>3. spent' \in Counts /\ spent'.fixes = spent.fixes
    BY <2>1 DEF TrailInv, Shapes
  <2>4. QED
    BY <2>1, <2>2, <2>3, ReportKeeps DEF Answers
<1>4. CASE ClientWrites
  <2>1. PICK command \in Commands :
             mainq' = Append(mainq, [kind |-> "data", command |-> command]) \/ mainq' = mainq
    BY <1>4 DEF ClientWrites, Report
  <2>2. UNCHANGED <<sensorq, todo, packet, sensor>>
        /\ spent' = [spent EXCEPT !.requests = @ + 1]
    BY <1>4 DEF ClientWrites, mainvars
  <2>3. [kind |-> "data", command |-> command] \in Event
    BY TasksAssumption DEF Event
  <2>4. spent' \in Counts /\ spent'.fixes = spent.fixes
    <3>1. spent \in Counts
      BY DEF TrailInv, Shapes
    <3>2. spent' \in Counts
      BY <2>2, <3>1 DEF Counts
    <3>3. spent'.fixes = spent.fixes
      BY <2>2, <3>1 DEF Counts
    <3>4. QED
      BY <3>2, <3>3
  <2>5. QED
    BY <2>1, <2>2, <2>3, <2>4, ReportKeeps DEF Answers
<1>5. CASE PipeStatus
  <2>1. mainq' = Append(mainq, [kind |-> "pipes"]) \/ mainq' = mainq
    BY <1>5 DEF PipeStatus, Report
  <2>2. UNCHANGED <<sensorq, todo, packet, sensor, spent>>
    BY <1>5 DEF PipeStatus, mainvars
  <2>3. [kind |-> "pipes"] \in Event
    BY DEF Event
  <2>4. spent' \in Counts /\ spent'.fixes = spent.fixes
    BY <2>2 DEF TrailInv, Shapes
  <2>5. QED
    BY <2>1, <2>2, <2>3, <2>4, ReportKeeps DEF Answers
<1>6. QED
  BY <1>1, <1>2, <1>3, <1>4, <1>5 DEF Gps, World

\* The tasks as they start.
LEMMA TrailInit == Init => TrailInv
<1>1. SUFFICES ASSUME Init PROVE TrailInv
  OBVIOUS
<1>2. /\ mainq = <<>> /\ sensorq = <<>> /\ todo = <<>>
      /\ packet = [part \in {"gps", "baro", "accel"} |-> 0]
      /\ sensor = [at |-> "wait", round |-> 0]
      /\ spent = [messages |-> 0, fixes |-> 0, requests |-> 0, changes |-> 0]
  BY <1>1 DEF Init
<1>3. Shapes
  BY <1>2 DEF Shapes, Counts
<1>4. InOrder(mainq, packet) /\ NextInOrder /\ NoneNewer /\ PositionsRise /\ PacketStands
  BY <1>2 DEF InOrder, NextInOrder, NoneNewer, PositionsRise, PacketStands
<1>5. QED
  BY <1>3, <1>4 DEF TrailInv

\* Every step keeps the invariant.
LEMMA TrailStep == TrailInv /\ [Next]_vars => TrailInv'
<1>1. SUFFICES ASSUME TrailInv, [Next]_vars PROVE TrailInv'
  OBVIOUS
<1>2. CASE Main
  BY <1>1, <1>2, TakingKeeps, WorkingKeeps DEF Main
<1>3. CASE Sensor
  BY <1>1, <1>3, SensorKeeps
<1>4. CASE Gps \/ Announce \/ World
  BY <1>1, <1>4, OthersKeep
<1>5. CASE UNCHANGED vars
  BY <1>1, <1>5 DEF vars, queues, mainvars, world, TrailInv, Shapes, InOrder, NextInOrder,
     NoneNewer, PositionsRise, PacketStands, Behind
<1>6. QED
  BY <1>1, <1>2, <1>3, <1>4, <1>5 DEF Next

\* For every length of the queues and any number of positions, commands and
\* lost connections: a packet that is logged or filtered is of one request, and
\* no older position than that request's is in it.
THEOREM TasksSamplesTogether == Spec => []SamplesTogether
<1>1. TrailInv => SamplesTogether
  <2>1. SUFFICES ASSUME TrailInv, Does({"log", "filter_add"})
                 PROVE  packet["baro"] = packet["accel"] /\ packet["baro"] <= packet["gps"]
    BY DEF SamplesTogether
  <2>2. todo \in Seq(Work) /\ todo # <<>> /\ Head(todo) \in {"log", "filter_add"}
    BY <2>1 DEF TrailInv, Shapes, Does
  <2>3. 1 \in 1 .. Len(todo) /\ todo[1] \in {"log", "filter_add"}
    BY <2>2
  <2>4. QED
    BY <2>1, <2>3 DEF TrailInv, PacketStands, NoneNewer
<1>2. QED
  BY <1>1, TrailInit, TrailStep, PTL DEF Spec

-----------------------------------------------------------------------------
(* PacketSettles.                                                          *)

\* The last sample in the queue ends the request of the position in the packet,
\* or there is none and the packet is of that request throughout.
Answered(q, p) ==
  \/ \E i \in 1 .. Len(q) :
       /\ q[i].kind = "complete" /\ q[i].round = p["gps"]
       /\ \A k \in i + 1 .. Len(q) : q[k].kind \notin Answers
  \/ /\ \A k \in 1 .. Len(q) : q[k].kind \notin Answers
     /\ p["baro"] = p["gps"] /\ p["accel"] = p["gps"]

\* The request on its way that was made last is that of the position in the packet.
NewestAsked ==
  /\ sensorq # <<>> => sensorq[Len(sensorq)] = packet["gps"]
  /\ sensorq = <<>> /\ sensor.at # "wait" => sensor.round = packet["gps"]
  /\ sensorq = <<>> /\ sensor.at = "wait" => Answered(mainq, packet)

\* The inductive invariant for PacketSettles.
SettleInv == TrailInv /\ (~missed => NewestAsked)

\* An event that is no sample joins the queue.
LEMMA AnsweredReport ==
  ASSUME NEW q \in Seq(Event), NEW e \in Event, e.kind \notin Answers, NEW p, Answered(q, p)
  PROVE  Answered(Append(q, e), p)
<1>1. /\ Len(q) \in Nat /\ \A i \in 1 .. Len(q) : Append(q, e)[i] = q[i]
      /\ Len(Append(q, e)) = Len(q) + 1 /\ Append(q, e)[Len(q) + 1] = e
  BY Appended
<1>2. \A i \in 0 .. Len(q) :
        (\A k \in i + 1 .. Len(q) : q[k].kind \notin Answers)
          => \A k \in i + 1 .. Len(q) + 1 : Append(q, e)[k].kind \notin Answers
  BY <1>1
<1>3. CASE \E i \in 1 .. Len(q) :
             /\ q[i].kind = "complete" /\ q[i].round = p["gps"]
             /\ \A k \in i + 1 .. Len(q) : q[k].kind \notin Answers
  <2>1. PICK i \in 1 .. Len(q) :
             /\ q[i].kind = "complete" /\ q[i].round = p["gps"]
             /\ \A k \in i + 1 .. Len(q) : q[k].kind \notin Answers
    BY <1>3
  <2>2. \A k \in i + 1 .. Len(q) + 1 : Append(q, e)[k].kind \notin Answers
    BY <1>1, <1>2, <2>1
  <2>3. i \in 1 .. Len(q) + 1 /\ Append(q, e)[i] = q[i]
    BY <1>1
  <2> QED
    BY <1>1, <2>1, <2>2, <2>3 DEF Answered
<1>4. CASE /\ \A k \in 1 .. Len(q) : q[k].kind \notin Answers
           /\ p["baro"] = p["gps"] /\ p["accel"] = p["gps"]
  <2>1. \A k \in 1 .. Len(q) + 1 : Append(q, e)[k].kind \notin Answers
    BY <1>1, <1>4
  <2> QED
    BY <1>1, <1>4, <2>1 DEF Answered
<1> QED
  BY <1>3, <1>4 DEF Answered

\* The completion of the request joins the queue.
LEMMA AnsweredAtEnd ==
  ASSUME NEW q \in Seq(Event), NEW e \in Event, NEW p,
         e.kind = "complete", e.round = p["gps"]
  PROVE  Answered(Append(q, e), p)
<1>1. /\ Len(q) \in Nat
      /\ Len(Append(q, e)) = Len(q) + 1 /\ Append(q, e)[Len(q) + 1] = e
  BY Appended
<1>2. Len(q) + 1 \in 1 .. Len(q) + 1 /\ \A k \in (Len(q) + 1) + 1 .. Len(q) + 1 : FALSE
  BY <1>1
<1> QED
  BY <1>1, <1>2 DEF Answered

\* The head of the queue goes into the packet: if it is the completion, the
\* samples before it are in the packet already.
LEMMA AnsweredTaken ==
  ASSUME NEW q \in Seq(Event), q # <<>>, NEW p \in [{"gps", "baro", "accel"} -> Nat],
         InOrder(q, p), q[1].kind # "gps", Answered(q, p)
  PROVE  Answered(Tail(q), Received(q[1], p))
<1>1. /\ Len(q) \in Nat \ {0} /\ Len(Tail(q)) = Len(q) - 1
      /\ \A i \in 1 .. Len(q) - 1 : Tail(q)[i] = q[i + 1]
  BY Taken
<1>2. Received(q[1], p)["gps"] = p["gps"]
  BY DEF Received
<1>3. \A i \in 1 .. Len(q) :
        (\A k \in i + 1 .. Len(q) : q[k].kind \notin Answers)
          => \A k \in i .. Len(q) - 1 : Tail(q)[k].kind \notin Answers
  BY <1>1
<1>4. CASE \E i \in 2 .. Len(q) :
             /\ q[i].kind = "complete" /\ q[i].round = p["gps"]
             /\ \A k \in i + 1 .. Len(q) : q[k].kind \notin Answers
  <2>1. PICK i \in 2 .. Len(q) :
             /\ q[i].kind = "complete" /\ q[i].round = p["gps"]
             /\ \A k \in i + 1 .. Len(q) : q[k].kind \notin Answers
    BY <1>4
  <2>2. i - 1 \in 1 .. Len(Tail(q)) /\ Tail(q)[i - 1] = q[i] /\ i \in 1 .. Len(q)
    BY <1>1
  <2>3. \A k \in (i - 1) + 1 .. Len(Tail(q)) : Tail(q)[k].kind \notin Answers
    BY <1>1, <1>3, <2>1, <2>2
  <2> QED
    BY <1>2, <2>1, <2>2, <2>3 DEF Answered
<1>5. CASE /\ q[1].kind = "complete" /\ q[1].round = p["gps"]
           /\ \A k \in 2 .. Len(q) : q[k].kind \notin Answers
  <2>1. Received(q[1], p) = p
    BY <1>5 DEF Received
  <2>2. p["baro"] = p["gps"] /\ p["accel"] = p["gps"]
    <3>1. Behind(q, p, 1, "accel", q[1].round)
      BY <1>1, <1>5 DEF InOrder
    <3> QED
      BY <1>5, <3>1 DEF Behind
  <2>3. \A k \in 1 .. Len(Tail(q)) : Tail(q)[k].kind \notin Answers
    BY <1>1, <1>5
  <2> QED
    BY <2>1, <2>2, <2>3 DEF Answered
<1>6. CASE /\ \A k \in 1 .. Len(q) : q[k].kind \notin Answers
           /\ p["baro"] = p["gps"] /\ p["accel"] = p["gps"]
  <2>1. Received(q[1], p) = p
    BY <1>1, <1>6 DEF Received, Answers
  <2>2. \A k \in 1 .. Len(Tail(q)) : Tail(q)[k].kind \notin Answers
    BY <1>1, <1>6
  <2> QED
    BY <1>6, <2>1, <2>2 DEF Answered
<1> QED
  BY <1>1, <1>4, <1>5, <1>6 DEF Answered

\* The main task takes an event: a position asks anew, anything else leaves the
\* request as it is.
LEMMA TakingSettles ==
  ASSUME SettleInv, TakePosition \/ TakeSample \/ TakeComplete \/ TakeCommand \/ TakePipes,
         ~missed'
  PROVE  NewestAsked'
<1>1. /\ mainq \in Seq(Event) /\ mainq # <<>> /\ Head(mainq) = mainq[1]
      /\ packet \in [{"gps", "baro", "accel"} -> Nat] /\ InOrder(mainq, packet)
      /\ mainq' = Tail(mainq) /\ sensor' = sensor /\ sensorq \in Seq(Nat)
  <2>1. mainq \in Seq(Event) /\ mainq # <<>> /\ mainq' = Tail(mainq) /\ sensor' = sensor
    BY DEF SettleInv, TrailInv, Shapes, TakePosition, TakeSample, TakeComplete, TakeCommand,
           TakePipes, Took, mainvars, world
  <2> QED
    BY <2>1 DEF SettleInv, TrailInv, Shapes
<1>2. CASE TakePosition
  <2>1. /\ mainq[1].kind = "gps" /\ packet' = [packet EXCEPT !["gps"] = mainq[1].round]
        /\ sensorq' = Append(sensorq, mainq[1].round)
    BY <1>1, <1>2 DEF TakePosition, Took, Request
  <2>2. mainq[1] \in Event /\ mainq[1].round \in Nat
    BY <1>1, <2>1 DEF Event, Sample
  <2>3. /\ Len(sensorq') = Len(sensorq) + 1 /\ sensorq'[Len(sensorq) + 1] = mainq[1].round
        /\ Len(sensorq) \in Nat /\ sensorq' \in Seq(Nat)
    BY <1>1, <2>1, <2>2, Appended
  <2>4. sensorq' # <<>> /\ packet'["gps"] = mainq[1].round
    BY <1>1, <2>1, <2>3
  <2> QED
    BY <2>3, <2>4 DEF NewestAsked
<1>3. CASE TakeSample \/ TakeComplete \/ TakeCommand \/ TakePipes
  <2>1. sensorq' = sensorq /\ missed' = missed /\ mainq[1].kind # "gps"
    BY <1>1, <1>3 DEF TakeSample, TakeComplete, TakeCommand, TakePipes, Took, mainvars
  <2>2. packet' = Received(mainq[1], packet)
    <3>1. CASE TakeSample
      BY <1>1, <3>1 DEF TakeSample, Took, Received
    <3>2. CASE TakeComplete
      BY <1>1, <3>2 DEF TakeComplete, Took, Received
    <3>3. CASE TakeCommand
      BY <1>1, <3>3 DEF TakeCommand, Took, Received
    <3>4. CASE TakePipes
      BY <1>1, <3>4 DEF TakePipes, Took, Received, mainvars
    <3> QED
      BY <1>3, <3>1, <3>2, <3>3, <3>4
  <2>3. packet'["gps"] = packet["gps"]
    BY <1>1, <2>1, <2>2 DEF Received
  <2>4. Answered(mainq, packet) => Answered(mainq', packet')
    BY <1>1, <2>1, <2>2, AnsweredTaken
  <2> QED
    BY <1>1, <2>1, <2>3, <2>4 DEF SettleInv, NewestAsked
<1> QED
  BY <1>2, <1>3

\* The sensor task takes the request, and ends it with the completion.
LEMMA SensorSettles ==
  ASSUME SettleInv, Sensor, ~missed'
  PROVE  NewestAsked'
<1>1. missed' = missed /\ packet' = packet /\ NewestAsked
  BY DEF SettleInv, Sensor, SensorReceive, SensorSend, mainvars
<1>2. CASE SensorReceive
  <2>1. sensorq \in Seq(Nat) /\ sensorq # <<>>
        /\ sensor' = [at |-> "baro", round |-> Head(sensorq)]
        /\ sensorq' = Tail(sensorq)
    BY <1>2 DEF SensorReceive, SettleInv, TrailInv, Shapes
  <2>2. /\ Tail(sensorq) \in Seq(Nat) /\ Len(sensorq) \in Nat \ {0}
        /\ Len(Tail(sensorq)) = Len(sensorq) - 1
        /\ \A i \in 1 .. Len(sensorq) - 1 : Tail(sensorq)[i] = sensorq[i + 1]
        /\ Head(sensorq) = sensorq[1]
    BY <2>1, Taken
  <2>3. sensorq[Len(sensorq)] = packet["gps"]
    BY <1>1, <2>1 DEF NewestAsked
  <2>4. CASE Len(sensorq) = 1
    <3>1. sensorq' = <<>> /\ sensor'.round = packet["gps"] /\ sensor'.at # "wait"
      BY <2>1, <2>2, <2>3, <2>4
    <3> QED
      BY <1>1, <3>1 DEF NewestAsked
  <2>5. CASE Len(sensorq) # 1
    <3>1. PICK n \in Nat \ {0} : n = Len(sensorq)
      BY <2>2
    <3>2. n - 1 \in 1 .. n - 1 /\ (n - 1) + 1 = n
      BY <2>5, <3>1
    <3>3. Len(sensorq') = n - 1 /\ sensorq'[n - 1] = sensorq[n]
      BY <2>1, <2>2, <3>1, <3>2
    <3>4. sensorq' # <<>>
      BY <3>2, <3>3
    <3> QED
      BY <1>1, <2>3, <3>1, <3>3, <3>4 DEF NewestAsked
  <2> QED
    BY <2>4, <2>5
<1>3. CASE SensorSend
  <2>1. PICK e : /\ e = [kind |-> sensor.at, round |-> sensor.round]
                 /\ mainq' = Append(mainq, e)
    BY <1>3 DEF SensorSend
  <2>2. /\ sensor \in [at : {"wait", "baro", "accel", "complete"}, round : Nat]
        /\ sensor.at # "wait" /\ sensorq' = sensorq /\ mainq \in Seq(Event)
        /\ sensor' = [sensor EXCEPT !.at = AfterSample[@]]
    BY <1>3 DEF SensorSend, SettleInv, TrailInv, Shapes
  <2>3. e \in Event /\ e.kind = sensor.at /\ e.round = sensor.round
    BY <2>1, <2>2 DEF Event, Sample
  <2>4. /\ sensor'.round = sensor.round
        /\ sensor'.at = "wait" => sensor.at = "complete"
    BY <2>2 DEF AfterSample
  <2>5. ASSUME sensorq = <<>>, sensor.at = "complete"
        PROVE  Answered(mainq', packet)
    <3>1. e.kind = "complete" /\ e.round = packet["gps"]
      BY <1>1, <2>2, <2>3, <2>5 DEF NewestAsked
    <3> QED
      BY <2>1, <2>2, <2>3, <3>1, AnsweredAtEnd
  <2> QED
    BY <1>1, <2>2, <2>4, <2>5 DEF NewestAsked
<1> QED
  BY <1>2, <1>3 DEF Sensor

\* The others put nothing into the queue that answers a request.
LEMMA OthersSettle ==
  ASSUME SettleInv, Gps \/ Announce \/ World, ~missed'
  PROVE  NewestAsked'
<1>1. missed' = missed /\ packet' = packet /\ sensorq' = sensorq /\ sensor' = sensor
  BY DEF Gps, Announce, World, GpsInit, GpsCommand, GpsIgnores, GpsFix, GpsPosition,
    ClientWrites, ClientSubscribes, PipeStatus, CreditReturns, LinkDrops, LinkReturns, queues,
    mainvars
<1>2. \/ mainq' = mainq
      \/ \E e \in Event : e.kind \notin Answers /\ mainq' = Append(mainq, e)
  <2>1. CASE GpsPosition
    <3>1. mainq' = Append(mainq, [kind |-> "gps", round |-> spent.fixes])
      BY <2>1 DEF GpsPosition
    <3>2. [kind |-> "gps", round |-> spent.fixes] \in Event
      BY DEF SettleInv, TrailInv, Shapes, Counts, Event, Sample
    <3> QED
      BY <3>1, <3>2 DEF Answers
  <2>2. CASE ClientWrites
    <3>1. PICK command \in Commands :
             mainq' = Append(mainq, [kind |-> "data", command |-> command]) \/ mainq' = mainq
      BY <2>2 DEF ClientWrites, Report
    <3>2. [kind |-> "data", command |-> command] \in Event
      BY TasksAssumption DEF Event
    <3> QED
      BY <3>1, <3>2 DEF Answers
  <2>3. CASE PipeStatus
    <3>1. mainq' = Append(mainq, [kind |-> "pipes"]) \/ mainq' = mainq
      BY <2>3 DEF PipeStatus, Report
    <3>2. [kind |-> "pipes"] \in Event
      BY DEF Event
    <3> QED
      BY <3>1, <3>2 DEF Answers
  <2>4. CASE \/ GpsInit \/ GpsCommand \/ GpsIgnores \/ GpsFix \/ Announce
             \/ ClientSubscribes \/ CreditReturns \/ LinkDrops \/ LinkReturns
    BY <2>4 DEF GpsInit, GpsCommand, GpsIgnores, GpsFix, Announce, ClientSubscribes,
      CreditReturns, LinkDrops, LinkReturns, queues
  <2> QED
    BY <2>1, <2>2, <2>3, <2>4 DEF Gps, World
<1>3. mainq \in Seq(Event)
  BY DEF SettleInv, TrailInv, Shapes
<1>4. Answered(mainq, packet) => Answered(mainq', packet)
  BY <1>2, <1>3, AnsweredReport
<1> QED
  BY <1>1, <1>4 DEF SettleInv, NewestAsked

\* For every length of the queues and any number of positions, commands and lost
\* connections: when the last request was taken and nothing is on its way any
\* more, all parts of the packet are of one round.
THEOREM TasksPacketSettles == Spec => []PacketSettles
<1>1. SettleInv => PacketSettles
  <2> SUFFICES ASSUME SettleInv, ~Outstanding, ~missed
               PROVE  packet["gps"] = packet["baro"] /\ packet["baro"] = packet["accel"]
    BY DEF PacketSettles
  <2>1. sensorq = <<>> /\ sensor.at = "wait" /\ mainq \in Seq(Event)
        /\ \A i \in 1 .. Len(mainq) : mainq[i].kind \notin Answers
    BY DEF Outstanding, SettleInv, TrailInv, Shapes, Sample, Answers
  <2>2. Answered(mainq, packet)
    BY <2>1 DEF SettleInv, NewestAsked
  <2> QED
    BY <2>1, <2>2 DEF Answered, Answers
<1>2. Init => SettleInv
  <2> SUFFICES ASSUME Init PROVE SettleInv
    OBVIOUS
  <2>1. /\ mainq = <<>> /\ sensorq = <<>> /\ sensor.at = "wait"
        /\ packet = [part \in {"gps", "baro", "accel"} |-> 0]
    BY DEF Init
  <2>2. Answered(mainq, packet)
    BY <2>1 DEF Answered
  <2> QED
    BY <2>1, <2>2, TrailInit DEF SettleInv, NewestAsked
<1>3. SettleInv /\ [Next]_vars => SettleInv'
  <2> SUFFICES ASSUME SettleInv, [Next]_vars, ~missed' PROVE NewestAsked'
    BY TrailStep DEF SettleInv
  <2>1. CASE TakePosition \/ TakeSample \/ TakeComplete \/ TakeCommand \/ TakePipes
    BY <2>1, TakingSettles
  <2>2. CASE \/ CommandGps \/ LogCommand \/ LogSample \/ ResetFilter \/ AddValue \/ List
             \/ Skip \/ FindOpen \/ Transmit \/ UNCHANGED vars
    <3>1. UNCHANGED <<mainq, sensorq, packet, sensor, missed>>
      BY <2>2 DEF CommandGps, LogCommand, LogSample, ResetFilter, AddValue, List, Skip,
        FindOpen, Transmit, vars, queues, mainvars
    <3> QED
      BY <3>1 DEF SettleInv, NewestAsked
  <2>3. CASE Sensor
    BY <2>3, SensorSettles
  <2>4. CASE Gps \/ Announce \/ World
    BY <2>4, OthersSettle
  <2> QED
    BY <2>1, <2>2, <2>3, <2>4 DEF Next, Main
<1> QED
  BY <1>1, <1>2, <1>3, PTL DEF Spec

-----------------------------------------------------------------------------
(* ReceiverFollowsSession, step by step.                                   *)

\* An announcement in front of the queue tells the receiver nothing.
LEMMA ToldBehindAnnouncement ==
  ASSUME NEW q \in Seq(GpsEvent), NEW running \in BOOLEAN, NEW on \in BOOLEAN,
         ToldBy(q, running, on)
  PROVE  ToldBy(<<"waiting">> \o q, running, on)
<1> DEFINE w == <<"waiting">> \o q
<1>1. <<"waiting">> \in Seq(GpsEvent) /\ Len(<<"waiting">>) = 1 /\ <<"waiting">>[1] = "waiting"
  BY DEF GpsEvent
<1>2. /\ Len(w) = 1 + Len(q) /\ Len(q) \in Nat /\ w[1] = "waiting"
      /\ \A i \in 1 .. Len(q) : w[1 + i] = q[i]
  BY <1>1, Joined
<1> HIDE DEF w
<1>3. ASSUME NEW k \in 2 .. Len(w)
      PROVE  k - 1 \in 1 .. Len(q) /\ w[k] = q[k - 1]
  <2>1. k - 1 \in 1 .. Len(q) /\ 1 + (k - 1) = k
    BY <1>2
  <2>2. QED
    BY <1>2, <2>1
<1>4. CASE \E i \in 1 .. Len(q) :
             /\ q[i] # "waiting" /\ (q[i] = "start" <=> on)
             /\ \A k \in i + 1 .. Len(q) : q[k] = "waiting"
  <2>1. PICK i \in 1 .. Len(q) :
             /\ q[i] # "waiting" /\ (q[i] = "start" <=> on)
             /\ \A k \in i + 1 .. Len(q) : q[k] = "waiting"
    BY <1>4
  <2>2. 1 + i \in 1 .. Len(w) /\ w[1 + i] = q[i]
    BY <1>2
  <2>3. \A k \in (1 + i) + 1 .. Len(w) : k \in 2 .. Len(w) /\ k - 1 \in i + 1 .. Len(q)
    BY <1>2
  <2>4. \A k \in (1 + i) + 1 .. Len(w) : w[k] = "waiting"
    BY <1>3, <2>1, <2>3
  <2>5. QED
    BY <2>1, <2>2, <2>4 DEF ToldBy, w
<1>5. CASE (\A k \in 1 .. Len(q) : q[k] = "waiting") /\ (running <=> on)
  <2>1. \A k \in 1 .. Len(w) : k = 1 \/ k \in 2 .. Len(w)
    BY <1>2
  <2>2. \A k \in 1 .. Len(w) : w[k] = "waiting"
    BY <1>2, <1>3, <1>5, <2>1
  <2>3. QED
    BY <1>5, <2>2 DEF ToldBy, w
<1>6. QED
  BY <1>4, <1>5 DEF ToldBy

\* The head of the queue taken: a command sets what the receiver does, an
\* announcement does not.
LEMMA ToldAfterHead ==
  ASSUME NEW q \in Seq(GpsEvent), q # <<>>, NEW running \in BOOLEAN, NEW on \in BOOLEAN,
         ToldBy(q, running, on), NEW next \in BOOLEAN,
         next <=> IF q[1] = "waiting" THEN running ELSE q[1] = "start"
  PROVE  ToldBy(Tail(q), next, on)
<1>1. /\ Len(q) \in Nat \ {0} /\ Len(Tail(q)) = Len(q) - 1
      /\ \A i \in 1 .. Len(q) - 1 : Tail(q)[i] = q[i + 1]
  BY Taken
<1>2. CASE \E i \in 2 .. Len(q) :
             /\ q[i] # "waiting" /\ (q[i] = "start" <=> on)
             /\ \A k \in i + 1 .. Len(q) : q[k] = "waiting"
  <2>1. PICK i \in 2 .. Len(q) :
             /\ q[i] # "waiting" /\ (q[i] = "start" <=> on)
             /\ \A k \in i + 1 .. Len(q) : q[k] = "waiting"
    BY <1>2
  <2>2. i - 1 \in 1 .. Len(Tail(q)) /\ Tail(q)[i - 1] = q[i]
    BY <1>1
  <2>3. \A k \in (i - 1) + 1 .. Len(Tail(q)) : Tail(q)[k] = q[k + 1] /\ k + 1 \in i + 1 .. Len(q)
    BY <1>1
  <2>4. \A k \in (i - 1) + 1 .. Len(Tail(q)) : Tail(q)[k] = "waiting"
    BY <2>1, <2>3
  <2>5. QED
    BY <2>1, <2>2, <2>4 DEF ToldBy
<1>3. CASE \A k \in 2 .. Len(q) : q[k] = "waiting"
  <2>1. \A k \in 1 .. Len(Tail(q)) : Tail(q)[k] = q[k + 1] /\ k + 1 \in 2 .. Len(q)
    BY <1>1
  <2>2. \A k \in 1 .. Len(Tail(q)) : Tail(q)[k] = "waiting"
    BY <1>3, <2>1
  <2>3. next <=> on
    <3>1. 1 \in 1 .. Len(q)
      BY <1>1
    <3>2. CASE q[1] = "waiting"
      <4>1. \A i \in 1 .. Len(q) : i = 1 \/ i \in 2 .. Len(q)
        BY <1>1
      <4>2. \A i \in 1 .. Len(q) : q[i] = "waiting"
        BY <1>3, <3>2, <4>1
      <4>3. QED
        BY <3>2, <4>2 DEF ToldBy
    <3>3. CASE q[1] # "waiting"
      <4>1. \A i \in 1 .. Len(q) : q[i] # "waiting" => i = 1
        BY <1>1, <1>3
      <4>2. q[1] = "start" <=> on
        BY <3>1, <3>3, <4>1 DEF ToldBy
      <4>3. QED
        BY <3>3, <4>2
    <3>4. QED
      BY <3>2, <3>3
  <2>4. QED
    BY <2>2, <2>3 DEF ToldBy
<1>4. CASE /\ \A k \in 1 .. Len(q) : q[k] = "waiting"
           /\ running <=> on
  BY <1>3, <1>4
<1>5. QED
  <2>1. ASSUME NEW i \in 1 .. Len(q), q[i] # "waiting", q[i] = "start" <=> on,
               \A k \in i + 1 .. Len(q) : q[k] = "waiting"
        PROVE  ToldBy(Tail(q), next, on)
    <3>1. CASE i = 1
      BY <1>3, <2>1, <3>1
    <3>2. CASE i # 1
      <4>1. i \in 2 .. Len(q)
        BY <1>1, <3>2
      <4>2. QED
        BY <1>2, <2>1, <4>1
    <3>3. QED
      BY <3>1, <3>2
  <2>2. QED
    BY <1>4, <2>1 DEF ToldBy

\* A command at the end of the queue is the last one.
LEMMA ToldLast ==
  ASSUME NEW q \in Seq(GpsEvent), NEW running \in BOOLEAN, NEW on \in BOOLEAN
  PROVE  ToldBy(Append(q, IF on THEN "start" ELSE "sleep"), running, on)
<1>1. PICK e \in GpsEvent : e = IF on THEN "start" ELSE "sleep"
  BY DEF GpsEvent
<1>2. /\ Len(q) \in Nat /\ Len(Append(q, e)) = Len(q) + 1
      /\ Append(q, e)[Len(q) + 1] = e
  BY Appended
<1>3. /\ Len(q) + 1 \in 1 .. Len(Append(q, e))
      /\ \A k \in (Len(q) + 1) + 1 .. Len(Append(q, e)) : FALSE
  BY <1>2
<1>4. e # "waiting" /\ (e = "start" <=> on)
  BY <1>1
<1>5. QED
  BY <1>1, <1>2, <1>3, <1>4 DEF ToldBy

\* The first piece of work done.
LEMMA BeginsDone ==
  ASSUME NEW t \in Seq(Work), NEW w \in Seq(Work), w # <<>>, Begins(t, w)
  PROVE  /\ t # <<>> /\ Head(t) = w[1] /\ Begins(Tail(t), Tail(w))
<1>1. /\ Len(w) \in Nat \ {0} /\ Len(Tail(w)) = Len(w) - 1
      /\ \A i \in 1 .. Len(w) - 1 : Tail(w)[i] = w[i + 1]
  BY Taken
<1>2. Len(t) \in Nat \ {0} /\ t # <<>>
  BY <1>1 DEF Begins
<1>3. /\ Len(Tail(t)) = Len(t) - 1 /\ Head(t) = t[1]
      /\ \A i \in 1 .. Len(t) - 1 : Tail(t)[i] = t[i + 1]
  BY <1>2, Taken
<1>4. t[1] = w[1]
  BY <1>1 DEF Begins
<1>5. \A i \in 1 .. Len(Tail(w)) :
        Tail(t)[i] = t[i + 1] /\ Tail(w)[i] = w[i + 1] /\ i + 1 \in 1 .. Len(w)
  BY <1>1, <1>2, <1>3 DEF Begins
<1>6. \A i \in Len(Tail(w)) + 1 .. Len(Tail(t)) :
        Tail(t)[i] = t[i + 1] /\ i + 1 \in Len(w) + 1 .. Len(t)
  BY <1>1, <1>2, <1>3
<1>7. Len(Tail(w)) <= Len(Tail(t))
  BY <1>1, <1>2, <1>3 DEF Begins
<1>8. /\ \A i \in 1 .. Len(Tail(w)) : Tail(t)[i] = Tail(w)[i]
      /\ \A i \in Len(Tail(w)) + 1 .. Len(Tail(t)) : Tail(t)[i] \notin Commanding
  BY <1>5, <1>6 DEF Begins
<1>9. QED
  BY <1>2, <1>3, <1>4, <1>7, <1>8 DEF Begins

\* Nothing of the kind to do, and still nothing after the first piece.
LEMMA QuietDone ==
  ASSUME NEW t \in Seq(Work), t # <<>>, Begins(t, <<>>)
  PROVE  Head(t) \notin Commanding /\ Begins(Tail(t), <<>>)
<1>1. /\ Len(t) \in Nat \ {0} /\ Len(Tail(t)) = Len(t) - 1 /\ Head(t) = t[1]
      /\ \A i \in 1 .. Len(t) - 1 : Tail(t)[i] = t[i + 1]
  BY Taken
<1>2. Len(<<>>) = 0 /\ \A i \in 1 .. Len(t) : t[i] \notin Commanding
  BY DEF Begins
<1>3. \A i \in 1 .. Len(Tail(t)) : Tail(t)[i] = t[i + 1] /\ i + 1 \in 1 .. Len(t)
  BY <1>1
<1>4. QED
  BY <1>1, <1>2, <1>3 DEF Begins

\* Work put in front of work of no such kind.
LEMMA BeginsJoined ==
  ASSUME NEW w \in Seq(Work), NEW t \in Seq(Work), Begins(t, <<>>)
  PROVE  /\ Begins(w \o t, w)
         /\ Begins(w, <<>>) => Begins(w \o t, <<>>)
<1>1. /\ Len(w \o t) = Len(w) + Len(t) /\ Len(w) \in Nat /\ Len(t) \in Nat
      /\ \A i \in 1 .. Len(w) : (w \o t)[i] = w[i]
      /\ \A i \in 1 .. Len(t) : (w \o t)[Len(w) + i] = t[i]
  BY Joined
<1>2. Len(<<>>) = 0 /\ \A i \in 1 .. Len(t) : t[i] \notin Commanding
  BY DEF Begins
<1>3. ASSUME NEW i \in Len(w) + 1 .. Len(w \o t)
      PROVE  (w \o t)[i] \notin Commanding
  <2>1. i - Len(w) \in 1 .. Len(t) /\ i = Len(w) + (i - Len(w))
    BY <1>1
  <2>2. (w \o t)[Len(w) + (i - Len(w))] = t[i - Len(w)]
    BY <1>1, <2>1
  <2>3. QED
    BY <1>2, <2>1, <2>2
<1>4. Begins(w \o t, w)
  BY <1>1, <1>3 DEF Begins
<1>5. ASSUME Begins(w, <<>>) PROVE Begins(w \o t, <<>>)
  <2>1. \A i \in 1 .. Len(w) : w[i] \notin Commanding
    BY <1>2, <1>5 DEF Begins
  <2>2. \A i \in 1 .. Len(w \o t) : i \in 1 .. Len(w) \/ i \in Len(w) + 1 .. Len(w \o t)
    BY <1>1
  <2>3. QED
    BY <1>1, <1>2, <1>3, <2>1, <2>2 DEF Begins
<1>6. QED
  BY <1>4, <1>5

\* The pairs of a command and its log entry, piece by piece.
LEMMA Pieces ==
  /\ <<"filter_init", "gps_start", "log_start">> \in Seq(Work)
  /\ <<"gps_start", "log_start">> \in Seq(Work) /\ <<"log_start">> \in Seq(Work)
  /\ <<"gps_sleep", "log_end">> \in Seq(Work) /\ <<"log_end">> \in Seq(Work)
  /\ Tail(<<"filter_init", "gps_start", "log_start">>) = <<"gps_start", "log_start">>
  /\ Tail(<<"gps_start", "log_start">>) = <<"log_start">> /\ Tail(<<"log_start">>) = <<>>
  /\ Tail(<<"gps_sleep", "log_end">>) = <<"log_end">> /\ Tail(<<"log_end">>) = <<>>
<1>1. /\ <<"filter_init", "gps_start", "log_start">> \in Seq(Work)
      /\ <<"gps_start", "log_start">> \in Seq(Work) /\ <<"log_start">> \in Seq(Work)
      /\ <<"gps_sleep", "log_end">> \in Seq(Work) /\ <<"log_end">> \in Seq(Work)
  BY DEF Work, Storage, GpsSend
<1>2. Tail(<<"filter_init", "gps_start", "log_start">>) = <<"gps_start", "log_start">>
  OBVIOUS
<1>3. Tail(<<"gps_start", "log_start">>) = <<"log_start">>
  OBVIOUS
<1>4. Tail(<<"log_start">>) = <<>>
  OBVIOUS
<1>5. Tail(<<"gps_sleep", "log_end">>) = <<"log_end">>
  OBVIOUS
<1>6. Tail(<<"log_end">>) = <<>>
  OBVIOUS
<1>7. QED
  BY <1>1, <1>2, <1>3, <1>4, <1>5, <1>6

\* What the main task does next, and what it then still has to do.
LEMMA NextPiece ==
  ASSUME CommandInv, todo # <<>>
  PROVE  \/ Head(todo) \notin Commanding /\ Begins(Tail(todo), <<>>) /\ Told(session)
         \/ Head(todo) = "filter_init" /\ Begins(Tail(todo), <<"gps_start", "log_start">>)
         \/ Head(todo) = "gps_start" /\ Begins(Tail(todo), <<"log_start">>)
         \/ Head(todo) = "log_start" /\ Begins(Tail(todo), <<>>) /\ Told(TRUE)
         \/ Head(todo) = "gps_sleep" /\ Begins(Tail(todo), <<"log_end">>)
         \/ Head(todo) = "log_end" /\ Begins(Tail(todo), <<>>) /\ Told(FALSE)
<1>1. todo \in Seq(Work)
  BY DEF CommandInv
<1>2. CASE Begins(todo, <<>>) /\ Told(session)
  BY <1>1, <1>2, QuietDone
<1>3. CASE Begins(todo, <<"filter_init", "gps_start", "log_start">>)
  <2>1. Head(todo) = <<"filter_init", "gps_start", "log_start">>[1]
        /\ Begins(Tail(todo), Tail(<<"filter_init", "gps_start", "log_start">>))
    BY <1>1, <1>3, BeginsDone, Pieces
  <2>2. QED
    BY <2>1, Pieces
<1>4. CASE Begins(todo, <<"gps_start", "log_start">>)
  <2>1. Head(todo) = <<"gps_start", "log_start">>[1]
        /\ Begins(Tail(todo), Tail(<<"gps_start", "log_start">>))
    BY <1>1, <1>4, BeginsDone, Pieces
  <2>2. QED
    BY <2>1, Pieces
<1>5. CASE Begins(todo, <<"log_start">>) /\ Told(TRUE)
  <2>1. Head(todo) = <<"log_start">>[1] /\ Begins(Tail(todo), Tail(<<"log_start">>))
    BY <1>1, <1>5, BeginsDone, Pieces
  <2>2. QED
    BY <1>5, <2>1, Pieces
<1>6. CASE Begins(todo, <<"gps_sleep", "log_end">>)
  <2>1. Head(todo) = <<"gps_sleep", "log_end">>[1]
        /\ Begins(Tail(todo), Tail(<<"gps_sleep", "log_end">>))
    BY <1>1, <1>6, BeginsDone, Pieces
  <2>2. QED
    BY <2>1, Pieces
<1>7. CASE Begins(todo, <<"log_end">>) /\ Told(FALSE)
  <2>1. Head(todo) = <<"log_end">>[1] /\ Begins(Tail(todo), Tail(<<"log_end">>))
    BY <1>1, <1>7, BeginsDone, Pieces
  <2>2. QED
    BY <1>7, <2>1, Pieces
<1>8. QED
  BY <1>2, <1>3, <1>4, <1>5, <1>6, <1>7 DEF CommandInv

\* What an event gives the main task to do.
LEMMA NewWork ==
  /\ Begins(<<>>, <<>>)
  /\ Begins(Completed, <<>>)
  /\ \A command :
       \/ Begins(Handler(command) \o <<"reply">>, <<>>)
       \/ Begins(Handler(command) \o <<"reply">>, <<"filter_init", "gps_start", "log_start">>)
       \/ Begins(Handler(command) \o <<"reply">>, <<"gps_sleep", "log_end">>)
<1>1. Begins(<<>>, <<>>)
  BY DEF Begins
<1>2. Begins(Completed, <<>>)
  <2>1. <<"log">> \in Seq(Work) /\ <<>> \in Seq(Work) /\ <<"filter_add", "stream">> \in Seq(Work)
    BY DEF Work, Storage, Send
  <2>2. Begins(<<"log">>, <<>>)
    BY DEF Begins, Commanding
  <2>3. Begins(<<"filter_add", "stream">>, <<>>)
    BY DEF Begins, Commanding
  <2>4. /\ Begins(<<"log">> \o <<"filter_add", "stream">>, <<>>)
        /\ Begins(<<>> \o <<"filter_add", "stream">>, <<>>)
    BY <1>1, <2>1, <2>2, <2>3, BeginsJoined
  <2>5. QED
    BY <2>4 DEF Completed
<1>3. ASSUME NEW command
      PROVE  \/ Begins(Handler(command) \o <<"reply">>, <<>>)
             \/ Begins(Handler(command) \o <<"reply">>,
                       <<"filter_init", "gps_start", "log_start">>)
             \/ Begins(Handler(command) \o <<"reply">>, <<"gps_sleep", "log_end">>)
  <2>1. <<"reply">> \in Seq(Work) /\ Begins(<<"reply">>, <<>>)
    BY DEF Begins, Commanding, Work, Storage, Send
  <2>2. /\ <<"list">> \in Seq(Work) /\ Begins(<<"list">>, <<>>) /\ <<>> \in Seq(Work)
        /\ <<"store">> \in Seq(Work) /\ Begins(<<"store">>, <<>>)
    BY DEF Begins, Commanding, Work, Storage
  <2>3. /\ Begins(<<"filter_init", "gps_start", "log_start">> \o <<"reply">>,
                  <<"filter_init", "gps_start", "log_start">>)
        /\ Begins(<<"gps_sleep", "log_end">> \o <<"reply">>, <<"gps_sleep", "log_end">>)
        /\ Begins(<<"list">> \o <<"reply">>, <<>>)
        /\ Begins(<<"store">> \o <<"reply">>, <<>>)
        /\ Begins(<<>> \o <<"reply">>, <<>>)
    BY <1>1, <2>1, <2>2, Pieces, BeginsJoined
  <2>4. \/ Handler(command) = <<"filter_init", "gps_start", "log_start">>
        \/ Handler(command) = <<"gps_sleep", "log_end">>
        \/ Handler(command) = <<"list">>
        \/ Handler(command) = <<"store">>
        \/ Handler(command) = <<>>
    BY DEF Handler
  <2>5. QED
    BY <2>3, <2>4
<1>4. QED
  BY <1>1, <1>2, <1>3

\* The main task takes an event: it had nothing to do.
LEMMA TakingCommands ==
  ASSUME CommandInv,
         TakePosition \/ TakeSample \/ TakeComplete \/ TakeCommand \/ TakePipes
  PROVE  CommandInv'
<1>1. todo = <<>> /\ UNCHANGED <<gpsq, gps, session>>
  BY DEF TakePosition, TakeSample, TakeComplete, TakeCommand, TakePipes, Took, mainvars
<1>2. ASSUME NEW w \in Seq(Work), Begins(todo, w)
      PROVE  w = <<>>
  <2>1. Len(todo) = 0 /\ Len(w) \in Nat /\ Len(w) <= Len(todo)
    BY <1>1, <1>2 DEF Begins
  <2>2. QED
    BY <2>1
<1>3. Told(session)
  <2>1. /\ <<"filter_init", "gps_start", "log_start">> # <<>>
        /\ <<"gps_start", "log_start">> # <<>> /\ <<"log_start">> # <<>>
        /\ <<"gps_sleep", "log_end">> # <<>> /\ <<"log_end">> # <<>>
    OBVIOUS
  <2>2. QED
    BY <1>2, <2>1, Pieces DEF CommandInv
<1>4. todo' \in Seq(Work)
      /\ \/ Begins(todo', <<>>)
         \/ Begins(todo', <<"filter_init", "gps_start", "log_start">>)
         \/ Begins(todo', <<"gps_sleep", "log_end">>)
  <2>1. CASE TakePosition \/ TakeSample \/ TakePipes
    <3>1. todo' = <<>>
      BY <1>1, <2>1 DEF TakePosition, TakeSample, TakePipes, mainvars
    <3>2. QED
      BY <3>1, NewWork
  <2>2. CASE TakeCommand
    <3>1. todo' = Handler(Head(mainq).command) \o <<"reply">>
      BY <2>2 DEF TakeCommand
    <3>2. QED
      BY <3>1, NewWork, HandlerType
  <2>3. CASE TakeComplete
    <3>1. todo' = Completed
      BY <2>3 DEF TakeComplete
    <3>2. QED
      BY <3>1, NewWork, CompletedType
  <2>4. QED
    BY <2>1, <2>2, <2>3
<1>5. Told(session)'
  BY <1>1, <1>3 DEF Told
<1>6. QED
  BY <1>1, <1>4, <1>5 DEF CommandInv

\* The main task works.
LEMMA WorkingCommands ==
  ASSUME CommandInv,
         CommandGps \/ LogCommand \/ LogSample \/ ResetFilter \/ AddValue \/ List
         \/ Skip \/ FindOpen \/ Transmit
  PROVE  CommandInv'
<1>1. todo \in Seq(Work) /\ todo # <<>> /\ gps' = gps /\ Tail(todo) \in Seq(Work)
      /\ gpsq \in Seq(GpsEvent) /\ session \in BOOLEAN
      /\ gps \in [at : {"init", "wait", "send"}, running : BOOLEAN] /\ gps.running \in BOOLEAN
  BY Taken DEF CommandInv, CommandGps, LogCommand, LogSample, ResetFilter, AddValue,
         List, Skip, FindOpen, Looks, Transmit, Does, queues, world
<1>2. \/ Head(todo) \notin Commanding /\ Begins(Tail(todo), <<>>) /\ Told(session)
      \/ Head(todo) = "filter_init" /\ Begins(Tail(todo), <<"gps_start", "log_start">>)
      \/ Head(todo) = "gps_start" /\ Begins(Tail(todo), <<"log_start">>)
      \/ Head(todo) = "log_start" /\ Begins(Tail(todo), <<>>) /\ Told(TRUE)
      \/ Head(todo) = "gps_sleep" /\ Begins(Tail(todo), <<"log_end">>)
      \/ Head(todo) = "log_end" /\ Begins(Tail(todo), <<>>) /\ Told(FALSE)
  BY <1>1, NextPiece
<1>3. CASE CommandGps
  <2>1. Head(todo) \in {"gps_start", "gps_sleep"} /\ todo' = Tail(todo) /\ session' = session
        /\ gpsq' = Append(gpsq, IF Head(todo) = "gps_start" THEN "start" ELSE "sleep")
    BY <1>3 DEF CommandGps, Does, GpsSend
  <2>2. gpsq' \in Seq(GpsEvent)
    <3>1. (IF Head(todo) = "gps_start" THEN "start" ELSE "sleep") \in GpsEvent
      BY DEF GpsEvent
    <3>2. QED
      BY <1>1, <2>1, <3>1, Appended
  <2>3. CASE Head(todo) = "gps_start"
    <3>1. Begins(todo', <<"log_start">>)
      BY <1>2, <2>1, <2>3 DEF Commanding
    <3>2. ToldBy(Append(gpsq, IF TRUE THEN "start" ELSE "sleep"), gps.running, TRUE)
      BY <1>1, ToldLast
    <3>3. Told(TRUE)'
      BY <1>1, <2>1, <2>3, <3>2 DEF Told
    <3>4. QED
      BY <1>1, <2>1, <2>2, <3>1, <3>3 DEF CommandInv
  <2>4. CASE Head(todo) = "gps_sleep"
    <3>1. Begins(todo', <<"log_end">>)
      BY <1>2, <2>1, <2>4 DEF Commanding
    <3>2. ToldBy(Append(gpsq, IF FALSE THEN "start" ELSE "sleep"), gps.running, FALSE)
      BY <1>1, ToldLast
    <3>3. Told(FALSE)'
      BY <1>1, <2>1, <2>4, <3>2 DEF Told
    <3>4. QED
      BY <1>1, <2>1, <2>2, <3>1, <3>3 DEF CommandInv
  <2>5. QED
    BY <2>1, <2>3, <2>4
<1>4. CASE LogCommand
  <2>1. Head(todo) \in {"log_start", "log_end", "store"} /\ todo' = Tail(todo)
        /\ gpsq' = gpsq
        /\ session' = IF Head(todo) = "store" THEN session ELSE Head(todo) = "log_start"
    BY <1>4 DEF LogCommand, Does, queues
  <2>2. Begins(todo', <<>>) /\ Told(session')
    <3>1. CASE Head(todo) = "log_start"
      BY <1>2, <2>1, <3>1 DEF Commanding
    <3>2. CASE Head(todo) = "log_end"
      BY <1>2, <2>1, <3>2 DEF Commanding
    <3>3. CASE Head(todo) = "store"
      BY <1>2, <2>1, <3>3 DEF Commanding
    <3>4. QED
      BY <2>1, <3>1, <3>2, <3>3
  <2>3. Told(session)'
    BY <1>1, <2>1, <2>2 DEF Told
  <2>4. session' \in BOOLEAN
    BY <1>1, <2>1
  <2>5. QED
    BY <1>1, <2>1, <2>2, <2>3, <2>4 DEF CommandInv
<1>5. CASE LogSample \/ ResetFilter \/ AddValue \/ List \/ Skip \/ FindOpen \/ Transmit
  <2>1. gpsq' = gpsq /\ session' = session
    BY <1>5 DEF LogSample, ResetFilter, AddValue, List, Skip, FindOpen, Transmit, queues
  <2>2. ASSUME Told(session) PROVE Told(session)'
    BY <1>1, <2>1, <2>2 DEF Told
  <2>3. CASE ResetFilter
    <3>1. Head(todo) = "filter_init" /\ todo' = Tail(todo)
      BY <2>3 DEF ResetFilter, Does
    <3>2. \/ Begins(todo', <<>>) /\ Told(session)
          \/ Begins(todo', <<"gps_start", "log_start">>)
      BY <1>2, <3>1 DEF Commanding
    <3>3. QED
      BY <1>1, <2>1, <2>2, <3>1, <3>2 DEF CommandInv
  <2>4. CASE LogSample \/ AddValue \/ List \/ Skip \/ FindOpen \/ Transmit
    <3>1. Head(todo) \notin Commanding \cup {"filter_init"}
      BY <2>4 DEF LogSample, AddValue, List, Skip, FindOpen, Looks, Transmit, Does, Send, Pipe,
         Commanding
    <3>2. Begins(Tail(todo), <<>>) /\ Told(session)
      BY <1>2, <3>1 DEF Commanding
    <3>3. todo' \in Seq(Work)
          /\ (Begins(todo', <<>>) \/ Begins(todo', <<"gps_sleep", "log_end">>))
      <4>5. CASE FindOpen
        <5>1. PipeOf(Head(todo)) \in {"sensor", "config"}
          BY DEF PipeOf
        <5>2. PICK w \in Seq(Work) : w = <<PipeOf(Head(todo))>>
          <6>1. <<PipeOf(Head(todo))>> \in Seq(Work)
            BY <5>1 DEF Work, Pipe
          <6>2. QED
            BY <6>1
        <5>3. Begins(w, <<>>)
          <6>1. Len(w) = 1 /\ w[1] \in {"sensor", "config"}
            BY <5>1, <5>2
          <6>2. QED
            BY <6>1 DEF Begins, Commanding
        <5>4. w \o Tail(todo) \in Seq(Work) /\ Begins(w \o Tail(todo), <<>>)
          BY <1>1, <3>2, <5>3, Joined, BeginsJoined
        <5>5. QED
          BY <4>5, <5>2, <5>4 DEF FindOpen
      <4>1. CASE AddValue \/ Skip \/ Transmit
        BY <1>1, <3>2, <4>1 DEF AddValue, Skip, Transmit
      <4>2. CASE LogSample
        <5>1. todo' = Tail(todo) \/ todo' = <<"gps_sleep", "log_end">> \o Tail(todo)
          BY <4>2 DEF LogSample
        <5>2. /\ <<"gps_sleep", "log_end">> \o Tail(todo) \in Seq(Work)
              /\ Begins(<<"gps_sleep", "log_end">> \o Tail(todo), <<"gps_sleep", "log_end">>)
          BY <1>1, <3>2, Pieces, Joined, BeginsJoined
        <5>3. QED
          BY <1>1, <3>2, <5>1, <5>2
      <4>3. CASE List
        <5>1. PICK n \in 0 .. (IF "config" \in pipes THEN MaxListed ELSE 0) :
                   todo' = [i \in 1 .. n |-> "event"] \o Tail(todo)
          BY <4>3 DEF List
        <5>2. n \in Nat
          BY TasksAssumption
        <5>3. PICK w \in Seq(Work) : w = [i \in 1 .. n |-> "event"]
          <6>1. [i \in 1 .. n |-> "event"] \in Seq(Work)
            BY <5>2 DEF Work, Storage, Send
          <6>2. QED
            BY <6>1
        <5>4. Begins(w, <<>>)
          <6>1. Len(w) = n /\ \A i \in 1 .. n : w[i] = "event"
            BY <5>2, <5>3
          <6>2. QED
            BY <5>2, <6>1 DEF Begins, Commanding
        <5>5. w \o Tail(todo) \in Seq(Work) /\ Begins(w \o Tail(todo), <<>>)
          BY <1>1, <3>2, <5>4, Joined, BeginsJoined
        <5>6. QED
          BY <5>1, <5>3, <5>5
      <4>4. QED
        BY <2>4, <4>1, <4>2, <4>3, <4>5
    <3>4. QED
      BY <1>1, <2>1, <2>2, <3>2, <3>3 DEF CommandInv
  <2>5. QED
    BY <1>5, <2>3, <2>4
<1>6. QED
  BY <1>3, <1>4, <1>5

\* The GPS task takes a message or a command; the receiver announces.
LEMMA ReceiverCommands ==
  ASSUME CommandInv, Gps \/ Announce
  PROVE  CommandInv'
<1>1. UNCHANGED <<todo, session>> /\ todo \in Seq(Work) /\ session \in BOOLEAN
      /\ gpsq \in Seq(GpsEvent) /\ gps.running \in BOOLEAN
      /\ gps \in [at : {"init", "wait", "send"}, running : BOOLEAN]
  BY DEF CommandInv, Gps, GpsInit, GpsCommand, GpsIgnores, GpsFix, GpsPosition, Announce,
         mainvars
<1>2. gpsq' \in Seq(GpsEvent) /\ gps' \in [at : {"init", "wait", "send"}, running : BOOLEAN]
      /\ \A on \in BOOLEAN : Told(on) => Told(on)'
  <2>1. CASE Announce
    <3>1. gps' = gps /\ (gpsq' = <<"waiting">> \o gpsq \/ gpsq' = gpsq)
      BY <2>1 DEF Announce
    <3>2. <<"waiting">> \in Seq(GpsEvent)
      BY DEF GpsEvent
    <3>3. gpsq' \in Seq(GpsEvent)
      <4>1. <<"waiting">> \o gpsq \in Seq(GpsEvent)
        BY <1>1, <3>2, Joined
      <4>2. QED
        BY <1>1, <3>1, <4>1
    <3>4. \A on \in BOOLEAN : Told(on) => Told(on)'
      BY <1>1, <3>1, ToldBehindAnnouncement DEF Told
    <3>5. QED
      BY <1>1, <3>1, <3>3, <3>4
  <2>2. CASE GpsPosition
    <3>1. gps' = [gps EXCEPT !.at = "wait"] /\ gpsq' = gpsq
      BY <2>2 DEF GpsPosition
    <3>2. gps'.running = gps.running
      BY <1>1, <3>1
    <3>3. gps' \in [at : {"init", "wait", "send"}, running : BOOLEAN]
      BY <1>1, <3>1
    <3>4. QED
      BY <1>1, <3>1, <3>2, <3>3 DEF Told
  <2>3. CASE GpsInit \/ GpsIgnores \/ GpsFix \/ GpsCommand
    <3>1. gpsq # <<>> /\ gpsq' = Tail(gpsq) /\ Head(gpsq) = gpsq[1]
      BY <1>1, <2>3, Taken DEF GpsInit, GpsIgnores, GpsFix, GpsCommand, Announced
    <3>2. gpsq' \in Seq(GpsEvent)
      BY <1>1, <3>1, Taken
    <3>3. gps' \in [at : {"init", "wait", "send"}, running : BOOLEAN]
          /\ gps'.running = IF gpsq[1] = "waiting" THEN gps.running ELSE gpsq[1] = "start"
      <4>1. CASE GpsInit
        <5>1. PICK at \in {"init", "wait"} : gps' = [gps EXCEPT !.at = at]
          BY <4>1 DEF GpsInit
        <5>2. gpsq[1] = "waiting"
          BY <3>1, <4>1 DEF GpsInit
        <5>3. QED
          BY <1>1, <5>1, <5>2
      <4>2. CASE GpsIgnores
        BY <1>1, <3>1, <4>2 DEF GpsIgnores, Announced
      <4>3. CASE GpsFix
        <5>1. gps' = [gps EXCEPT !.at = "send"] /\ gpsq[1] = "waiting"
          BY <3>1, <4>3 DEF GpsFix, Announced
        <5>2. QED
          BY <1>1, <5>1
      <4>4. CASE GpsCommand
        <5>1. gps' = [gps EXCEPT !.running = (gpsq[1] = "start")] /\ gpsq[1] # "waiting"
          BY <3>1, <4>4 DEF GpsCommand
        <5>2. gps'.running = (gpsq[1] = "start")
          BY <1>1, <5>1
        <5>3. gps' \in [at : {"init", "wait", "send"}, running : BOOLEAN]
          BY <1>1, <5>1
        <5>4. QED
          BY <5>1, <5>2, <5>3
      <4>5. QED
        BY <2>3, <4>1, <4>2, <4>3, <4>4
    <3>4. gps'.running \in BOOLEAN
      BY <3>3
    <3>5. ASSUME NEW on \in BOOLEAN, Told(on) PROVE Told(on)'
      <4>1. ToldBy(gpsq, gps.running, on)
        BY <3>5 DEF Told
      <4>2. gps'.running <=> IF gpsq[1] = "waiting" THEN gps.running ELSE gpsq[1] = "start"
        BY <3>3
      <4>3. ToldBy(Tail(gpsq), gps'.running, on)
        BY <1>1, <3>1, <3>4, <4>1, <4>2, ToldAfterHead
      <4>4. QED
        BY <3>1, <4>3 DEF Told
    <3>6. QED
      BY <3>2, <3>3, <3>5
  <2>4. QED
    BY <2>1, <2>2, <2>3 DEF Gps
<1>3. \/ Begins(todo, <<>>) /\ Told(session)'
      \/ Begins(todo, <<"filter_init", "gps_start", "log_start">>)
      \/ Begins(todo, <<"gps_start", "log_start">>)
      \/ Begins(todo, <<"log_start">>) /\ Told(TRUE)'
      \/ Begins(todo, <<"gps_sleep", "log_end">>)
      \/ Begins(todo, <<"log_end">>) /\ Told(FALSE)'
  <2>1. Told(session) => Told(session)'
    BY <1>1, <1>2
  <2>2. QED
    BY <1>2, <2>1 DEF CommandInv
<1>4. QED
  BY <1>1, <1>2, <1>3 DEF CommandInv

\* For every length of the queues and any number of commands, messages and full
\* storages: once the commands to the GPS task are taken, the receiver runs just
\* while an event is open.
THEOREM TasksReceiverFollows == Spec => []ReceiverFollowsSession
<1>1. Init => CommandInv
  <2>1. SUFFICES ASSUME Init PROVE CommandInv
    OBVIOUS
  <2>2. /\ todo = <<>> /\ gpsq = <<>> /\ session = FALSE
        /\ gps = [at |-> "init", running |-> FALSE]
    BY <2>1 DEF Init
  <2>3. Told(session)
    BY <2>2 DEF Told, ToldBy
  <2>4. Begins(todo, <<>>)
    BY <2>2, NewWork
  <2>5. todo \in Seq(Work) /\ gpsq \in Seq(GpsEvent) /\ session \in BOOLEAN
    <3>1. <<>> \in Seq(Work) /\ <<>> \in Seq(GpsEvent)
      OBVIOUS
    <3>2. QED
      BY <2>2, <3>1
  <2>6. gps \in [at : {"init", "wait", "send"}, running : BOOLEAN]
    BY <2>2
  <2>7. QED
    BY <2>3, <2>4, <2>5, <2>6 DEF CommandInv
<1>2. CommandInv /\ [Next]_vars => CommandInv'
  <2>1. SUFFICES ASSUME CommandInv, [Next]_vars PROVE CommandInv'
    OBVIOUS
  <2>2. CASE Main
    BY <2>1, <2>2, TakingCommands, WorkingCommands DEF Main
  <2>3. CASE Gps \/ Announce
    BY <2>1, <2>3, ReceiverCommands
  <2>4. CASE Sensor \/ World \/ UNCHANGED vars
    <3>1. UNCHANGED <<todo, gpsq, gps, session>>
      BY <2>4 DEF Sensor, SensorReceive, SensorSend, World, ClientWrites, ClientSubscribes,
         PipeStatus, CreditReturns, LinkDrops, LinkReturns, vars, queues, mainvars
    <3>2. QED
      BY <2>1, <3>1 DEF CommandInv, Told
  <2>5. QED
    BY <2>1, <2>2, <2>3, <2>4 DEF Next
<1>3. CommandInv => ReceiverFollowsSession
  <2>1. SUFFICES ASSUME CommandInv, ~Does(GpsSend \cup {"log_start", "log_end", "filter_init"}),
                        \A i \in DOMAIN gpsq : gpsq[i] = "waiting"
                 PROVE  gps.running = session
    BY DEF ReceiverFollowsSession
  <2>2. gpsq \in Seq(GpsEvent) /\ session \in BOOLEAN /\ gps.running \in BOOLEAN
    BY <2>1 DEF CommandInv
  <2>3. \A k \in 1 .. Len(gpsq) : gpsq[k] = "waiting"
    BY <2>1, <2>2
  <2>4. CASE todo = <<>>
    <3>1. Len(todo) = 0
      BY <2>4
    <3>2. /\ Len(<<"filter_init", "gps_start", "log_start">>) = 3
          /\ Len(<<"gps_start", "log_start">>) = 2 /\ Len(<<"log_start">>) = 1
          /\ Len(<<"gps_sleep", "log_end">>) = 2 /\ Len(<<"log_end">>) = 1
      OBVIOUS
    <3>3. Told(session)
      BY <2>1, <3>1, <3>2 DEF CommandInv, Begins
    <3>4. QED
      BY <2>2, <2>3, <3>3 DEF Told, ToldBy
  <2>5. CASE todo # <<>>
    <3>1. Head(todo) \notin Commanding \cup {"filter_init"}
      BY <2>1, <2>5 DEF Does, GpsSend, Commanding
    <3>2. Told(session)
      BY <2>1, <2>5, <3>1, NextPiece DEF Commanding
    <3>3. QED
      BY <2>2, <2>3, <3>2 DEF Told, ToldBy
  <2>6. QED
    BY <2>4, <2>5
<1>4. QED
  BY <1>1, <1>2, <1>3, PTL DEF Spec

-----------------------------------------------------------------------------
(* FilterIsRecentMean.                                                     *)

\* The partial sums of g from place 1 - d on, n of them, are s.
Adds(s, g, d, n) ==
  /\ s \in [0 .. n -> Int] /\ s[0] = 0
  /\ \A i \in 1 .. n : s[i] = g[i - d] + s[i - 1]

Summing(s, g, d, n) == s[0] = 0 /\ \A i \in 1 .. n : s[i] = g[i - d] + s[i - 1]
Summed(g, d, n) == \E s : Adds(s, g, d, n)

\* h differs from g at place p alone, or lacks its first value.
Differs(h, g, d, n, p) ==
  /\ p \in 1 .. n /\ \A i \in 1 .. n : g[i - d] \in Int /\ h[i - d] \in Int
  /\ \A i \in 1 .. n : i # p => h[i - d] = g[i - d]
Shifted(h, g, n) ==
  /\ \A i \in 1 .. n + 1 : g[i] \in Int
  /\ \A i \in 1 .. n : h[i] = g[i + 1]

\* The sequence new is seq with v at its end; or also without its first value.
Grown(new, seq, v) ==
  /\ Len(new) = Len(seq) + 1 /\ new[Len(seq) + 1] = v
  /\ \A k \in 1 .. Len(seq) : new[k] = seq[k]
Slid(new, seq, v) ==
  /\ Len(new) = Len(seq) /\ new[Len(seq)] = v
  /\ \A k \in 1 .. Len(seq) - 1 : new[k] = seq[k + 1]

\* Where in the ring the k-th latest-but-oldest value stands: from slot 0 on while
\* there is room, then from the slot that is written next.
Place(n, index, k) ==
  IF n < FilterLength THEN k - 1
  ELSE IF index + k <= FilterLength THEN index + k - 1
  ELSE index + k - 1 - FilterLength

\* The ring holds the recent values in their order, and zeroes.
Holds(f, seq) ==
  /\ f.values \in [Slot -> Nat] /\ f.index \in Slot /\ f.length = Len(seq)
  /\ seq \in Seq(Nat) /\ Len(seq) <= FilterLength
  /\ \A k \in 1 .. Len(seq) : seq[k] = f.values[Place(Len(seq), f.index, k)]
  /\ Len(seq) < FilterLength =>
       /\ f.index = Len(seq)
       /\ \A i \in Slot : i >= Len(seq) => f.values[i] = 0

\* And so their sums agree.
SameSum(values, seq) ==
  \A s, t : Adds(s, values, 1, FilterLength) /\ Adds(t, seq, 0, Len(seq)) =>
    s[FilterLength] = t[Len(seq)]

\* The inductive invariant for FilterIsRecentMean.
MeanInv == TrailInv /\ Holds(filter, recent) /\ SameSum(filter.values, recent)

\* Induction over a set instead of a formula.
LEMMA SetInduction ==
  ASSUME NEW S, 0 \in S, \A n \in Nat : n \in S => n + 1 \in S
  PROVE  Nat \subseteq S
<1> SUFFICES ASSUME Nat \ S # {} PROVE FALSE
  OBVIOUS
<1>1. PICK m \in Nat \ S : \A k \in Nat \ S : <<k, m>> \notin OpToRel(<, Nat)
  BY WFMin, NatLessThanWellFounded, Zenon
<1>2. \A k \in Nat \ S : ~(k < m)
  BY <1>1 DEF OpToRel
<1>3. m # 0 /\ m - 1 \in Nat /\ m - 1 < m
  OBVIOUS
<1>4. m - 1 \in S
  BY <1>2, <1>3
<1> QED
  BY <1>3, <1>4

\* There are partial sums.
LEMMA AddsExist ==
  ASSUME NEW g, NEW d \in {0, 1}, NEW n \in Nat, \A i \in 1 .. n : g[i - d] \in Int
  PROVE  Summed(g, d, n)
<1> DEFINE S == {k \in Nat : k <= n => \E s : Adds(s, g, d, k)}
<1>1. 0 \in S
  <2>1. Adds([i \in 0 .. 0 |-> 0], g, d, 0)
    BY DEF Adds
  <2> QED
    BY <2>1
<1>2. ASSUME NEW k \in Nat, k \in S
      PROVE  k + 1 \in S
  <2> SUFFICES ASSUME k + 1 <= n PROVE \E s : Adds(s, g, d, k + 1)
    OBVIOUS
  <2>1. PICK s : Adds(s, g, d, k)
    BY <1>2
  <2> DEFINE t == [i \in 0 .. k + 1 |-> IF i <= k THEN s[i] ELSE g[k + 1 - d] + s[k]]
  <2>2. s[k] \in Int /\ g[k + 1 - d] \in Int
    <3>1. PICK i \in 1 .. n : i = k + 1
      OBVIOUS
    <3>2. g[i - d] \in Int
      OBVIOUS
    <3> QED
      BY <2>1, <3>1, <3>2 DEF Adds
  <2>3. t \in [0 .. k + 1 -> Int]
    BY <2>1, <2>2 DEF Adds
  <2>4. t[0] = 0 /\ \A i \in 1 .. k + 1 : t[i] = g[i - d] + t[i - 1]
    <3>1. t[0] = 0
      BY <2>1 DEF Adds
    <3>2. ASSUME NEW i \in 1 .. k + 1
          PROVE  t[i] = g[i - d] + t[i - 1]
      <4>1. CASE i <= k
        BY <2>1, <4>1 DEF Adds
      <4>2. CASE i = k + 1
        BY <4>2
      <4> QED
        BY <4>1, <4>2
    <3> QED
      BY <3>1, <3>2
  <2> QED
    BY <2>3, <2>4 DEF Adds
<1>3. n \in S
  <2> HIDE DEF S
  <2> QED
    BY <1>1, <1>2, SetInduction
<1> QED
  BY <1>3 DEF Summed

\* The sums of two sequences that differ at one place, p.
LEMMA AddsChanged ==
  ASSUME NEW s, NEW t, NEW g, NEW h, NEW d \in {0, 1}, NEW n \in Nat,
         Adds(s, g, d, n), Adds(t, h, d, n), NEW p,
         Differs(h, g, d, n, p)
  PROVE  t[n] = s[n] + (h[p - d] - g[p - d])
<1>4. /\ p \in 1 .. n /\ \A i \in 1 .. n : g[i - d] \in Int /\ h[i - d] \in Int
      /\ \A i \in 1 .. n : i # p => h[i - d] = g[i - d]
  BY DEF Differs
<1>0. PICK e \in Int : e = h[p - d] - g[p - d]
  BY <1>4
<1> DEFINE S == {k \in Nat : k <= n => t[k] = IF k < p THEN s[k] ELSE s[k] + e}
<1>1. 0 \in S
  BY <1>4 DEF Adds
<1>2. ASSUME NEW k \in Nat, k \in S
      PROVE  k + 1 \in S
  <2> SUFFICES ASSUME k + 1 <= n
               PROVE  t[k + 1] = IF k + 1 < p THEN s[k + 1] ELSE s[k + 1] + e
    OBVIOUS
  <2>1. t[k] = IF k < p THEN s[k] ELSE s[k] + e
    BY <1>2
  <2>2. PICK i \in 1 .. n : i = k + 1
    OBVIOUS
  <2>3. s[k] \in Int /\ g[i - d] \in Int
    <3>1. s[k] \in Int
      BY DEF Adds
    <3>2. g[i - d] \in Int
      BY <1>4
    <3> QED
      BY <3>1, <3>2
  <2>4. s[i] = g[i - d] + s[i - 1] /\ t[i] = h[i - d] + t[i - 1]
    BY DEF Adds
  <2>5. h[i - d] = IF i = p THEN g[i - d] + e ELSE g[i - d]
    <3>1. g[i - d] \in Int /\ h[i - d] \in Int /\ (i # p => h[i - d] = g[i - d])
      BY <1>4
    <3>2. i = p => e = h[i - d] - g[i - d]
      BY <1>0
    <3> QED
      BY <3>1, <3>2
  <2>6. i - 1 = k
    BY <2>2
  <2> QED
    BY <1>4, <2>1, <2>2, <2>3, <2>4, <2>5, <2>6
<1>3. n \in S
  <2> HIDE DEF S
  <2> QED
    BY <1>1, <1>2, SetInduction
<1> QED
  BY <1>0, <1>3, <1>4

\* The sums of a sequence that lost its first value.
LEMMA AddsShifted ==
  ASSUME NEW s, NEW t, NEW g, NEW h, NEW n \in Nat,
         Adds(s, g, 0, n + 1), Adds(t, h, 0, n), Shifted(h, g, n)
  PROVE  t[n] = s[n + 1] - g[1]
<1>4. /\ \A i \in 1 .. n + 1 : g[i] \in Int
      /\ \A i \in 1 .. n : h[i] = g[i + 1]
  BY DEF Shifted
<1> DEFINE S == {k \in Nat : k <= n => t[k] = s[k + 1] - g[1]}
<1>1. 0 \in S
  <2>1. s[1] = g[1] + s[0] /\ s[0] = 0 /\ t[0] = 0
    BY DEF Adds
  <2>2. g[1] \in Int
    BY <1>4
  <2> QED
    BY <2>1, <2>2
<1>2. ASSUME NEW k \in Nat, k \in S
      PROVE  k + 1 \in S
  <2> SUFFICES ASSUME k + 1 <= n PROVE t[k + 1] = s[k + 1 + 1] - g[1]
    OBVIOUS
  <2>1. k + 1 \in 1 .. n /\ k + 1 + 1 \in 1 .. n + 1
    OBVIOUS
  <2>2. t[k + 1] = h[k + 1] + t[k] /\ s[k + 1 + 1] = g[k + 1 + 1] + s[k + 1]
    BY <2>1 DEF Adds
  <2>3. h[k + 1] = g[k + 1 + 1] /\ g[k + 1 + 1] \in Int /\ g[1] \in Int /\ s[k + 1] \in Int
    BY <1>4, <2>1 DEF Adds
  <2>4. t[k] = s[k + 1] - g[1]
    BY <1>2
  <2> QED
    BY <2>2, <2>3, <2>4
<1>3. n \in S
  <2> HIDE DEF S
  <2> QED
    BY <1>1, <1>2, SetInduction
<1> QED
  BY <1>3

\* The sums of the same values are the same.
LEMMA AddsSame ==
  ASSUME NEW s, NEW t, NEW g, NEW h, NEW d \in {0, 1}, NEW n \in Nat,
         Adds(s, g, d, n), Adds(t, h, d, n), \A i \in 1 .. n : h[i - d] = g[i - d]
  PROVE  t[n] = s[n]
<1> DEFINE S == {k \in Nat : k <= n => t[k] = s[k]}
<1>1. 0 \in S
  BY DEF Adds
<1>2. ASSUME NEW k \in Nat, k \in S
      PROVE  k + 1 \in S
  <2> SUFFICES ASSUME k + 1 <= n PROVE t[k + 1] = s[k + 1]
    OBVIOUS
  <2>1. PICK i \in 1 .. n : i = k + 1
    OBVIOUS
  <2>2. s[i] = g[i - d] + s[i - 1] /\ t[i] = h[i - d] + t[i - 1] /\ h[i - d] = g[i - d]
    BY DEF Adds
  <2>3. i - 1 = k
    BY <2>1
  <2> QED
    BY <1>2, <2>1, <2>2, <2>3
<1>3. n \in S
  <2> HIDE DEF S
  <2> QED
    BY <1>1, <1>2, SetInduction
<1> QED
  BY <1>3

\* The slot after a slot.
LEMMA NextSlot ==
  ASSUME NEW i \in Slot
  PROVE  (i + 1) % FilterLength = IF i + 1 = FilterLength THEN 0 ELSE i + 1
BY FilterAssumption DEF Slot

\* The recent values with one more, of which the oldest may have to go.
LEMMA Pushed ==
  ASSUME NEW seq \in Seq(Nat), Len(seq) <= FilterLength, NEW v \in Nat
  PROVE  /\ Last(Append(seq, v), FilterLength) \in Seq(Nat)
         /\ Len(seq) < FilterLength => Grown(Last(Append(seq, v), FilterLength), seq, v)
         /\ Len(seq) = FilterLength => Slid(Last(Append(seq, v), FilterLength), seq, v)
<1>1. PICK n \in Nat : n = Len(seq)
  OBVIOUS
<1>2. PICK app : app = Append(seq, v)
  OBVIOUS
<1>3. /\ app \in Seq(Nat) /\ Len(app) = n + 1 /\ app[n + 1] = v
      /\ \A k \in 1 .. n : app[k] = seq[k]
  BY <1>1, <1>2
<1>4. FilterLength \in Nat \ {0}
  BY FilterAssumption
<1>5. CASE n < FilterLength
  <2>1. Last(app, FilterLength) = SubSeq(app, 1, n + 1)
    <3>1. ~(Len(app) > FilterLength)
      BY <1>3, <1>4, <1>5
    <3> QED
      BY <1>3, <3>1 DEF Last
  <2>2. SubSeq(app, 1, n + 1) = app
    BY <1>3
  <2>3. Grown(app, seq, v)
    BY <1>1, <1>3 DEF Grown
  <2>4. Len(seq) < FilterLength /\ Len(seq) # FilterLength
    BY <1>1, <1>4, <1>5
  <2>5. Last(app, FilterLength) = app
    BY <2>1, <2>2
  <2> QED
    BY <1>2, <1>3, <2>3, <2>4, <2>5, Zenon
<1>6. CASE n = FilterLength
  <2>1. Last(app, FilterLength) = SubSeq(app, 2, n + 1)
    <3>1. Len(app) > FilterLength /\ Len(app) - FilterLength = 1
      BY <1>3, <1>4, <1>6
    <3> QED
      BY <1>3, <3>1 DEF Last
  <2>2. PICK new : new = SubSeq(app, 2, n + 1)
    OBVIOUS
  <2>3. new \in Seq(Nat) /\ Len(new) = n /\ \A k \in 1 .. n : new[k] = app[k + 1]
    BY <1>3, <1>4, <1>6, <2>2
  <2>4. Slid(new, seq, v)
    BY <1>1, <1>3, <1>4, <1>6, <2>3 DEF Slid
  <2>5. ~(Len(seq) < FilterLength) /\ Len(seq) = FilterLength
    BY <1>1, <1>4, <1>6
  <2>6. Last(app, FilterLength) = new
    BY <2>1, <2>2
  <2> QED
    BY <1>2, <2>3, <2>4, <2>5, <2>6, Zenon
<1>7. n < FilterLength \/ n = FilterLength
  BY <1>1, <1>4
<1> QED
  BY <1>5, <1>6, <1>7, Zenon

\* What the filter holds once a value was added.
LEMMA AddHolds ==
  ASSUME NEW f, NEW seq, Holds(f, seq), NEW v \in Nat
  PROVE  Holds(FilterAdd(f, v), Last(Append(seq, v), FilterLength))
<1> DEFINE n == Len(seq)  i == f.index  g == FilterAdd(f, v)
           new == Last(Append(seq, v), FilterLength)
<1>1. /\ n \in 0 .. FilterLength /\ FilterLength \in Nat \ {0} /\ i \in 0 .. FilterLength - 1
      /\ seq \in Seq(Nat)
  BY FilterAssumption DEF Holds, Slot
<1>2. /\ g.values = [f.values EXCEPT ![i] = v] /\ g.values \in [Slot -> Nat]
      /\ g.length = IF n < FilterLength THEN n + 1 ELSE n
      /\ g.index = IF i + 1 = FilterLength THEN 0 ELSE i + 1
      /\ g.index \in Slot
  <2>1. i \in Slot /\ f.values \in [Slot -> Nat] /\ f.length = n
    BY DEF Holds
  <2>2. g.index = IF i + 1 = FilterLength THEN 0 ELSE i + 1
    BY <2>1, NextSlot DEF FilterAdd
  <2> QED
    BY <1>1, <2>1, <2>2, SMTT(30) DEF FilterAdd, Slot
<1>3. /\ f.values \in [Slot -> Nat]
      /\ \A k \in 1 .. n : seq[k] = f.values[Place(n, i, k)]
      /\ n < FilterLength => i = n /\ \A j \in Slot : j >= n => f.values[j] = 0
  BY DEF Holds
<1>6. /\ new \in Seq(Nat)
      /\ n < FilterLength => Grown(new, seq, v)
      /\ n = FilterLength => Slid(new, seq, v)
  <2>1. Len(seq) <= FilterLength
    BY <1>1
  <2> HIDE DEF Grown
  <2> QED
    BY <1>1, <2>1, Pushed
<1> HIDE DEF n, i, g, new
<1>4. CASE n < FilterLength
  <2>2. /\ new \in Seq(Nat) /\ Len(new) = n + 1 /\ new[n + 1] = v
        /\ \A k \in 1 .. n : new[k] = seq[k]
    BY <1>4, <1>6 DEF Grown, n
  <2>3. ASSUME NEW k \in 1 .. n + 1
        PROVE  new[k] = g.values[Place(n + 1, g.index, k)]
    <3>1. Place(n + 1, g.index, k) = k - 1
      BY <1>1, <1>2, <1>3, <1>4 DEF Place
    <3>2. k - 1 \in Slot
      BY <1>1, <1>4 DEF Slot
    <3>3. CASE k = n + 1
      BY <1>1, <1>2, <1>3, <1>4, <2>2, <3>1, <3>2, <3>3
    <3>4. CASE k \in 1 .. n
      <4>1. Place(n, i, k) = k - 1 /\ k - 1 # i
        BY <1>1, <1>3, <1>4, <3>4 DEF Place
      <4> QED
        BY <1>2, <1>3, <2>2, <3>1, <3>2, <3>4, <4>1
    <3> QED
      BY <1>1, <3>3, <3>4
  <2>4. ASSUME n + 1 < FilterLength
        PROVE  g.index = n + 1 /\ \A j \in Slot : j >= n + 1 => g.values[j] = 0
    BY <1>1, <1>2, <1>3, <1>4, <2>4 DEF Slot
  <2>5. g.length = n + 1 /\ n + 1 <= FilterLength
    BY <1>1, <1>2, <1>4
  <2>6. Holds(g, new)
    BY <1>1, <1>2, <2>2, <2>3, <2>4, <2>5 DEF Holds
  <2> QED
    BY <2>6 DEF g, new
<1>5. CASE n = FilterLength
  <2>2. /\ new \in Seq(Nat) /\ Len(new) = n /\ new[n] = v
        /\ \A k \in 1 .. n - 1 : new[k] = seq[k + 1]
    BY <1>5, <1>6 DEF Slid, n
  <2>3. ASSUME NEW k \in 1 .. n
        PROVE  new[k] = g.values[Place(n, g.index, k)]
    <3>1. CASE k = n
      <4>1. Place(n, g.index, k) = i /\ i \in Slot
        BY <1>1, <1>2, <1>5, <3>1 DEF Place, Slot
      <4> QED
        BY <1>2, <1>3, <2>2, <3>1, <4>1
    <3>2. CASE k \in 1 .. n - 1
      <4>1. /\ Place(n, g.index, k) = Place(n, i, k + 1) /\ Place(n, i, k + 1) # i
            /\ Place(n, i, k + 1) \in Slot
        BY <1>1, <1>2, <1>5, <3>2 DEF Place, Slot
      <4>2. seq[k + 1] = f.values[Place(n, i, k + 1)]
        BY <1>1, <1>3, <3>2
      <4> QED
        BY <1>2, <1>3, <2>2, <3>2, <4>1, <4>2
    <3> QED
      BY <1>1, <1>5, <3>1, <3>2
  <2>4. Holds(g, new)
    BY <1>1, <1>2, <1>5, <2>2, <2>3 DEF Holds
  <2> QED
    BY <2>4 DEF g, new
<1> QED
  BY <1>1, <1>4, <1>5

\* A value at the end of a sequence is added to its sums.
LEMMA AddsAppended ==
  ASSUME NEW seq \in Seq(Nat), NEW v \in Nat, NEW s, NEW t, Adds(s, seq, 0, Len(seq)),
         Adds(t, Append(seq, v), 0, Len(seq) + 1)
  PROVE  t[Len(seq) + 1] = s[Len(seq)] + v
<1> DEFINE n == Len(seq)  app == Append(seq, v)  u == [i \in 0 .. n |-> t[i]]
<1>1. n \in Nat /\ app[n + 1] = v /\ \A i \in 1 .. n : app[i] = seq[i]
  OBVIOUS
<1>2. Adds(u, app, 0, n)
  BY <1>1 DEF Adds
<1>3. t[n + 1] = app[n + 1] + t[n] /\ t[n] \in Int
  BY <1>1, SMTT(30) DEF Adds
<1>4. u[n] = s[n]
  <2> HIDE DEF n, app, u
  <2>1. \A i \in 1 .. n : app[i - 0] = seq[i - 0]
    BY <1>1
  <2>2. Adds(s, seq, 0, n)
    BY DEF n
  <2> QED
    BY <1>1, <1>2, <2>1, <2>2, AddsSame
<1> QED
  BY <1>1, <1>3, <1>4

\* The sum of the ring is that of the recent values.
LEMMA AddSums ==
  ASSUME NEW f, NEW seq, Holds(f, seq), SameSum(f.values, seq), NEW v \in Nat
  PROVE  SameSum(FilterAdd(f, v).values, Last(Append(seq, v), FilterLength))
<1> DEFINE n == Len(seq)  i == f.index  w == FilterAdd(f, v).values
           app == Append(seq, v)
           new == Last(app, FilterLength)
<1>1. /\ n \in 0 .. FilterLength /\ FilterLength \in Nat \ {0} /\ i \in 0 .. FilterLength - 1
      /\ seq \in Seq(Nat) /\ f.values \in [Slot -> Nat] /\ i \in Slot
      /\ w = [f.values EXCEPT ![i] = v]
  BY FilterAssumption DEF Holds, Slot, FilterAdd
<1>2. /\ \A k \in 1 .. n : seq[k] = f.values[Place(n, i, k)]
      /\ n < FilterLength => i = n /\ f.values[i] = 0
  BY <1>1 DEF Holds
<1>11. /\ app \in Seq(Nat) /\ app[n + 1] = v /\ \A k \in 1 .. n : app[k] = seq[k]
  BY <1>1
<1>12. /\ n < FilterLength => Grown(new, seq, v)
       /\ n = FilterLength => Slid(new, seq, v)
  <2>1. Len(seq) <= FilterLength
    BY <1>1
  <2> QED
    BY <1>1, <2>1, Pushed
<1>13. w \in [Slot -> Nat]
  BY <1>1
<1>3. PICK s : Adds(s, f.values, 1, FilterLength)
  <2>1. \A k \in 1 .. FilterLength : f.values[k - 1] \in Int
    BY <1>1 DEF Slot
  <2>2. Summed(f.values, 1, FilterLength)
    BY <1>1, <2>1, AddsExist
  <2> QED
    BY <2>2 DEF Summed
<1>4. PICK t : Adds(t, seq, 0, n)
  <2>1. \A k \in 1 .. n : seq[k - 0] \in Int
    BY <1>1
  <2>2. Summed(seq, 0, n)
    BY <1>1, <2>1, AddsExist
  <2> QED
    BY <2>2 DEF Summed
<1>5. s[FilterLength] = t[n] /\ s[FilterLength] \in Int
  <2>1. s[FilterLength] = t[n]
    BY <1>3, <1>4 DEF SameSum
  <2> QED
    BY <1>1, <1>3, <2>1 DEF Adds
<1> SUFFICES ASSUME NEW x, NEW y, Adds(x, w, 1, FilterLength), Adds(y, new, 0, Len(new))
             PROVE  x[FilterLength] = y[Len(new)]
  BY DEF SameSum
<1>7. PICK u : Adds(u, app, 0, n + 1)
  <2>1. \A k \in 1 .. n + 1 : app[k - 0] \in Int
    BY <1>1, <1>11
  <2> HIDE DEF app, n
  <2>2. Summed(app, 0, n + 1)
    BY <1>1, <2>1, AddsExist
  <2> QED
    BY <2>2 DEF Summed
<1>8. u[n + 1] = t[n] + v
  BY <1>1, <1>4, <1>7, AddsAppended
<1>14. Grown(new, seq, v) => /\ Len(new) = n + 1 /\ new[n + 1] = v
                             /\ \A k \in 1 .. n : new[k] = seq[k]
  BY DEF Grown
<1>15. Slid(new, seq, v) => /\ Len(new) = n /\ new[n] = v
                            /\ \A k \in 1 .. n - 1 : new[k] = seq[k + 1]
  BY DEF Slid
<1>16. Len(app) = n + 1 /\ app \in Seq(Nat)
  BY <1>1
<1> HIDE DEF n, i, app, new, w
<1>6. x[FilterLength] = s[FilterLength] + (v - f.values[i])
  <2>1. PICK p \in 1 .. FilterLength : p = i + 1
    BY <1>1
  <2>2. \A k \in 1 .. FilterLength :
          f.values[k - 1] \in Int /\ w[k - 1] \in Int
    BY <1>1, <1>13, <2>1 DEF Slot
  <2>5. \A k \in 1 .. FilterLength : k # p => w[k - 1] = f.values[k - 1]
    BY <1>1, <1>13, <2>1 DEF Slot
  <2>3. x[FilterLength] = s[FilterLength] + (w[p - 1] - f.values[p - 1])
    <3>1. Differs(w, f.values, 1, FilterLength, p)
      BY <2>2, <2>5 DEF Differs
    <3>2. FilterLength \in Nat
      BY <1>1
    <3> QED
      BY <1>3, <3>1, <3>2, AddsChanged
  <2>4. p - 1 = i /\ w[i] = v
    BY <1>1, <2>1
  <2> QED
    BY <2>3, <2>4
<1>9. CASE n < FilterLength
  <2>1. /\ Len(new) = n + 1 /\ new[n + 1] = app[n + 1]
        /\ \A k \in 1 .. n : new[k] = app[k]
    BY <1>9, <1>11, <1>12, <1>14
  <2>2. Len(new) = n + 1 /\ \A k \in 1 .. n + 1 : new[k - 0] = app[k - 0]
    <3>1. ASSUME NEW k \in 1 .. n + 1
          PROVE  new[k - 0] = app[k - 0]
      <4>1. n \in Nat
        BY <1>1
      <4>2. k - 0 = k /\ (k \in 1 .. n \/ k = n + 1)
        BY <4>1
      <4> QED
        BY <2>1, <4>2
    <3> QED
      BY <2>1, <3>1
  <2>3. y[n + 1] = u[n + 1]
    <3>1. n + 1 \in Nat
      BY <1>1
    <3> QED
      BY <1>7, <2>2, <3>1, AddsSame
  <2> QED
    BY <1>1, <1>2, <1>5, <1>6, <1>8, <1>9, <2>2, <2>3
<1>10. CASE n = FilterLength
  <2>2. /\ Len(new) = n /\ \A k \in 1 .. n : new[k] = app[k + 1]
        /\ \A k \in 1 .. n + 1 : app[k] \in Int
        /\ app[1] = seq[1]
    <3>1. Len(new) = n /\ new[n] = v /\ \A k \in 1 .. n - 1 : new[k] = seq[k + 1]
      BY <1>10, <1>12, <1>15
    <3>2. \A k \in 1 .. n : new[k] = app[k + 1]
      BY <1>1, <1>11, <3>1
    <3>3. \A k \in 1 .. n + 1 : app[k] \in Int
      BY <1>1, <1>11, <1>16
    <3>4. app[1] = seq[1]
      BY <1>1, <1>10, <1>11
    <3> QED
      BY <3>1, <3>2, <3>3, <3>4
  <2>3. y[n] = u[n + 1] - app[1]
    <3>1. Shifted(new, app, n)
      BY <2>2 DEF Shifted
    <3>2. Adds(u, app, 0, n + 1) /\ Adds(y, new, 0, n) /\ n \in Nat
      BY <1>1, <1>7, <2>2
    <3> QED
      BY <3>1, <3>2, AddsShifted
  <2>4. seq[1] = f.values[i]
    <3>1. Place(n, i, 1) = i
      BY <1>1, <1>10 DEF Place
    <3> QED
      BY <1>1, <1>2, <1>10, <3>1
  <2>5. f.values[i] \in Int
    BY <1>1
  <2> QED
    BY <1>1, <1>5, <1>6, <1>8, <1>10, <2>2, <2>3, <2>4, <2>5
<1> QED
  BY <1>1, <1>9, <1>10

\* A filter without values.
LEMMA InitHolds == Holds(FilterInit, <<>>) /\ SameSum(FilterInit.values, <<>>)
<1>1. FilterLength \in Nat \ {0} /\ 0 \in Slot
  BY FilterAssumption DEF Slot
<1>2. Holds(FilterInit, <<>>)
  BY <1>1 DEF Holds, FilterInit
<1> SUFFICES ASSUME NEW s, NEW t, Adds(s, FilterInit.values, 1, FilterLength),
                    Adds(t, <<>>, 0, 0)
             PROVE  s[FilterLength] = t[0]
  BY <1>2 DEF SameSum
<1> DEFINE S == {k \in Nat : k <= FilterLength => s[k] = 0}
<1>3. 0 \in S
  BY DEF Adds
<1>4. ASSUME NEW k \in Nat, k \in S
      PROVE  k + 1 \in S
  <2> SUFFICES ASSUME k + 1 <= FilterLength PROVE s[k + 1] = 0
    OBVIOUS
  <2>1. PICK i \in 1 .. FilterLength : i = k + 1
    BY <1>1
  <2>2. s[i] = FilterInit.values[i - 1] + s[i - 1]
    BY DEF Adds
  <2>3. FilterInit.values[i - 1] = 0
    BY <1>1 DEF FilterInit, Slot
  <2>4. i - 1 = k /\ s[k] = 0
    BY <1>1, <1>4, <2>1
  <2> QED
    BY <2>1, <2>2, <2>3, <2>4
<1>5. FilterLength \in S
  <2> HIDE DEF S
  <2> QED
    BY <1>1, <1>3, <1>4, SetInduction
<1> QED
  BY <1>5 DEF Adds

\* The filter restarts, gets a value, or is left alone.
LEMMA MeanStep ==
  ASSUME MeanInv, [Next]_vars
  PROVE  MeanInv'
<1>1. TrailInv'
  BY TrailStep DEF MeanInv
<1>2. CASE ResetFilter
  <2>1. filter' = FilterInit /\ recent' = <<>>
    BY <1>2 DEF ResetFilter
  <2>2. Holds(FilterInit, <<>>) /\ SameSum(FilterInit.values, <<>>)
    BY InitHolds
  <2> QED
    BY <1>1, <2>1, <2>2 DEF MeanInv
<1>3. CASE AddValue
  <2>1. PICK v : v = packet["baro"]
    OBVIOUS
  <2>2. v \in Nat
    BY <2>1 DEF MeanInv, TrailInv, Shapes
  <2>3. filter' = FilterAdd(filter, v) /\ recent' = Last(Append(recent, v), FilterLength)
    BY <1>3, <2>1 DEF AddValue
  <2>4. /\ Holds(FilterAdd(filter, v), Last(Append(recent, v), FilterLength))
        /\ SameSum(FilterAdd(filter, v).values, Last(Append(recent, v), FilterLength))
    BY <2>2, AddHolds, AddSums DEF MeanInv
  <2> QED
    BY <1>1, <2>3, <2>4 DEF MeanInv
<1>4. CASE ~ResetFilter /\ ~AddValue
  <2>1. filter' = filter /\ recent' = recent
    BY <1>4 DEF Next, Main, Sensor, Gps, World, vars, mainvars, TakePosition, TakeSample,
       TakeComplete, TakeCommand, TakePipes, CommandGps, LogCommand, LogSample, List, Skip,
       FindOpen, Transmit, SensorReceive, SensorSend, Announce, GpsInit, GpsCommand, GpsIgnores, GpsFix,
       GpsPosition, ClientWrites, ClientSubscribes, PipeStatus, CreditReturns, LinkDrops,
       LinkReturns
  <2> QED
    BY <1>1, <2>1 DEF MeanInv
<1> QED
  BY <1>2, <1>3, <1>4

\* Partial sums are what their equations say.
LEMMA SummingSame ==
  ASSUME NEW s, NEW t, NEW g, NEW d \in {0, 1}, NEW n \in Nat,
         Adds(s, g, d, n), Summing(t, g, d, n)
  PROVE  t[n] = s[n]
<1> DEFINE S == {k \in Nat : k <= n => t[k] = s[k]}
<1>1. 0 \in S
  BY DEF Adds, Summing
<1>2. ASSUME NEW k \in Nat, k \in S
      PROVE  k + 1 \in S
  <2> SUFFICES ASSUME k + 1 <= n PROVE t[k + 1] = s[k + 1]
    OBVIOUS
  <2>1. PICK i \in 1 .. n : i = k + 1
    OBVIOUS
  <2>2. s[i] = g[i - d] + s[i - 1] /\ t[i] = g[i - d] + t[i - 1]
    BY DEF Adds, Summing
  <2>3. i - 1 = k
    BY <2>1
  <2> QED
    BY <1>2, <2>1, <2>2, <2>3
<1>3. n \in S
  <2> HIDE DEF S
  <2> QED
    BY <1>1, <1>2, SetInduction
<1> QED
  BY <1>3

\* A sum that is defined by the one before is the last of the partial sums.
LEMMA RingSum ==
  ASSUME NEW g, \A i \in 1 .. FilterLength : g[i - 1] \in Int
  PROVE  \E s : Adds(s, g, 1, FilterLength) /\ Total(g) = s[FilterLength]
<1> DEFINE n == FilterLength
           Sums(h) == [i \in 0 .. n |-> IF i = 0 THEN 0 ELSE g[i - 1] + h[i - 1]]
           sum == CHOOSE h : h = Sums(h)
<1>1. n \in Nat
  BY FilterAssumption
<1>2. PICK s : Adds(s, g, 1, n)
  <2>1. Summed(g, 1, n)
    BY <1>1, AddsExist
  <2> QED
    BY <2>1 DEF Summed
<1>3. s = Sums(s)
  <2>1. s = [i \in 0 .. n |-> s[i]]
    BY <1>2 DEF Adds
  <2>2. ASSUME NEW i \in 0 .. n
        PROVE  s[i] = IF i = 0 THEN 0 ELSE g[i - 1] + s[i - 1]
    <3>1. i = 0 \/ i \in 1 .. n
      BY <1>1
    <3> QED
      BY <1>2, <3>1 DEF Adds
  <2> QED
    BY <2>1, <2>2
<1>4. sum = Sums(sum)
  <2> HIDE DEF Sums
  <2> QED
    BY <1>3
<1>5. Total(g) = sum[n]
  BY DEF Total
<1> HIDE DEF sum
<1>6. Summing(sum, g, 1, n)
  <2>1. sum[0] = 0
    BY <1>1, <1>4
  <2>2. ASSUME NEW i \in 1 .. n
        PROVE  sum[i] = g[i - 1] + sum[i - 1]
    BY <1>1, <1>4, <2>2
  <2> QED
    BY <2>1, <2>2 DEF Summing
<1>7. sum[n] = s[n]
  BY <1>1, <1>2, <1>6, SummingSame
<1> QED
  BY <1>2, <1>5, <1>7

\* The sum of the recent values likewise.
LEMMA SequenceSum ==
  ASSUME NEW seq \in Seq(Nat)
  PROVE  LET Sum[i \in 0 .. Len(seq)] == IF i = 0 THEN 0 ELSE seq[i] + Sum[i - 1]
         IN  \E s : Adds(s, seq, 0, Len(seq)) /\ Sum[Len(seq)] = s[Len(seq)]
<1> DEFINE n == Len(seq)
           Sums(h) == [i \in 0 .. n |-> IF i = 0 THEN 0 ELSE seq[i] + h[i - 1]]
           sum == CHOOSE h : h = Sums(h)
<1>1. n \in Nat /\ \A i \in 1 .. n : seq[i] \in Int /\ seq[i - 0] \in Int
  OBVIOUS
<1>2. PICK s : Adds(s, seq, 0, n)
  <2>1. Summed(seq, 0, n)
    BY <1>1, AddsExist
  <2> QED
    BY <2>1 DEF Summed
<1>3. s = Sums(s)
  <2>1. s = [i \in 0 .. n |-> s[i]]
    BY <1>2 DEF Adds
  <2>2. ASSUME NEW i \in 0 .. n
        PROVE  s[i] = IF i = 0 THEN 0 ELSE seq[i] + s[i - 1]
    <3>1. i = 0 \/ i \in 1 .. n
      BY <1>1
    <3> QED
      BY <1>2, <3>1 DEF Adds
  <2> QED
    BY <2>1, <2>2
<1>4. sum = Sums(sum)
  <2> HIDE DEF Sums
  <2> QED
    BY <1>3
<1> SUFFICES sum[n] = s[n]
  BY <1>2
<1> HIDE DEF sum
<1>6. Summing(sum, seq, 0, n)
  <2>1. sum[0] = 0
    BY <1>1, <1>4
  <2>2. ASSUME NEW i \in 1 .. n
        PROVE  sum[i] = seq[i] + sum[i - 1]
    BY <1>1, <1>4, <2>2, SMTT(30)
  <2> QED
    BY <2>1, <2>2 DEF Summing
<1> QED
  BY <1>1, <1>2, <1>6, SummingSame

\* For every length of the filter and of the queues, and any number of events: the
\* filter holds the latest pressures since the event started, at most FILTER_LEN of
\* them, and its quotient is their mean, in whichever slot of the ring they are.
THEOREM TasksFilterMean == Spec => []FilterIsRecentMean
<1>1. Init => MeanInv
  <2> SUFFICES ASSUME Init PROVE MeanInv
    OBVIOUS
  <2>1. filter = FilterInit /\ recent = <<>>
    BY DEF Init
  <2> QED
    BY <2>1, InitHolds, TrailInit DEF MeanInv
<1>2. MeanInv /\ [Next]_vars => MeanInv'
  BY MeanStep
<1>3. MeanInv => FilterIsRecentMean
  <2> SUFFICES ASSUME MeanInv PROVE FilterIsRecentMean
    OBVIOUS
  <2>1. PICK g : g = filter.values
    OBVIOUS
  <2>2. PICK r \in Seq(Nat) : r = recent
    BY DEF MeanInv, Holds
  <2>3. /\ filter.length = Len(r) /\ g \in [Slot -> Nat] /\ SameSum(g, r)
    BY <2>1, <2>2 DEF MeanInv, Holds
  <2>4. PICK s : Adds(s, g, 1, FilterLength) /\ Total(g) = s[FilterLength]
    <3>1. \A i \in 1 .. FilterLength : g[i - 1] \in Int
      BY <2>3, FilterAssumption DEF Slot
    <3> QED
      BY <3>1, RingSum
  <2> DEFINE Sum[i \in 0 .. Len(r)] == IF i = 0 THEN 0 ELSE r[i] + Sum[i - 1]
  <2>5. PICK t : Adds(t, r, 0, Len(r)) /\ Sum[Len(r)] = t[Len(r)]
    BY SequenceSum
  <2> HIDE DEF Sum
  <2>6. Total(g) = Sum[Len(r)]
    BY <2>3, <2>4, <2>5 DEF SameSum
  <2>7. FilterMean(filter) = Sum[Len(r)] \div Len(r)
    BY <2>1, <2>3, <2>6 DEF FilterMean
  <2> USE DEF Sum
  <2> QED
    BY <2>2, <2>3, <2>7 DEF FilterIsRecentMean
<1> QED
  BY <1>1, <1>2, <1>3, PTL DEF Spec

=============================================================================
