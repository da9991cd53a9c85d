----------------------------- MODULE Telemetry -----------------------------
(***************************************************************************)
(* Progress events on their way from the engine to a handler:              *)
(* kafkaProducer.js buffers them and sends a batch when the buffer is full *)
(* or the interval fires, whatever batches are still on their way;         *)
(* kafkaConsumer.js hands them to a handler and commits behind it.  The    *)
(* producer is a singleton that is closed and made again, the consumer     *)
(* leaves and joins its group.  One partition of one topic.                *)
(***************************************************************************)
EXTENDS Naturals, Sequences

CONSTANTS MaxBuffer,    \* maxBufferSize
          MaxEvents, MaxFaults, MaxInstances, MaxFlights \* bounds

ASSUME TelemetryAssumption ==
  /\ MaxBuffer \in Nat \ {0} /\ MaxEvents \in Nat /\ MaxFaults \in Nat
  /\ MaxInstances \in Nat /\ MaxFlights \in Nat \ {0}

VARIABLES instance, link,  \* the producer in place, by number, and its connection
          buffer,          \* eventBuffer
          flights,         \* batches being sent: number -> [by, events]
          lastFlight,      \* the one that disconnect waits for, 0 for none
          accepted,        \* events that sendEvent took: 1..accepted
          topic,           \* the log
          joined, position, handling, \* of the consumer; 0: handles nothing
          committed,       \* offset of the group, 0 for none
          given,           \* events that reached a handler
          lost,            \* events that the code gives up: see below
          faults

telemetryVars == <<instance, link, buffer, flights, lastFlight, accepted, topic,
                   joined, position, handling, committed, given, lost, faults>>
producerVars == <<instance, link, buffer, flights, lastFlight, accepted>>
consumerVars == <<joined, position, handling, committed, given>>

TelemetryInit ==
  /\ instance = 0 /\ link = "none" /\ buffer = <<>> /\ flights = [i \in {} |-> 0]
  /\ lastFlight = 0 /\ accepted = 0 /\ topic = <<>>
  /\ joined = FALSE /\ position = 0 /\ handling = 0 /\ committed = 0
  /\ given = {} /\ lost = {} /\ faults = 0

Fault == faults < MaxFaults /\ faults' = faults + 1
Works(ok) == IF ok THEN UNCHANGED faults ELSE Fault
EventsIn(s) == {s[n] : n \in DOMAIN s}
FreeFlight == CHOOSE i \in 1..MaxFlights : i \notin DOMAIN flights
-----------------------------------------------------------------------------
(* getProducer keeps the instance before it is connected: when connecting fails it
   stays, and refuses everything until closeProducer. *)
GetProducer ==
  /\ link = "none" /\ instance < MaxInstances
  /\ instance' = instance + 1 /\ link' = "connecting" /\ buffer' = <<>>
  /\ UNCHANGED <<flights, lastFlight, accepted, topic, consumerVars, lost, faults>>
Connect(ok) ==
  /\ link = "connecting" /\ Works(ok)
  /\ link' = IF ok THEN "up" ELSE "broken"
  /\ UNCHANGED <<instance, buffer, flights, lastFlight, accepted, topic, consumerVars, lost>>

(* _flushBuffer up to its await: the buffer is emptied before the batch is sent. *)
FlushBuffer(events) ==
  /\ DOMAIN flights # 1..MaxFlights
  /\ flights' = [i \in DOMAIN flights \union {FreeFlight} |->
                   IF i = FreeFlight THEN [by |-> instance, events |-> events]
                   ELSE flights[i]]
  /\ buffer' = <<>>

(* sendEvent of progress: a full buffer is flushed at once.  Other events are sent
   directly and their failure is the caller's. *)
SendProgress ==
  /\ link \in {"up", "closing"} /\ accepted < MaxEvents
  /\ accepted' = accepted + 1
  /\ IF Len(buffer) + 1 >= MaxBuffer THEN FlushBuffer(Append(buffer, accepted + 1))
     ELSE buffer' = Append(buffer, accepted + 1) /\ UNCHANGED flights
  /\ UNCHANGED <<instance, link, lastFlight, topic, consumerVars, lost, faults>>

FlushInterval ==
  /\ link = "up" /\ buffer # <<>>
  /\ FlushBuffer(buffer)
  /\ UNCHANGED <<instance, link, lastFlight, accepted, topic, consumerVars, lost, faults>>

ReturnedOver(i) == flights[i].events                             \* mutant
Returned(i) == flights[i].events \o buffer

(* The batch is sent, or fails and goes back in front of the buffer; the broker may
   have kept it all the same.  With the batch that disconnect waits for the producer
   is gone, with what its buffer holds then. *)
FlightEnds(i, ok, kept) ==
  /\ i \in DOMAIN flights /\ Works(ok)
  /\ flights' = [j \in DOMAIN flights \ {i} |-> flights[j]]
  /\ topic' = IF ok \/ kept THEN topic \o flights[i].events ELSE topic
  /\ LET back == IF ok \/ link = "none" \/ flights[i].by # instance THEN buffer
                 ELSE Returned(i)
         gone == i = lastFlight
     IN  /\ link' = IF gone THEN "none" ELSE link
         /\ lastFlight' = IF gone THEN 0 ELSE lastFlight
         /\ buffer' = IF gone THEN <<>> ELSE back
         /\ lost' = lost \union (IF gone THEN EventsIn(back) ELSE {})
              \union (IF ~ok /\ back = buffer THEN EventsIn(flights[i].events) ELSE {})
  /\ UNCHANGED <<instance, accepted, consumerVars>>

(* closeProducer: disconnect flushes once; a producer that never connected just goes. *)
CloseProducer ==
  /\ link \in {"up", "broken"}
  /\ IF link = "up" /\ buffer # <<>>
     THEN FlushBuffer(buffer) /\ lastFlight' = FreeFlight /\ link' = "closing"
     ELSE link' = "none" /\ UNCHANGED <<buffer, flights, lastFlight>>
  /\ UNCHANGED <<instance, accepted, topic, consumerVars, lost, faults>>
-----------------------------------------------------------------------------
(* The group starts at its offset, and without one at the end of the log. *)
Join ==
  /\ ~joined /\ joined' = TRUE /\ handling' = 0
  /\ position' = IF committed = 0 THEN Len(topic) ELSE committed
  /\ lost' = IF committed = 0 THEN lost \union EventsIn(topic) ELSE lost
  /\ UNCHANGED <<producerVars, topic, committed, given, faults>>

(* _handleMessage: whatever the handler throws is counted and dropped. *)
HandleMessage ==
  /\ joined /\ handling = 0 /\ position < Len(topic)
  /\ handling' = position + 1 /\ given' = given \union {topic[position + 1]}
  /\ UNCHANGED <<producerVars, topic, joined, position, committed, lost, faults>>

(* commitOffsets; a failed commit is logged and the next message taken. *)
CommitOffset(ok) ==
  /\ handling # 0 /\ Works(ok)
  /\ committed' = IF ok THEN handling ELSE committed
  /\ position' = handling /\ handling' = 0
  /\ UNCHANGED <<producerVars, topic, joined, given, lost>>

Leave ==
  /\ joined /\ Fault /\ joined' = FALSE /\ handling' = 0 /\ position' = 0
  /\ UNCHANGED <<producerVars, topic, committed, given, lost>>

TelemetryNext ==
  \/ GetProducer \/ SendProgress \/ FlushInterval \/ CloseProducer
  \/ Join \/ HandleMessage \/ Leave
  \/ \E ok \in BOOLEAN : Connect(ok) \/ CommitOffset(ok)
  \/ \E i \in 1..MaxFlights, ok, kept \in BOOLEAN : FlightEnds(i, ok, kept)

TelemetrySpec == TelemetryInit /\ [][TelemetryNext]_telemetryVars
-----------------------------------------------------------------------------
(* Type invariant. *)
TelemetryTypeOK ==
  /\ instance \in 0..MaxInstances /\ accepted \in 0..MaxEvents
  /\ link \in {"none", "connecting", "up", "broken", "closing"}
  /\ buffer \in Seq(1..accepted) /\ topic \in Seq(1..accepted)
  /\ DOMAIN flights \subseteq 1..MaxFlights
  /\ \A i \in DOMAIN flights : flights[i].events \in Seq(1..accepted)
  /\ lastFlight \in {0} \union DOMAIN flights /\ (lastFlight # 0 <=> link = "closing")
  /\ position \in 0..Len(topic) /\ handling \in 0..Len(topic)
  /\ committed \in 0..Len(topic) /\ given \union lost \subseteq 1..accepted

(* An event that was accepted is in the buffer, in a batch on its way, in the part of
   the log still to be read, or has been handed to the handler: overlapping flushes,
   failed batches, failed commits and redeliveries lose none.  The code gives up only
   what is in the buffer of a producer that has been closed, a batch of such a
   producer that fails, and what is in the log when the group joins without an offset
   (a first crash before the first commit included). *)
NothingVanishes ==
  LET unread == {topic[n] : n \in (IF joined THEN position ELSE committed) + 1..Len(topic)}
  IN  \A e \in 1..accepted :
        \/ e \in EventsIn(buffer) \union given \union lost \union unread
        \/ \E i \in DOMAIN flights : e \in EventsIn(flights[i].events)
=============================================================================
