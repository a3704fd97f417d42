------------------------------ MODULE Pipeline ------------------------------
(***************************************************************************)
(* The data pipeline of hkRTOS once normal operation has been granted:     *)
(* the sensor tasks' one-item queues, the FreeRTOS queue set the collector *)
(* selects from (collect.c), the processing task (process.c), the display  *)
(* task (display.c) and the MQTT send task (send.c).                       *)
(*                                                                         *)
(* A reading is abstracted to its number: 0 is the zero-initialised field  *)
(* of a packet whose sensor has never reported, n the n-th reading of that *)
(* sensor.  A packet (Sensors_DataPacket_t) is a function from sensors to  *)
(* readings; the averages process.c derives from it are a function of it   *)
(* and are left out (no task branches on them).                            *)
(*                                                                         *)
(* Every queue of main.c has length 1, so a queue is its storage cell      *)
(* (which keeps the last item after a receive, as the FreeRTOS storage     *)
(* does) and its membership in "full".                                     *)
(***************************************************************************)
EXTENDS Naturals, Sequences, FiniteSets

CONSTANTS
  Sensor,        \* the sensor tasks, one data queue each
  Bme,           \* the sensors whose packets vDataSendTask turns into JSON
  MaxReading,    \* bound: readings are told apart up to this number
  SendInterval,  \* xSendInterval, in model ticks
  NULL           \* no handle: xActivatedMember outside the loop body

ASSUME PipelineAssumption ==
  /\ Sensor # {}
  /\ Bme \subseteq Sensor
  /\ MaxReading \in Nat \ {0}
  /\ SendInterval \in Nat \ {0}
  /\ {"snapshot", "display", "mqtt"} \cap Sensor = {}
  /\ NULL \notin Sensor

VARIABLES
  reading,    \* last reading each sensor task produced
  sItem,      \* storage cell of each sensor queue
  full,       \* the queues that hold an unread item
  setQ,       \* xSensorQueueSet: the handles of member queues, oldest first
  cpc,        \* where the collector is
  member,     \* xActivatedMember of the collector
  packet,     \* the collector's hkSensors_DataPacket
  waited,     \* ticks the collector has been blocked in the select
  elapsed,    \* ticks since xLastSendTime, saturating at SendInterval
  pItem,      \* storage cells of the snapshot, display and MQTT queues
  ppc, ppkt,  \* the processing task and its packet
  shown,      \* the packet the display task received last
  dpc,        \* where the display task is
  spc,        \* where the send task is
  mqttUp      \* BIT_MQTT_CONNECTED of xMQTTStateEventGroup

collector == <<cpc, member, packet, waited>>
processor == <<ppc, ppkt>>
displayer == <<dpc, shown>>
vars == <<reading, sItem, full, setQ, collector, elapsed, pItem, processor,
          displayer, spc, mqttUp>>

Pipe    == {"snapshot", "display", "mqtt"}
Reading == 0 .. MaxReading
Packet  == [Sensor -> Reading]
Zero    == [s \in Sensor |-> 0]

(***************************************************************************)
(* xQueueSend(queue, packet, 0) on a pipeline queue: a full queue refuses  *)
(* the item and the caller ignores that.                                   *)
(***************************************************************************)
TrySend(queues, pkt) ==
  /\ full'  = full \cup queues
  /\ pItem' = [q \in Pipe |-> IF q \in queues \ full THEN pkt ELSE pItem[q]]

Init ==
  /\ reading = Zero
  /\ sItem   = Zero
  /\ full    = {}
  /\ setQ    = <<>>
  /\ cpc     = "gate"
  /\ member  = NULL
  /\ packet  = Zero
  /\ waited  = 0
  /\ elapsed = 0
  /\ pItem   = [q \in Pipe |-> Zero]
  /\ ppc     = "gate" /\ ppkt = Zero
  /\ dpc     = "gate" /\ shown = Zero
  /\ spc     = "gate"
  /\ mqttUp  = FALSE

-----------------------------------------------------------------------------
(***************************************************************************)
(* A sensor task ends a cycle with xQueueSend(queue, data, 0).  The send   *)
(* and the notification of the queue set are one critical section.  The    *)
(* number saturates at MaxReading, the traffic does not stop there.        *)
(***************************************************************************)
SensorSend(s) ==
  LET r == IF reading[s] < MaxReading THEN reading[s] + 1 ELSE MaxReading
  IN  /\ reading' = [reading EXCEPT ![s] = r]
      /\ \/ /\ s \in full
            /\ UNCHANGED <<sItem, full, setQ>>
         \/ /\ s \notin full
            /\ sItem' = [sItem EXCEPT ![s] = r]
            /\ full'  = full \cup {s}
            /\ setQ'  = Append(setQ, s)
      /\ UNCHANGED <<collector, elapsed, pItem, processor, displayer, spc,
                     mqttUp>>

(***************************************************************************)
(* The FreeRTOS tick: time since the last snapshot, and time blocked in    *)
(* the select while the set is empty.                                      *)
(***************************************************************************)
Tick ==
  /\ cpc # "gate"
  /\ \/ elapsed < SendInterval
     \/ cpc = "select" /\ waited < SendInterval
  /\ elapsed' = IF elapsed < SendInterval THEN elapsed + 1 ELSE elapsed
  /\ waited'  = IF cpc = "select" /\ setQ = <<>> /\ waited < SendInterval
                THEN waited + 1 ELSE waited
  /\ UNCHANGED <<reading, sItem, full, setQ, cpc, member, packet, pItem,
                 processor, displayer, spc, mqttUp>>

-----------------------------------------------------------------------------
\* Past the mode gate: packet = {0}, xLastSendTime = now.
CollectStart ==
  /\ cpc = "gate"
  /\ cpc' = "select"
  /\ packet'  = Zero
  /\ waited'  = 0
  /\ elapsed' = 0
  /\ UNCHANGED <<reading, sItem, full, setQ, member, pItem, processor,
                 displayer, spc, mqttUp>>

\* xQueueSelectFromSet returns the oldest handle of the set.
Select ==
  /\ cpc = "select"
  /\ setQ # <<>>
  /\ member' = Head(setQ)
  /\ setQ'   = Tail(setQ)
  /\ cpc'    = "receive"
  /\ UNCHANGED <<reading, sItem, full, packet, waited, elapsed, pItem,
                 processor, displayer, spc, mqttUp>>

\* ... or NULL once it has blocked for xSendInterval.
SelectTimeout ==
  /\ cpc = "select"
  /\ setQ = <<>>
  /\ waited = SendInterval
  /\ cpc' = "check"
  /\ UNCHANGED <<reading, sItem, full, setQ, member, packet, waited, elapsed,
                 pItem, processor, displayer, spc, mqttUp>>

\* Mutant: the collector has no branch for the selected queue.
ReceiveForgotten ==
  /\ cpc = "receive"
  /\ member' = NULL
  /\ cpc'    = "check"
  /\ UNCHANGED <<reading, sItem, full, setQ, packet, waited, elapsed, pItem,
                 processor, displayer, spc, mqttUp>>

\* xQueueReceive(member, &packet.<member>, 0): an empty queue changes nothing.
Receive ==
  /\ cpc = "receive"
  /\ packet' = IF member \in full
               THEN [packet EXCEPT ![member] = sItem[member]]
               ELSE packet
  /\ full'   = full \ {member}
  /\ member' = NULL
  /\ cpc'    = "check"
  /\ UNCHANGED <<reading, sItem, setQ, waited, elapsed, pItem,
                 processor, displayer, spc, mqttUp>>

\* Mutant: the interval is tested only when the select has timed out.
CheckOnTimeout ==
  /\ cpc = "check"
  /\ cpc'    = IF waited = SendInterval THEN "snapshot" ELSE "select"
  /\ waited' = 0
  /\ UNCHANGED <<reading, sItem, full, setQ, member, packet, elapsed, pItem,
                 processor, displayer, spc, mqttUp>>

\* The interval test after each wake-up, whatever woke the task.
Check ==
  /\ cpc = "check"
  /\ cpc'    = IF elapsed >= SendInterval THEN "snapshot" ELSE "select"
  /\ waited' = 0
  /\ UNCHANGED <<reading, sItem, full, setQ, member, packet, elapsed, pItem,
                 processor, displayer, spc, mqttUp>>

\* xQueueSend(xSnapshotQueue, ...)
SendSnapshot ==
  /\ cpc = "snapshot"
  /\ TrySend({"snapshot"}, packet)
  /\ cpc' = "mqtt"
  /\ UNCHANGED <<reading, sItem, setQ, member, packet, waited, elapsed,
                 processor, displayer, spc, mqttUp>>

\* Mutant: the packet is cleared after it was sent.
SendRawAndClear ==
  /\ cpc = "mqtt"
  /\ TrySend({"mqtt"}, packet)
  /\ cpc'     = "select"
  /\ packet'  = Zero
  /\ waited'  = 0
  /\ elapsed' = 0
  /\ UNCHANGED <<reading, sItem, setQ, member, processor, displayer, spc,
                 mqttUp>>

\* xQueueSend(xMQTTQueue, ...); xLastSendTime = xTaskGetTickCount()
SendRaw ==
  /\ cpc = "mqtt"
  /\ TrySend({"mqtt"}, packet)
  /\ cpc'     = "select"
  /\ waited'  = 0
  /\ elapsed' = 0
  /\ UNCHANGED <<reading, sItem, setQ, member, packet, processor, displayer,
                 spc, mqttUp>>

Collect == \/ CollectStart \/ Select \/ SelectTimeout \/ Receive \/ Check
           \/ SendSnapshot \/ SendRaw

-----------------------------------------------------------------------------
\* vDataProcessTask: the gate, then one snapshot at a time.
ProcessStart ==
  /\ ppc = "gate"
  /\ ppc' = "receive"
  /\ UNCHANGED <<reading, sItem, full, setQ, collector, elapsed, pItem, ppkt,
                 displayer, spc, mqttUp>>

ProcessReceive ==
  /\ ppc = "receive"
  /\ "snapshot" \in full
  /\ ppkt' = pItem["snapshot"]
  /\ full' = full \ {"snapshot"}
  /\ ppc'  = "display"
  /\ UNCHANGED <<reading, sItem, setQ, collector, elapsed, pItem, displayer,
                 spc, mqttUp>>

ProcessDisplay ==
  /\ ppc = "display"
  /\ TrySend({"display"}, ppkt)
  /\ ppc' = "mqtt"
  /\ UNCHANGED <<reading, sItem, setQ, collector, elapsed, ppkt, displayer,
                 spc, mqttUp>>

ProcessMqtt ==
  /\ ppc = "mqtt"
  /\ TrySend({"mqtt"}, ppkt)
  /\ ppc' = "receive"
  /\ UNCHANGED <<reading, sItem, setQ, collector, elapsed, ppkt, displayer,
                 spc, mqttUp>>

Process == ProcessStart \/ ProcessReceive \/ ProcessDisplay \/ ProcessMqtt

-----------------------------------------------------------------------------
DisplayStart ==
  /\ dpc = "gate"
  /\ dpc' = "receive"
  /\ UNCHANGED <<reading, sItem, full, setQ, collector, elapsed, pItem,
                 processor, shown, spc, mqttUp>>

\* vDataDisplayTask renders the packet it receives.
Display ==
  /\ dpc = "receive"
  /\ "display" \in full
  /\ shown' = pItem["display"]
  /\ full'  = full \ {"display"}
  /\ UNCHANGED <<reading, sItem, setQ, collector, elapsed, pItem, processor,
                 dpc, spc, mqttUp>>

-----------------------------------------------------------------------------
\* vDataSendTask up to mqtt_client_connect; MQTT_Init or the connect call may
\* fail, and then the task suspends itself for good.
SendStart ==
  /\ spc = "gate"
  /\ spc' \in {"wait", "suspended"}
  /\ UNCHANGED <<reading, sItem, full, setQ, collector, elapsed, pItem,
                 processor, displayer, mqttUp>>

\* mqttClientConnectCallback, accepted or any other status.
MqttCallback ==
  /\ spc \notin {"gate", "suspended"}
  /\ mqttUp' = ~mqttUp
  /\ UNCHANGED <<reading, sItem, full, setQ, collector, elapsed, pItem,
                 processor, displayer, spc>>

\* The wait for BIT_MQTT_CONNECTED before the loop; never repeated.
SendConnected ==
  /\ spc = "wait"
  /\ mqttUp
  /\ spc' = "receive"
  /\ UNCHANGED <<reading, sItem, full, setQ, collector, elapsed, pItem,
                 processor, displayer, mqttUp>>

\* A BME280 field whose sensor has never reported has a NULL jsonify pointer.
NullJsonify(pkt) == \E b \in Bme : pkt[b] = 0

\* Receive a packet, then the two jsonify calls and publications (whose result
\* is only logged); calling a NULL jsonify is a hard fault.
Publish ==
  /\ spc = "receive"
  /\ "mqtt" \in full
  /\ full' = full \ {"mqtt"}
  /\ spc'  = IF NullJsonify(pItem["mqtt"]) THEN "fault" ELSE "receive"
  /\ UNCHANGED <<reading, sItem, setQ, collector, elapsed, pItem, processor,
                 displayer, mqttUp>>

Send == SendStart \/ MqttCallback \/ SendConnected \/ Publish

-----------------------------------------------------------------------------
Next ==
  \/ \E s \in Sensor : SensorSend(s)
  \/ Tick
  \/ Collect
  \/ Process
  \/ DisplayStart \/ Display
  \/ Send

Spec == Init /\ [][Next]_vars

\* The scheduler time-slices the equal-priority collector and processor, the
\* tasks above them block between packets, and time passes.
Fairness == /\ WF_vars(Tick)
            /\ WF_vars(Collect)
            /\ WF_vars(Process)
            /\ WF_vars(DisplayStart \/ Display)

FairSpec == Spec /\ Fairness

-----------------------------------------------------------------------------
TypeOK ==
  /\ reading \in Packet
  /\ sItem   \in Packet
  /\ full    \in SUBSET (Sensor \cup Pipe)
  /\ setQ    \in Seq(Sensor)
  /\ cpc     \in {"gate", "select", "receive", "check", "snapshot", "mqtt"}
  /\ member  \in IF cpc = "receive" THEN Sensor ELSE {NULL}
  /\ packet  \in Packet
  /\ waited  \in 0 .. SendInterval
  /\ elapsed \in 0 .. SendInterval
  /\ pItem   \in [Pipe -> Packet]
  /\ ppc     \in {"gate", "receive", "display", "mqtt"}
  /\ ppkt    \in Packet
  /\ dpc     \in {"gate", "receive"}
  /\ shown   \in Packet
  /\ spc     \in {"gate", "wait", "suspended", "receive", "fault"}
  /\ mqttUp  \in BOOLEAN

Elems(q)  == {q[i] : i \in DOMAIN q}
NoDup(q)  == \A i, j \in DOMAIN q : q[i] = q[j] => i = j
InSet == Elems(setQ)
Held  == IF cpc = "receive" THEN {member} ELSE {}

(***************************************************************************)
(* The queue set and its member queues agree: a handle waits in the set,   *)
(* or is in the collector's hand, exactly when that queue holds an item,   *)
(* and never twice.  So the zero-timeout xQueueReceive after a select      *)
(* always finds its item, no reading is stranded in a queue the collector  *)
(* will not look at, and the set created for 9 sensors cannot overflow.    *)
(***************************************************************************)
QueueSetConsistent ==
  /\ InSet \cup Held = full \cap Sensor
  /\ InSet \cap Held = {}
  /\ NoDup(setQ)

\* p is nowhere newer than q
Leq(p, q) == \A s \in Sensor : p[s] <= q[s]

(***************************************************************************)
(* Data ages along the pipeline: what is on the display is never newer     *)
(* than what waits for it, that never newer than what the processor holds, *)
(* and so on back to the sensors, although each hop may drop packets.      *)
(***************************************************************************)
AgesDownstream ==
  /\ Leq(shown, pItem["display"])
  /\ Leq(pItem["display"], ppkt)
  /\ Leq(ppkt, pItem["snapshot"])
  /\ Leq(pItem["snapshot"], packet)
  /\ Leq(packet, sItem)
  /\ Leq(sItem, reading)

(***************************************************************************)
(* The display never goes back in time: no packet it renders holds, for    *)
(* any sensor, an older reading than the packet rendered before (two       *)
(* cores, three lossy hops, drops of the newest item at every hop).        *)
(***************************************************************************)
DisplayNeverGoesBack == [][Leq(shown, shown')]_shown

(***************************************************************************)
(* Once a sensor has produced a reading the display eventually shows one   *)
(* of that sensor, however the other sensors flood the set and although    *)
(* every queue drops what arrives when it is full.  (A hard fault in the   *)
(* send task takes its core down and is excluded here.)                    *)
(***************************************************************************)
ReportedIsShown ==
  [](spc # "fault") => \A s \in Sensor : (reading[s] > 0) ~> (shown[s] > 0)

(***************************************************************************)
(* The snapshot interval is honoured under continuous sensor traffic: the  *)
(* collector passes through its send again and again even if the select    *)
(* never times out.                                                        *)
(***************************************************************************)
SnapshotsKeepComing == [](spc # "fault") => []<>(cpc = "snapshot")

(***************************************************************************)
(* send.c reports a packet it cannot turn into JSON ("Data could not be    *)
(* published") and carries on: the send task survives every packet.        *)
(***************************************************************************)
SendTaskSurvives == spc # "fault"

=============================================================================
