--------------------------- MODULE PipelineProofs ---------------------------
(***************************************************************************)
(* Proofs about the data pipeline, for any number of sensors, any bound on *)
(* readings and any send interval.                                         *)
(***************************************************************************)
EXTENDS Pipeline, TLAPS

\* Readings are numbers, and the next number of a sensor is a reading.
LEMMA ReadingOrder ==
  /\ Reading \subseteq Nat
  /\ 0 \in Reading
  /\ \A r \in Reading : r < MaxReading => r + 1 \in Reading
  /\ MaxReading \in Reading
BY PipelineAssumption DEF Reading

\* xQueueSend with no wait keeps the pipeline queues well typed.
LEMMA TrySendType ==
  ASSUME TypeOK, NEW q \in Pipe, NEW p \in Packet, TrySend({q}, p)
  PROVE  /\ full' \in SUBSET (Sensor \cup Pipe)
         /\ pItem' \in [Pipe -> Packet]
BY DEF TypeOK, TrySend

(***************************************************************************)
(* Type correctness of the pipeline (collect.c, process.c, display.c,      *)
(* send.c): every task stays at one of its program points and every queue  *)
(* cell holds a packet of readings.                                        *)
(***************************************************************************)
THEOREM TypeCorrect == Spec => []TypeOK
<1>1. Init => TypeOK
  <2> SUFFICES ASSUME Init PROVE TypeOK
    OBVIOUS
  <2>1. Zero \in Packet
    BY ReadingOrder DEF Zero, Packet
  <2>2. pItem \in [Pipe -> Packet]
    BY <2>1 DEF Init
  <2>3. waited \in 0 .. SendInterval /\ elapsed \in 0 .. SendInterval
    BY PipelineAssumption DEF Init
  <2>4. setQ \in Seq(Sensor) /\ full \in SUBSET (Sensor \cup Pipe)
    BY DEF Init
  <2> QED BY <2>1, <2>2, <2>3, <2>4 DEF Init, TypeOK
<1>2. TypeOK /\ [Next]_vars => TypeOK'
  <2> SUFFICES ASSUME TypeOK, [Next]_vars PROVE TypeOK'
    OBVIOUS
  <2> USE DEF TypeOK, collector, processor, displayer
  <2>1. ASSUME NEW s \in Sensor, SensorSend(s) PROVE TypeOK'
    <3> DEFINE r == IF reading[s] < MaxReading THEN reading[s] + 1 ELSE MaxReading
    <3>1. r \in Reading
      BY ReadingOrder DEF Packet
    <3>2. [reading EXCEPT ![s] = r] \in Packet /\ [sItem EXCEPT ![s] = r] \in Packet
      BY <3>1 DEF Packet
    <3>3. Append(setQ, s) \in Seq(Sensor)
      OBVIOUS
    <3> QED BY <2>1, <3>2, <3>3 DEF SensorSend
  <2>2. ASSUME Tick PROVE TypeOK'
    BY <2>2, PipelineAssumption DEF Tick
  <2>3. ASSUME CollectStart PROVE TypeOK'
    BY <2>3, PipelineAssumption, ReadingOrder DEF CollectStart, Packet, Zero
  <2>4. ASSUME Select PROVE TypeOK'
    <3>1. Head(setQ) \in Sensor /\ Tail(setQ) \in Seq(Sensor)
      BY <2>4 DEF Select
    <3> QED BY <2>4, <3>1 DEF Select
  <2>5. ASSUME SelectTimeout PROVE TypeOK'
    BY <2>5 DEF SelectTimeout
  <2>6. ASSUME Receive PROVE TypeOK'
    <3>1. packet' \in Packet
      BY <2>6 DEF Receive, Packet
    <3> QED BY <2>6, <3>1 DEF Receive
  <2>7. ASSUME Check PROVE TypeOK'
    BY <2>7, PipelineAssumption DEF Check
  <2>8. ASSUME SendSnapshot PROVE TypeOK'
    BY <2>8, TrySendType DEF SendSnapshot, Pipe
  <2>9. ASSUME SendRaw PROVE TypeOK'
    BY <2>9, TrySendType, PipelineAssumption DEF SendRaw, Pipe
  <2>10. ASSUME Process PROVE TypeOK'
    BY <2>10, TrySendType
       DEF Process, ProcessStart, ProcessReceive, ProcessDisplay, ProcessMqtt, Pipe
  <2>11. ASSUME DisplayStart \/ Display PROVE TypeOK'
    BY <2>11 DEF DisplayStart, Display, Pipe
  <2>12. ASSUME Send PROVE TypeOK'
    BY <2>12 DEF Send, SendStart, MqttCallback, SendConnected, Publish
  <2>13. CASE UNCHANGED vars
    BY <2>13 DEF vars
  <2> QED
    BY <2>1, <2>2, <2>3, <2>4, <2>5, <2>6, <2>7, <2>8, <2>9, <2>10, <2>11,
       <2>12, <2>13 DEF Next, Collect
<1> QED BY <1>1, <1>2, PTL DEF Spec

-----------------------------------------------------------------------------
\* What the queue set's FIFO does to the set of handles in it.
LEMMA AppendElems ==
  ASSUME NEW S, NEW q \in Seq(S), NEW s \in S, s \notin Elems(q), NoDup(q)
  PROVE  Elems(Append(q, s)) = Elems(q) \cup {s} /\ NoDup(Append(q, s))
<1> DEFINE a == Append(q, s)
<1>1. /\ DOMAIN q = 1 .. Len(q) /\ DOMAIN a = 1 .. Len(q) + 1 /\ Len(q) \in Nat
      /\ a[Len(q) + 1] = s
      /\ \A i \in 1 .. Len(q) : a[i] = q[i]
  OBVIOUS
<1>2. Elems(a) = Elems(q) \cup {s}
  <2>1. \A e \in Elems(a) : e \in Elems(q) \cup {s}
    BY <1>1 DEF Elems
  <2>2. \A e \in Elems(q) \cup {s} : e \in Elems(a)
    BY <1>1 DEF Elems
  <2> QED BY <2>1, <2>2
<1>3. NoDup(a)
  BY <1>1 DEF NoDup, Elems
<1> QED BY <1>2, <1>3

LEMMA TailElems ==
  ASSUME NEW S, NEW q \in Seq(S), q # <<>>, NoDup(q)
  PROVE  Elems(Tail(q)) = Elems(q) \ {Head(q)} /\ NoDup(Tail(q)) /\ Head(q) \in Elems(q)
<1> DEFINE t == Tail(q)
<1>1. /\ DOMAIN q = 1 .. Len(q) /\ DOMAIN t = 1 .. Len(q) - 1 /\ Len(q) \in Nat \ {0}
      /\ Head(q) = q[1]
      /\ \A i \in 1 .. Len(q) - 1 : t[i] = q[i + 1]
  OBVIOUS
<1>2. \A e \in Elems(t) : e \in Elems(q) \ {Head(q)}
  <2> SUFFICES ASSUME NEW i \in DOMAIN t PROVE t[i] \in Elems(q) \ {Head(q)}
    BY DEF Elems
  <2>1. i + 1 \in DOMAIN q /\ 1 \in DOMAIN q /\ i + 1 # 1 /\ t[i] = q[i + 1]
    BY <1>1
  <2>2. q[i + 1] # q[1]
    BY <2>1 DEF NoDup
  <2> QED BY <1>1, <2>1, <2>2 DEF Elems
<1>3. \A e \in Elems(q) \ {Head(q)} : e \in Elems(t)
  <2> SUFFICES ASSUME NEW i \in DOMAIN q, q[i] # q[1] PROVE q[i] \in Elems(t)
    BY <1>1 DEF Elems
  <2>1. i - 1 \in DOMAIN t /\ t[i - 1] = q[i]
    BY <1>1
  <2> QED BY <2>1 DEF Elems
<1>4. NoDup(t)
  <2> SUFFICES ASSUME NEW i \in DOMAIN t, NEW j \in DOMAIN t, t[i] = t[j] PROVE i = j
    BY DEF NoDup
  <2>1. i + 1 \in DOMAIN q /\ j + 1 \in DOMAIN q /\ q[i + 1] = q[j + 1]
    BY <1>1
  <2>2. i + 1 = j + 1
    BY <2>1 DEF NoDup
  <2> QED BY <1>1, <2>2
<1>5. Head(q) \in Elems(q)
  BY <1>1 DEF Elems
<1> QED BY <1>2, <1>3, <1>4, <1>5

\* A step that leaves the set, the collector's handle and the sensor queues
\* alone keeps the queue set consistent.
LEMMA QueueSetFrame ==
  ASSUME QueueSetConsistent, setQ' = setQ, Held' = Held,
         full' \cap Sensor = full \cap Sensor
  PROVE  QueueSetConsistent'
BY DEF QueueSetConsistent, InSet

(***************************************************************************)
(* The queue set of main.c:485 and its member queues always agree, for any *)
(* number of sensors: the collector's zero-timeout receive                 *)
(* (collect.c:45-97) never misses and no reading is stranded.              *)
(***************************************************************************)
THEOREM QueueSetAgrees == Spec => []QueueSetConsistent
<1>1. Init => QueueSetConsistent
  BY DEF Init, QueueSetConsistent, InSet, Elems, NoDup, Held
<1>2. TypeOK /\ QueueSetConsistent /\ [Next]_vars => QueueSetConsistent'
  <2> SUFFICES ASSUME TypeOK, QueueSetConsistent, [Next]_vars
               PROVE  QueueSetConsistent'
    OBVIOUS
  <2> USE DEF collector, processor, displayer
  <2>0. Pipe \cap Sensor = {}
    BY PipelineAssumption DEF Pipe
  <2>1. ASSUME NEW s \in Sensor, SensorSend(s) PROVE QueueSetConsistent'
    <3>1. CASE s \in full
      BY <2>1, <3>1, QueueSetFrame DEF SensorSend, Held
    <3>2. CASE s \notin full
      <4>1. s \notin InSet /\ s \notin Held
        BY <3>2 DEF QueueSetConsistent
      <4>2. InSet' = InSet \cup {s} /\ NoDup(setQ')
        <5>1. setQ' = Append(setQ, s)
          BY <2>1, <3>2 DEF SensorSend
        <5>2. setQ \in Seq(Sensor) /\ NoDup(setQ) /\ s \notin Elems(setQ)
          BY <4>1 DEF TypeOK, QueueSetConsistent, InSet
        <5>3. Elems(Append(setQ, s)) = Elems(setQ) \cup {s} /\ NoDup(Append(setQ, s))
          BY <5>2, AppendElems
        <5> QED BY <5>1, <5>3 DEF InSet
      <4>3. Held' = Held /\ full' = full \cup {s}
        BY <2>1, <3>2 DEF SensorSend, Held
      <4> QED BY <4>1, <4>2, <4>3 DEF QueueSetConsistent
    <3> QED BY <3>1, <3>2
  <2>2. ASSUME Tick PROVE QueueSetConsistent'
    BY <2>2, QueueSetFrame DEF Tick, Held
  <2>3. ASSUME CollectStart PROVE QueueSetConsistent'
    BY <2>3, QueueSetFrame DEF CollectStart, Held
  <2>4. ASSUME Select PROVE QueueSetConsistent'
    <3>1. InSet' = InSet \ {Head(setQ)} /\ NoDup(setQ') /\ Head(setQ) \in InSet
      BY <2>4, TailElems DEF Select, InSet, QueueSetConsistent, TypeOK
    <3>2. Held = {} /\ Held' = {Head(setQ)} /\ full' = full
      BY <2>4 DEF Select, Held
    <3> QED BY <3>1, <3>2 DEF QueueSetConsistent
  <2>5. ASSUME SelectTimeout PROVE QueueSetConsistent'
    BY <2>5, QueueSetFrame DEF SelectTimeout, Held
  <2>6. ASSUME Receive PROVE QueueSetConsistent'
    <3>1. Held = {member} /\ Held' = {} /\ full' = full \ {member} /\ setQ' = setQ
      BY <2>6 DEF Receive, Held
    <3> QED BY <3>1 DEF QueueSetConsistent, InSet
  <2>7. ASSUME Check PROVE QueueSetConsistent'
    BY <2>7, QueueSetFrame DEF Check, Held
  <2>8. ASSUME SendSnapshot \/ SendRaw PROVE QueueSetConsistent'
    BY <2>0, <2>8, QueueSetFrame DEF SendSnapshot, SendRaw, TrySend, Held, Pipe
  <2>9. ASSUME Process PROVE QueueSetConsistent'
    BY <2>0, <2>9, QueueSetFrame
       DEF Process, ProcessStart, ProcessReceive, ProcessDisplay, ProcessMqtt,
           TrySend, Held, Pipe
  <2>10. ASSUME DisplayStart \/ Display PROVE QueueSetConsistent'
    BY <2>0, <2>10, QueueSetFrame DEF DisplayStart, Display, Held, Pipe
  <2>11. ASSUME Send PROVE QueueSetConsistent'
    BY <2>0, <2>11, QueueSetFrame
       DEF Send, SendStart, MqttCallback, SendConnected, Publish, Held, Pipe
  <2>12. CASE UNCHANGED vars
    BY <2>12, QueueSetFrame DEF vars, Held
  <2> QED
    BY <2>1, <2>2, <2>3, <2>4, <2>5, <2>6, <2>7, <2>8, <2>9, <2>10, <2>11,
       <2>12 DEF Next, Collect
<1> QED BY <1>1, <1>2, TypeCorrect, PTL DEF Spec

-----------------------------------------------------------------------------
(***************************************************************************)
(* The ordering argument needs one fact beside AgesDownstream: before the  *)
(* collector passes its gate its packet is still zero, so that the         *)
(* initialisation there (collect.c:32) takes nothing back.                 *)
(***************************************************************************)
GateIsZero == cpc = "gate" => packet = Zero
OrderInv   == AgesDownstream /\ GateIsZero

\* Leq is reflexive and transitive on packets.
LEMMA LeqOrder ==
  /\ \A p \in Packet : Leq(p, p)
  /\ \A p, q, r \in Packet : Leq(p, q) /\ Leq(q, r) => Leq(p, r)
<1>1. ASSUME NEW p \in Packet PROVE Leq(p, p)
  <2>1. \A s \in Sensor : p[s] \in Nat
    BY ReadingOrder DEF Packet
  <2> QED BY <2>1 DEF Leq
<1>2. ASSUME NEW p \in Packet, NEW q \in Packet, NEW r \in Packet,
             Leq(p, q), Leq(q, r)
      PROVE  Leq(p, r)
  <2> SUFFICES ASSUME NEW s \in Sensor PROVE p[s] <= r[s]
    BY DEF Leq
  <2>1. p[s] \in Nat /\ q[s] \in Nat /\ r[s] \in Nat
    BY ReadingOrder DEF Packet
  <2>2. p[s] <= q[s] /\ q[s] <= r[s]
    BY <1>2 DEF Leq
  <2> QED BY <2>1, <2>2
<1> QED BY <1>1, <1>2

\* Every step keeps the order of the chain.
LEMMA OrderStep == TypeOK /\ OrderInv /\ [Next]_vars => OrderInv'
<1> SUFFICES ASSUME TypeOK, OrderInv, [Next]_vars PROVE OrderInv'
  OBVIOUS
<1> USE DEF OrderInv, AgesDownstream, GateIsZero, collector, processor, displayer
<1>p. "display" \in Pipe /\ "snapshot" \in Pipe /\ "mqtt" \in Pipe
  BY DEF Pipe
<1>t. /\ reading \in Packet /\ sItem \in Packet /\ packet \in Packet
      /\ ppkt \in Packet /\ shown \in Packet
      /\ pItem["display"] \in Packet /\ pItem["snapshot"] \in Packet
  BY <1>p DEF TypeOK
<1>1. ASSUME NEW s \in Sensor, SensorSend(s) PROVE OrderInv'
  <2> DEFINE r == IF reading[s] < MaxReading THEN reading[s] + 1 ELSE MaxReading
  <2>1. reading[s] \in Nat /\ sItem[s] \in Nat /\ packet[s] \in Nat
    BY <1>t, ReadingOrder DEF Packet
  <2>2. reading[s] <= r /\ r \in Nat
    BY <1>t, <2>1, PipelineAssumption DEF Packet, Reading
  <2>3. packet[s] <= sItem[s] /\ sItem[s] <= reading[s]
    BY DEF Leq
  <2>4. reading' = [reading EXCEPT ![s] = r]
    BY <1>1 DEF SensorSend
  <2>5. Leq(sItem', reading')
    BY <1>1, <1>t, <2>1, <2>2, <2>3, <2>4 DEF SensorSend, Leq, Packet
  <2>6. Leq(packet, sItem')
    BY <1>1, <1>t, <2>1, <2>2, <2>3 DEF SensorSend, Leq, Packet
  <2> QED BY <1>1, <2>5, <2>6 DEF SensorSend, Leq
<1>2. ASSUME Tick PROVE OrderInv'
  BY <1>2 DEF Tick, Leq
<1>3. ASSUME CollectStart PROVE OrderInv'
  BY <1>3 DEF CollectStart, Leq
<1>4. ASSUME Select PROVE OrderInv'
  BY <1>4 DEF Select, Leq
<1>5. ASSUME SelectTimeout PROVE OrderInv'
  BY <1>5 DEF SelectTimeout, Leq
<1>6. ASSUME Receive PROVE OrderInv'
  <2>1. packet' \in Packet /\ Leq(packet, packet') /\ Leq(packet', sItem)
    <3>1. \A s \in Sensor : packet[s] \in Nat /\ sItem[s] \in Nat
      BY <1>t, ReadingOrder DEF Packet
    <3>2. \A s \in Sensor : packet'[s] \in {packet[s], sItem[s]}
      BY <1>6, <1>t DEF Receive, Packet
    <3>3. packet' \in Packet
      BY <1>6, <1>t DEF Receive, Packet
    <3>4. \A s \in Sensor : packet[s] <= sItem[s]
      BY DEF Leq
    <3>5. Leq(packet, packet') /\ Leq(packet', sItem)
      BY <3>1, <3>2, <3>4 DEF Leq
    <3> QED BY <3>3, <3>5
  <2>2. Leq(pItem["snapshot"], packet')
    BY <2>1, <1>t, LeqOrder
  <2> QED BY <1>6, <2>1, <2>2 DEF Receive, Leq
<1>7. ASSUME Check PROVE OrderInv'
  BY <1>7 DEF Check, Leq
<1>8. ASSUME SendSnapshot PROVE OrderInv'
  <2>1. pItem'["snapshot"] \in {packet, pItem["snapshot"]}
        /\ pItem'["display"] = pItem["display"]
    BY <1>8, <1>p DEF SendSnapshot, TrySend
  <2>2. Leq(ppkt, pItem'["snapshot"]) /\ Leq(pItem'["snapshot"], packet)
    BY <2>1, <1>t, LeqOrder
  <2> QED BY <1>8, <2>1, <2>2 DEF SendSnapshot, Leq
<1>9. ASSUME SendRaw PROVE OrderInv'
  <2>1. pItem'["snapshot"] = pItem["snapshot"] /\ pItem'["display"] = pItem["display"]
    BY <1>9, <1>p DEF SendRaw, TrySend
  <2> QED BY <1>9, <2>1 DEF SendRaw, Leq
<1>10. ASSUME Process PROVE OrderInv'
  <2>1. CASE ProcessStart
    BY <2>1 DEF ProcessStart, Leq
  <2>2. CASE ProcessReceive
    <3>1. Leq(pItem["display"], ppkt') /\ Leq(ppkt', pItem["snapshot"])
      BY <2>2, <1>t, LeqOrder DEF ProcessReceive
    <3> QED BY <2>2, <3>1 DEF ProcessReceive, Leq
  <2>3. CASE ProcessDisplay
    <3>1. pItem'["display"] \in {ppkt, pItem["display"]}
          /\ pItem'["snapshot"] = pItem["snapshot"]
      BY <2>3, <1>p DEF ProcessDisplay, TrySend
    <3>2. Leq(shown, pItem'["display"]) /\ Leq(pItem'["display"], ppkt)
      BY <3>1, <1>t, LeqOrder
    <3> QED BY <2>3, <3>1, <3>2 DEF ProcessDisplay, Leq
  <2>4. CASE ProcessMqtt
    <3>1. pItem'["snapshot"] = pItem["snapshot"] /\ pItem'["display"] = pItem["display"]
      BY <2>4, <1>p DEF ProcessMqtt, TrySend
    <3> QED BY <2>4, <3>1 DEF ProcessMqtt, Leq
  <2> QED BY <1>10, <2>1, <2>2, <2>3, <2>4 DEF Process
<1>11. ASSUME DisplayStart \/ Display PROVE OrderInv'
  BY <1>11, <1>t, LeqOrder DEF DisplayStart, Display, Leq
<1>12. ASSUME Send PROVE OrderInv'
  BY <1>12 DEF Send, SendStart, MqttCallback, SendConnected, Publish, Leq
<1>13. CASE UNCHANGED vars
  BY <1>13 DEF vars, Leq
<1> QED
  BY <1>1, <1>2, <1>3, <1>4, <1>5, <1>6, <1>7, <1>8, <1>9, <1>10, <1>11,
     <1>12, <1>13 DEF Next, Collect

LEMMA OrderInit == Init => OrderInv
BY DEF Init, OrderInv, AgesDownstream, GateIsZero, Leq, Zero, Pipe

(***************************************************************************)
(* Readings age along the pipeline, from the sensor tasks' buffers through *)
(* the collector (collect.c) and the processor (process.c) to the display. *)
(***************************************************************************)
THEOREM DataAgesDownstream == Spec => []AgesDownstream
<1>1. OrderInv => AgesDownstream
  BY DEF OrderInv
<1> QED BY <1>1, OrderInit, OrderStep, TypeCorrect, PTL DEF Spec

(***************************************************************************)
(* The display task (display.c:38) never renders an older reading of any   *)
(* sensor than it rendered before.                                         *)
(***************************************************************************)
THEOREM DisplayMonotone == Spec => DisplayNeverGoesBack
<1>1. TypeOK /\ OrderInv /\ [Next]_vars => [Leq(shown, shown')]_shown
  <2> SUFFICES ASSUME TypeOK, OrderInv, Next, shown' # shown
               PROVE  Leq(shown, shown')
    BY DEF vars, displayer
  <2>1. Display
    BY DEF Next, SensorSend, Tick, Collect, CollectStart, Select, SelectTimeout,
           Receive, Check, SendSnapshot, SendRaw, Process, ProcessStart,
           ProcessReceive, ProcessDisplay, ProcessMqtt, DisplayStart, Send,
           SendStart, MqttCallback, SendConnected, Publish, displayer
  <2> QED BY <2>1 DEF Display, OrderInv, AgesDownstream
<1> QED
  BY <1>1, OrderInit, OrderStep, TypeCorrect, PTL DEF Spec, DisplayNeverGoesBack

=============================================================================
