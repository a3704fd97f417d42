-------------------------- MODULE I2CSensorsProofs --------------------------
(***************************************************************************)
(* Machine-checked proofs about I2CSensors, for any number of BME280,      *)
(* SGP30 and DHT20 sensors on one bus.                                     *)
(***************************************************************************)
EXTENDS I2CSensors, TLAPS

(***************************************************************************)
(* Type correctness of the sensor tasks' configurations and of the bus     *)
(* mutex.                                                                  *)
(***************************************************************************)
THEOREM TypeCorrect == Spec => []TypeOK
<1>1. Init => TypeOK
  BY DEF Init, TypeOK, Sensor, InitSteps, Bytes, BME280_InitSteps,
         SGP30_InitSteps, DHT20_InitSteps
<1>2. TypeOK /\ [Next]_vars => TypeOK'
  <2> SUFFICES ASSUME TypeOK, [Next]_vars PROVE TypeOK'
    OBVIOUS
  <2>1. CASE UNCHANGED vars
    BY <2>1 DEF vars, TypeOK
  <2>2. ASSUME NEW s \in Sensor, Lock(s) PROVE TypeOK'
    BY <2>2 DEF Lock, TypeOK
  <2>3. ASSUME NEW s \in Sensor, NEW ok \in BOOLEAN, InitStep(s, ok) PROVE TypeOK'
    <3>1. left' \in [Sensor -> 0 .. 5]
      BY <2>3 DEF InitStep, Sensor, InitSteps, BME280_InitSteps, SGP30_InitSteps,
           DHT20_InitSteps, TypeOK
    <3> QED BY <2>3, <3>1 DEF InitStep, Unlock, TypeOK
  <2>4. ASSUME NEW s \in Sensor, NEW ok \in BOOLEAN, TriggerStep(s, ok) PROVE TypeOK'
    <3>1. left' \in [Sensor -> 0 .. 5]
      BY <2>4 DEF TriggerStep, TypeOK
    <3>2. err' \in [Sensor -> 0 .. 2]
      BY <2>4 DEF TriggerStep, TypeOK
    <3> QED BY <2>4, <3>1, <3>2 DEF TriggerStep, Unlock, TypeOK
  <2>5. ASSUME NEW s \in Sensor, NEW b \in {"good", "bad"}, ReadOk(s, b) PROVE TypeOK'
    BY <2>5 DEF ReadOk, DHT20_Result, Unlock, TypeOK, Bytes
  <2>6. ASSUME NEW s \in Sensor, ReadError(s) PROVE TypeOK'
    BY <2>6 DEF ReadError, Unlock, TypeOK, PICO_ERROR_GENERIC
  <2>7. ASSUME NEW s \in Sensor, BeginCycle(s) PROVE TypeOK'
    BY <2>7 DEF BeginCycle, Sensor, TriggerSteps, BME280_InitReadSteps, SGP30_InitReadSteps,
       DHT20_InitReadSteps, TypeOK
  <2>8. ASSUME NEW s \in Sensor, Deliver(s) PROVE TypeOK'
    BY <2>8 DEF Deliver, ProcessData, SGP30_ProcessData, TypeOK, Bytes
  <2> QED
    BY <2>1, <2>2, <2>3, <2>4, <2>5, <2>6, <2>7, <2>8 DEF Next, Transaction
<1> QED BY <1>1, <1>2, PTL DEF Spec

-----------------------------------------------------------------------------
(***************************************************************************)
(* Mutual exclusion on the bus, with the mutex free whenever nobody is in  *)
(* a transaction: a task enters only when the mutex is free, and every way *)
(* out of a transaction, error paths included, frees it.                   *)
(***************************************************************************)
THEOREM BusIsExclusive == Spec => []BusExclusive
<1>1. Init => BusExclusive
  BY BusAssumption DEF Init, BusExclusive
<1>2. TypeOK /\ BusExclusive /\ [Next]_vars => BusExclusive'
  <2> SUFFICES ASSUME TypeOK, BusExclusive, [Next]_vars PROVE BusExclusive'
    OBVIOUS
  <2>1. ASSUME NEW s \in Sensor, Lock(s) PROVE BusExclusive'
    BY <2>1, BusAssumption DEF Lock, BusExclusive
  <2>2. ASSUME NEW s \in Sensor, s \in inside, Unlock(s) PROVE BusExclusive'
    BY <2>2, BusAssumption DEF Unlock, BusExclusive
  <2>3. ASSUME NEW s \in Sensor, Transaction(s) PROVE BusExclusive'
    BY <2>2, <2>3 DEF Transaction, InitStep, TriggerStep, ReadOk, ReadError
  <2>4. ASSUME UNCHANGED <<mutex, inside>> PROVE BusExclusive'
    BY <2>4 DEF BusExclusive
  <2> QED
    BY <2>1, <2>3, <2>4 DEF Next, vars, BeginCycle, Deliver
<1> QED BY <1>1, <1>2, TypeCorrect, PTL DEF Spec

-----------------------------------------------------------------------------
(***************************************************************************)
(* The handshake through config->status.  While a task with a status is in *)
(* a trigger or a read, the status says so; it says "success" at delivery  *)
(* only if this cycle's read succeeded; and it is left in progress only by *)
(* a read that failed in the cycle just ended.  What DHT20_Read returned   *)
(* is as good as the bytes unless it is the error code.                    *)
(***************************************************************************)
Handshake(s) ==
  /\ s \notin DHT20 =>
       /\ phase[s] \in {"trigger", "read"} => status[s] = "progress"
       /\ phase[s] = "deliver" => status[s] \in {"progress", "success"}
       /\ phase[s] = "deliver" /\ status[s] = "success" => s \in got
       /\ phase[s] = "deliver" /\ status[s] = "progress" => err[s] = 2
       /\ phase[s] = "idle" /\ status[s] = "progress" => err[s] > 0
       /\ phase[s] = "init" => status[s] # "progress"
  /\ s \in DHT20 /\ phase[s] = "deliver" =>
       /\ result[s] = 1 => raw[s] = "good"
       /\ result[s] = -1 => err[s] = 2
  /\ phase[s] = "trigger" => left[s] > 0
  /\ phase[s] \in {"read", "deliver"} /\ s \notin trig => err[s] > 0
  /\ s \in SGP30 => data[s] # "bad"

HandshakeInv == \A s \in Sensor : Handshake(s)

LEMMA HandshakeInit == Init => HandshakeInv
BY DEF Init, HandshakeInv, Handshake

LEMMA HandshakeStep == TypeOK /\ HandshakeInv /\ [Next]_vars => HandshakeInv'
<1> SUFFICES ASSUME TypeOK, HandshakeInv, [Next]_vars,
                    NEW r \in Sensor
             PROVE  Handshake(r)'
  BY DEF HandshakeInv
<1>0. Handshake(r)
  BY DEF HandshakeInv
<1>1. CASE UNCHANGED vars
  BY <1>0, <1>1 DEF vars, Handshake
<1>2. ASSUME NEW s \in Sensor, Lock(s) PROVE Handshake(r)'
  BY <1>0, <1>2 DEF Lock, Handshake
<1>3. ASSUME NEW s \in Sensor, NEW ok \in BOOLEAN, InitStep(s, ok) PROVE Handshake(r)'
  BY <1>0, <1>3 DEF InitStep, Handshake, TypeOK
<1>4. ASSUME NEW s \in Sensor, NEW ok \in BOOLEAN, TriggerStep(s, ok) PROVE Handshake(r)'
  BY <1>0, <1>4 DEF TriggerStep, Handshake, TypeOK
<1>5. ASSUME NEW s \in Sensor, NEW b \in {"good", "bad"}, ReadOk(s, b) PROVE Handshake(r)'
  BY <1>0, <1>5 DEF ReadOk, DHT20_Result, Handshake, TypeOK
<1>6. ASSUME NEW s \in Sensor, ReadError(s) PROVE Handshake(r)'
  BY <1>0, <1>6 DEF ReadError, PICO_ERROR_GENERIC, Handshake, TypeOK
<1>7. ASSUME NEW s \in Sensor, BeginCycle(s) PROVE Handshake(r)'
  BY <1>0, <1>7 DEF BeginCycle, Sensor, TriggerSteps, BME280_InitReadSteps, SGP30_InitReadSteps,
       DHT20_InitReadSteps, Handshake, TypeOK
<1>8. ASSUME NEW s \in Sensor, Deliver(s) PROVE Handshake(r)'
  BY <1>0, <1>8, BusAssumption DEF Deliver, Valid, ProcessData, SGP30_ProcessData, Handshake,
     TypeOK
<1> QED
  BY <1>1, <1>2, <1>3, <1>4, <1>5, <1>6, <1>7, <1>8 DEF Next, Transaction

LEMMA HandshakeHolds == Spec => []HandshakeInv
BY HandshakeInit, HandshakeStep, TypeCorrect, PTL DEF Spec

(***************************************************************************)
(* No BME280 or SGP30 packet without a successful read in its own cycle.   *)
(***************************************************************************)
THEOREM PacketsAreRead == Spec => []SentWasRead
<1>1. TypeOK /\ HandshakeInv => SentWasRead
  BY DEF HandshakeInv, Handshake, Valid, SentWasRead, TypeOK
<1> QED BY <1>1, HandshakeHolds, TypeCorrect, PTL

(***************************************************************************)
(* No SGP30 packet with a bad CRC.                                         *)
(***************************************************************************)
THEOREM PacketsAreChecked == Spec => []NoCorruptPacket
<1>1. HandshakeInv => NoCorruptPacket
  BY DEF HandshakeInv, Handshake, NoCorruptPacket, Sensor
<1> QED BY <1>1, HandshakeHolds, PTL

(***************************************************************************)
(* The two together: what is sent was read in its cycle and is not corrupt.*)
(***************************************************************************)
THEOREM PacketsAreSound == Spec => []SentIsSound
BY PacketsAreRead, PacketsAreChecked, PTL DEF SentIsSound

(***************************************************************************)
(* Untriggered readings only in the wake of an I2C error.                  *)
(***************************************************************************)
THEOREM StaleOnlyAfterError == Spec => []StaleNeedsError
<1>1. HandshakeInv => StaleNeedsError
  BY DEF HandshakeInv, Handshake, StaleNeedsError
<1> QED BY <1>1, HandshakeHolds, PTL

(***************************************************************************)
(* A DHT20 packet of invalid bytes only in a cycle with an I2C error.      *)
(***************************************************************************)
THEOREM InvalidOnlyAfterError == Spec => []DHT20InvalidNeedsError
<1>1. TypeOK /\ HandshakeInv => DHT20InvalidNeedsError
  BY DEF HandshakeInv, Handshake, DHT20InvalidNeedsError, Valid, Sensor, TypeOK
<1> QED BY <1>1, HandshakeHolds, TypeCorrect, PTL

=============================================================================
