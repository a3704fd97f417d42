----------------------------- MODULE I2CSensors -----------------------------
(***************************************************************************)
(* The tasks of the I2C sensors (bme280.c, sgp30.c, dht20.c) that share    *)
(* one bus and its mutex.  A task initialises its sensor, retrying for     *)
(* ever, and then cycles: trigger a measurement, wait, read the raw bytes, *)
(* decide whether they are valid, send the data packet.                    *)
(*                                                                         *)
(* A routine is a run of bus transactions, each between mutex_enter_       *)
(* blocking and mutex_exit; any of them may end in PICO_ERROR_GENERIC.     *)
(* Raw bytes and packets are abstracted to where they come from: "zero"    *)
(* (never read), "good" (a valid answer of the sensor) or "bad" (an answer *)
(* whose CRC is wrong or, for the DHT20, that says the sensor is busy).    *)
(* The BME280 protocol carries no check, so its answers count as good.     *)
(***************************************************************************)
EXTENDS Integers

CONSTANTS BME280, SGP30, DHT20,   \* the sensors of each kind on this bus
          NULL                    \* the mutex has no owner

Sensor == BME280 \cup SGP30 \cup DHT20

ASSUME BusAssumption ==
  /\ BME280 \cap SGP30 = {}
  /\ (BME280 \cup SGP30) \cap DHT20 = {}
  /\ NULL \notin Sensor

VARIABLES
  mutex,    \* i2c->mutex: its owner
  inside,   \* the tasks between mutex_enter_blocking and mutex_exit
  phase,    \* the routine each task is in
  left,     \* the transactions that routine still has to make
  status,   \* config->status (the DHT20 has none)
  result,   \* what the last DHT20_Read returned
  raw,      \* config->rawData
  data,     \* params->data
  trig,     \* history: the sensors whose trigger of this cycle succeeded
  got,      \* history: the sensors whose read of this cycle succeeded
  err       \* history: 2 = an I2C error in this cycle, 1 = in the one before

vars == <<mutex, inside, phase, left, status, result, raw, data, trig, got, err>>

PICO_ERROR_GENERIC == -1
Bytes == {"zero", "good", "bad"}

(***************************************************************************)
(* The bus transactions of each routine, in order; the action of a step    *)
(* says where the routine may end early.                                   *)
(***************************************************************************)
\* Two calibration blocks, then the humidity, filter and mode registers.
BME280_InitSteps == 5
\* SGP30_INIT by SGP30_WriteCommand.
SGP30_InitSteps == 1
\* The status byte, then the calibration command unless it is calibrated.
DHT20_InitSteps == 2
\* The humidity and the mode register.
BME280_InitReadSteps == 2
\* SGP30_START_MEASURE by SGP30_WriteCommand.
SGP30_InitReadSteps == 1
\* The measurement command.
DHT20_InitReadSteps == 1

InitSteps(s) == IF s \in BME280 THEN BME280_InitSteps
                ELSE IF s \in SGP30 THEN SGP30_InitSteps ELSE DHT20_InitSteps

TriggerSteps(s) == IF s \in BME280 THEN BME280_InitReadSteps
                   ELSE IF s \in SGP30 THEN SGP30_InitReadSteps
                   ELSE DHT20_InitReadSteps

\* Mutant: the bytes are not checked.
ResultUnchecked(bytes) == 1

\* What DHT20_Read makes of the bytes: false if the sensor says it is busy or
\* the CRC is wrong.
DHT20_Result(bytes) == IF bytes = "good" THEN 1 ELSE 0

Init ==
  /\ mutex  = NULL
  /\ inside = {}
  /\ phase  = [s \in Sensor |-> "init"]
  /\ left   = [s \in Sensor |-> InitSteps(s)]
  /\ status = [s \in Sensor |-> "init"]
  /\ result = [s \in Sensor |-> 0]
  /\ raw    = [s \in Sensor |-> "zero"]
  /\ data   = [s \in Sensor |-> "zero"]
  /\ trig   = {}
  /\ got    = {}
  /\ err    = [s \in Sensor |-> 0]

-----------------------------------------------------------------------------
\* mutex_enter_blocking
Lock(s) ==
  /\ phase[s] \in {"init", "trigger", "read"}
  /\ s \notin inside
  /\ mutex = NULL
  /\ mutex'  = s
  /\ inside' = inside \cup {s}
  /\ UNCHANGED <<phase, left, status, result, raw, data, trig, got, err>>

\* mutex_exit
Unlock(s) == mutex' = NULL /\ inside' = inside \ {s}

(***************************************************************************)
(* A transaction of BME280_Init, SGP30_Init or DHT20_Init.  A failed one   *)
(* ends the routine, and the error loop of the task starts it again.  (The *)
(* memset of rawData finds it zero: nothing has been read before.)         *)
(***************************************************************************)
InitStep(s, ok) ==
  /\ phase[s] = "init"
  /\ s \in inside
  /\ Unlock(s)
  /\ \/ /\ ~ok
        /\ left' = [left EXCEPT ![s] = InitSteps(s)]
        /\ UNCHANGED phase
     \/ /\ ok
        /\ left[s] > 1
        /\ left' = [left EXCEPT ![s] = @ - 1]
        /\ UNCHANGED phase
     \/ /\ ok
        /\ left[s] = 1 \/ s \in DHT20
        /\ left'  = [left EXCEPT ![s] = 0]
        /\ phase' = [phase EXCEPT ![s] = "idle"]
  /\ UNCHANGED <<status, result, raw, data, trig, got, err>>

\* Mutant: InitRead does not claim the read in config->status.
BeginCycleNoClaim(s) ==
  /\ phase[s] = "idle"
  /\ phase' = [phase EXCEPT ![s] = "trigger"]
  /\ left'  = [left EXCEPT ![s] = TriggerSteps(s)]
  /\ UNCHANGED <<mutex, inside, status, result, raw, data, trig, got, err>>

(***************************************************************************)
(* The polling delay is over: BME280_InitRead and SGP30_InitRead return at *)
(* once while the status still says a read is in progress.                 *)
(***************************************************************************)
BeginCycle(s) ==
  /\ phase[s] = "idle"
  /\ IF s \notin DHT20 /\ status[s] = "progress"
     THEN /\ phase' = [phase EXCEPT ![s] = "read"]
          /\ left'  = [left EXCEPT ![s] = 1]
          /\ UNCHANGED status
     ELSE /\ phase'  = [phase EXCEPT ![s] = "trigger"]
          /\ left'   = [left EXCEPT ![s] = TriggerSteps(s)]
          /\ status' = IF s \in DHT20 THEN status
                       ELSE [status EXCEPT ![s] = "progress"]
  /\ UNCHANGED <<mutex, inside, result, raw, data, trig, got, err>>

\* Mutant: the early return of a failed trigger forgets mutex_exit.
TriggerStepNoExit(s, ok) ==
  /\ phase[s] = "trigger"
  /\ s \in inside
  /\ mutex'  = IF ok THEN NULL ELSE mutex
  /\ inside' = inside \ {s}
  /\ left'  = [left EXCEPT ![s] = IF ok /\ @ > 1 THEN @ - 1 ELSE 1]
  /\ phase' = [phase EXCEPT ![s] = IF ok /\ left[s] > 1 THEN "trigger" ELSE "read"]
  /\ trig'  = IF ok /\ left[s] = 1 THEN trig \cup {s} ELSE trig
  /\ err'   = [err EXCEPT ![s] = IF ok THEN @ ELSE 2]
  /\ UNCHANGED <<status, result, raw, data, got>>

\* A transaction of an InitRead; the task ignores how the routine ended.
TriggerStep(s, ok) ==
  /\ phase[s] = "trigger"
  /\ s \in inside
  /\ Unlock(s)
  /\ left'  = [left EXCEPT ![s] = IF ok /\ @ > 1 THEN @ - 1 ELSE 1]
  /\ phase' = [phase EXCEPT ![s] = IF ok /\ left[s] > 1 THEN "trigger" ELSE "read"]
  /\ trig'  = IF ok /\ left[s] = 1 THEN trig \cup {s} ELSE trig
  /\ err'   = [err EXCEPT ![s] = IF ok THEN @ ELSE 2]
  /\ UNCHANGED <<status, result, raw, data, got>>

\* Mutant: a successful read does not reset config->status.
ReadOkKeepsStatus(s, bytes) ==
  /\ phase[s] = "read"
  /\ s \in inside
  /\ bytes = "good" \/ s \notin BME280
  /\ Unlock(s)
  /\ raw'    = [raw EXCEPT ![s] = bytes]
  /\ result' = [result EXCEPT ![s] = IF bytes = "good" THEN 1 ELSE 0]
  /\ got'    = got \cup {s}
  /\ left'   = [left EXCEPT ![s] = 0]
  /\ phase'  = [phase EXCEPT ![s] = "deliver"]
  /\ UNCHANGED <<status, data, trig, err>>

\* Mutant: the read is repeated until the sensor gives a valid answer.
ReadUntilValid(s, bytes) ==
  /\ phase[s] = "read"
  /\ s \in inside
  /\ Unlock(s)
  /\ raw'    = [raw EXCEPT ![s] = bytes]
  /\ status' = [status EXCEPT ![s] = "success"]
  /\ result' = [result EXCEPT ![s] = 1]
  /\ got'    = got \cup {s}
  /\ left'   = [left EXCEPT ![s] = IF bytes = "good" THEN 0 ELSE 1]
  /\ phase'  = [phase EXCEPT ![s] = IF bytes = "good" THEN "deliver" ELSE "read"]
  /\ UNCHANGED <<data, trig, err>>

\* BME280_Read, SGP30_Read or DHT20_Read when the transaction succeeds.
ReadOk(s, bytes) ==
  /\ phase[s] = "read"
  /\ s \in inside
  /\ bytes = "good" \/ s \notin BME280
  /\ Unlock(s)
  /\ raw'    = [raw EXCEPT ![s] = bytes]
  /\ status' = IF s \in DHT20 THEN status ELSE [status EXCEPT ![s] = "success"]
  /\ result' = IF s \in DHT20
               THEN [result EXCEPT ![s] = DHT20_Result(bytes)]
               ELSE result
  /\ got'    = got \cup {s}
  /\ left'   = [left EXCEPT ![s] = 0]
  /\ phase'  = [phase EXCEPT ![s] = "deliver"]
  /\ UNCHANGED <<data, trig, err>>

\* ... and when it fails: the status and the raw bytes stay as they were.
ReadError(s) ==
  /\ phase[s] = "read"
  /\ s \in inside
  /\ Unlock(s)
  /\ result' = IF s \in DHT20
               THEN [result EXCEPT ![s] = PICO_ERROR_GENERIC] ELSE result
  /\ err'    = [err EXCEPT ![s] = 2]
  /\ left'   = [left EXCEPT ![s] = 0]
  /\ phase'  = [phase EXCEPT ![s] = "deliver"]
  /\ UNCHANGED <<status, raw, data, trig, got>>

\* The condition under which a task processes and sends.
Valid(s) == IF s \in DHT20 THEN result[s] # 0 ELSE status[s] = "success"

\* SGP30_ProcessData returns early on a bad CRC of either word.
SGP30_ProcessData(s) == IF raw[s] = "bad" THEN data[s] ELSE raw[s]

\* BME280_ProcessData and DHT20_ProcessData convert whatever is in rawData.
ProcessData(s) == IF s \in SGP30 THEN SGP30_ProcessData(s) ELSE raw[s]

\* The end of the cycle: process and xQueueSend params->data, or nothing.  What
\* DHT20_Read returned is gone with it.
Deliver(s) ==
  /\ phase[s] = "deliver"
  /\ data'   = IF Valid(s) THEN [data EXCEPT ![s] = ProcessData(s)] ELSE data
  /\ result' = [result EXCEPT ![s] = 0]
  /\ phase'  = [phase EXCEPT ![s] = "idle"]
  /\ trig'   = trig \ {s}
  /\ got'    = got \ {s}
  /\ err'    = [err EXCEPT ![s] = IF @ > 0 THEN @ - 1 ELSE 0]
  /\ UNCHANGED <<mutex, inside, left, status, raw>>

-----------------------------------------------------------------------------
\* The transaction the owner of the mutex is in comes to its end.
Transaction(s) ==
  \/ \E ok \in BOOLEAN : InitStep(s, ok) \/ TriggerStep(s, ok)
  \/ \E bytes \in {"good", "bad"} : ReadOk(s, bytes)
  \/ ReadError(s)

Next == \E s \in Sensor : Lock(s) \/ Transaction(s) \/ BeginCycle(s) \/ Deliver(s)

Spec == Init /\ [][Next]_vars

\* A holder keeps the mutex for one bounded transaction and then sleeps, so a
\* waiter that never gives up gets its turn.
Fairness ==
  \A s \in Sensor : /\ SF_vars(Lock(s))
                    /\ WF_vars(Transaction(s) \/ BeginCycle(s) \/ Deliver(s))

FairSpec == Spec /\ Fairness

-----------------------------------------------------------------------------
TypeOK ==
  /\ mutex  \in Sensor \cup {NULL}
  /\ inside \subseteq Sensor
  /\ phase  \in [Sensor -> {"init", "idle", "trigger", "read", "deliver"}]
  /\ left   \in [Sensor -> 0 .. 5]
  /\ status \in [Sensor -> {"init", "progress", "success"}]
  /\ result \in [Sensor -> -1 .. 1]
  /\ raw    \in [Sensor -> Bytes]
  /\ data   \in [Sensor -> Bytes]
  /\ trig   \subseteq Sensor
  /\ got    \subseteq Sensor
  /\ err    \in [Sensor -> 0 .. 2]

(***************************************************************************)
(* One transaction at a time on the bus, and the mutex is never left       *)
(* locked behind a task that has left its transaction by an early return.  *)
(***************************************************************************)
BusExclusive == inside = {s \in Sensor : mutex = s}

(***************************************************************************)
(* A BME280 or SGP30 packet is sent only in a cycle whose read succeeded:  *)
(* the status left by an earlier cycle never passes for a new reading,     *)
(* although neither task looks at what InitRead and Read returned.         *)
(***************************************************************************)
SentWasRead ==
  \A s \in Sensor \ DHT20 : phase[s] = "deliver" /\ Valid(s) => s \in got

(***************************************************************************)
(* No SGP30 packet carries bytes with a bad CRC, although params->data is  *)
(* sent whether ProcessData accepted the bytes or not.                     *)
(***************************************************************************)
NoCorruptPacket == \A s \in SGP30 : data[s] # "bad"

(***************************************************************************)
(* What the BME280 and SGP30 tasks send was read in this cycle and, for an *)
(* SGP30, has passed the CRC in this or an earlier one.                    *)
(***************************************************************************)
SentIsSound == SentWasRead /\ NoCorruptPacket

(***************************************************************************)
(* A reading that was not triggered in its own cycle is only delivered if  *)
(* an I2C error happened in that cycle or in the one before: the status    *)
(* test of InitRead cannot get stuck and skip triggers for ever.           *)
(***************************************************************************)
StaleNeedsError ==
  \A s \in Sensor : phase[s] = "deliver" /\ s \in got \ trig => err[s] > 0

(***************************************************************************)
(* Once initialised, every sensor completes its cycles, whichever of its   *)
(* transactions and whichever of the other tasks' fail: no error path      *)
(* keeps the bus.                                                          *)
(***************************************************************************)
CyclesComplete ==
  \A s \in Sensor : (phase[s] # "init") ~> (phase[s] = "deliver")

(***************************************************************************)
(* DHT20_Read returns -1 on an I2C error, which the task's if takes for    *)
(* true.  That is the only way a DHT20 packet is made of bytes that were   *)
(* never read or that DHT20_Read itself had rejected.                      *)
(***************************************************************************)
DHT20InvalidNeedsError ==
  \A s \in DHT20 : phase[s] = "deliver" /\ Valid(s) /\ raw[s] # "good" => err[s] = 2

=============================================================================
