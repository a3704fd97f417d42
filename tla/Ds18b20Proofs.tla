---------------------------- MODULE Ds18b20Proofs ----------------------------
(***************************************************************************)
(* Machine-checked proofs about Ds18b20, for a scratchpad of any length    *)
(* and a line that fails at any time and any number of times.              *)
(***************************************************************************)
EXTENDS Ds18b20, TLAPS

(***************************************************************************)
(* Type correctness: the read index stays inside config->data, the sensor  *)
(* keeps a resolution it has a conversion time for, and no byte of an open *)
(* line becomes a temperature.                                             *)
(***************************************************************************)
THEOREM TypeCorrect == Spec => []TypeOK
<1>1. Init => TypeOK
  <2> SUFFICES ASSUME Init PROVE TypeOK
    OBVIOUS
  <2>1. buf \in [1 .. Length -> Byte]
    BY DEF Init, Byte
  <2>2. pad \in [temp : Reading, res : 9 .. 12] /\ eeprom \in 9 .. 12
    BY DEF Init, Reading
  <2>3. i \in 0 .. Length
    BY Ds18b20Assumption DEF Init
  <2> QED BY <2>1, <2>2, <2>3 DEF Init, TypeOK
<1>2. TypeOK /\ [Next]_vars => TypeOK'
  <2> SUFFICES ASSUME TypeOK, [Next]_vars PROVE TypeOK'
    OBVIOUS
  <2> USE Ds18b20Assumption
  <2>1. CASE UNCHANGED vars
    BY <2>1 DEF vars, task, sensor, TypeOK
  <2>2. CASE ResReset1
    BY <2>2 DEF ResReset1, OneWire_Reset, TypeOK
  <2>3. CASE ResWrite
    BY <2>3 DEF ResWrite, ConfigBits, TypeOK
  <2>4. CASE ResReset2
    BY <2>4 DEF ResReset2, OneWire_Reset, TypeOK
  <2>5. CASE ResCopy
    BY <2>5 DEF ResCopy, TypeOK
  <2>6. CASE ResRetry
    BY <2>6 DEF ResRetry, sensor, TypeOK
  <2>7. CASE ConvertReset
    <3>1. glitch' \in BOOLEAN /\ shorted' \in BOOLEAN /\ taken' \in BOOLEAN
      BY <2>7, Zenon DEF ConvertReset
    <3>2. buf' \in [1 .. Length -> Byte]
      BY <2>7 DEF ConvertReset, Older, Byte, Reading, TypeOK
    <3> QED BY <2>7, <3>1, <3>2 DEF ConvertReset, OneWire_Reset, Older, Reading, TypeOK
  <2>8. CASE ConvertCommand
    <3>1. conv' \in BOOLEAN
      BY <2>8, Zenon DEF ConvertCommand
    <3> QED BY <2>8, <3>1 DEF ConvertCommand, TypeOK
  <2>9. CASE Delay
    BY <2>9 DEF Delay, Reading, TypeOK
  <2>10. CASE ReadReset
    BY <2>10 DEF ReadReset, OneWire_Reset, TypeOK
  <2>11. CASE ReadCommand
    BY <2>11 DEF ReadCommand, TypeOK
  <2>12. CASE OneWire_Read
    <3>1. buf' \in [1 .. Length -> Byte]
      BY <2>12 DEF OneWire_Read, Byte, TypeOK
    <3>2. i' \in 0 .. Length /\ (pc' = "bytes" => i' < Length)
      BY <2>12 DEF OneWire_Read, TypeOK
    <3> QED BY <2>12, <3>1, <3>2 DEF OneWire_Read, TypeOK
  <2>13. CASE DS18B20_ProcessData
    <3>1. DS18B20_CRC => buf[1] \in Reading \cup {"00"}
      BY DEF DS18B20_CRC, Byte, TypeOK
    <3>2. taken' \in BOOLEAN
      BY <2>13, Zenon DEF DS18B20_ProcessData
    <3> QED BY <2>13, <3>1, <3>2 DEF DS18B20_ProcessData, sensor, TypeOK
  <2>14. CASE Send
    BY <2>14 DEF Send, sensor, TypeOK
  <2>15. ASSUME NEW l \in {"open", "short"}, LineFails(l) PROVE TypeOK'
    <3>1. shorted' \in BOOLEAN
      BY <2>15, Zenon DEF LineFails
    <3> QED BY <2>15, <3>1 DEF LineFails, task, TypeOK
  <2>16. CASE LineReturns
    BY <2>16 DEF LineReturns, task, Reading, TypeOK
  <2> QED
    BY <2>1, <2>2, <2>3, <2>4, <2>5, <2>6, <2>7, <2>8, <2>9, <2>10, <2>11, <2>12, <2>13,
       <2>14, <2>15, <2>16 DEF Next, vDS18B20_Task, Line
<1> QED BY <1>1, <1>2, PTL DEF Spec

-----------------------------------------------------------------------------
(***************************************************************************)
(* A zero among the bytes of this read, or in the temperature accepted,    *)
(* comes from a line that was low in this cycle.  Nothing is said of the   *)
(* bytes beyond those read: those may be zeros config->data starts with or *)
(* has from an earlier short, which is why the result of a read counts.    *)
(***************************************************************************)
ZeroInv ==
  /\ line = "short" => shorted
  /\ taken /\ temperature = "00" => shorted
  /\ pc = "bytes" => \A k \in 1 .. i : buf[k] = "00" => shorted
  /\ pc = "check" /\ result => \A k \in 1 .. Length : buf[k] = "00" => shorted

LEMMA ZeroStep == TypeOK /\ ZeroInv /\ [Next]_vars => ZeroInv'
<1> SUFFICES ASSUME TypeOK, ZeroInv, [Next]_vars PROVE ZeroInv'
  OBVIOUS
<1> USE Ds18b20Assumption
<1>1. CASE UNCHANGED vars
  BY <1>1 DEF vars, task, sensor, ZeroInv
<1>2. ASSUME ResReset1 \/ ResWrite \/ ResReset2 \/ ResCopy \/ ResRetry PROVE ZeroInv'
  BY <1>2 DEF ResReset1, ResWrite, ResReset2, ResCopy, ResRetry, OneWire_Reset, ZeroInv
<1>3. CASE ConvertReset
  BY <1>3 DEF ConvertReset, OneWire_Reset, Older, ZeroInv
<1>4. ASSUME ConvertCommand \/ Delay \/ ReadReset \/ ReadCommand PROVE ZeroInv'
  BY <1>4 DEF ConvertCommand, Delay, ReadReset, ReadCommand, OneWire_Reset, ZeroInv
<1>5. CASE OneWire_Read
  <2>1. ASSUME NEW k \in 1 .. i + 1, buf'[k] = "00" PROVE shorted
    BY <1>5, <2>1 DEF OneWire_Read, ZeroInv, TypeOK, Reading
  <2>2. i' = i + 1 /\ (pc' = "check" => i + 1 = Length) /\ pc' \in {"bytes", "check"}
    BY <1>5 DEF OneWire_Read, TypeOK
  <2> QED BY <1>5, <2>1, <2>2 DEF OneWire_Read, ZeroInv
<1>6. CASE DS18B20_ProcessData
  BY <1>6 DEF DS18B20_ProcessData, ZeroInv, TypeOK
<1>7. CASE Send
  BY <1>7 DEF Send, ZeroInv
<1>8. ASSUME NEW l \in {"open", "short"}, LineFails(l) PROVE ZeroInv'
  BY <1>8 DEF LineFails, task, ZeroInv
<1>9. CASE LineReturns
  BY <1>9 DEF LineReturns, task, ZeroInv
<1> QED
  BY <1>1, <1>2, <1>3, <1>4, <1>5, <1>6, <1>7, <1>8, <1>9 DEF Next, vDS18B20_Task, Line

(***************************************************************************)
(* DS18B20_ProcessData makes a temperature of 0 only of zeros that were on *)
(* the wire in this cycle, although the checksum of an untouched           *)
(* config->data is good.                                                   *)
(***************************************************************************)
THEOREM ZeroIsFromTheWire == Spec => []ZeroOnlyFromShort
<1>1. Init => ZeroInv
  BY DEF Init, ZeroInv
<1>2. ZeroInv => ZeroOnlyFromShort
  BY DEF ZeroInv, ZeroOnlyFromShort
<1> QED BY <1>1, <1>2, ZeroStep, TypeCorrect, PTL DEF Spec

-----------------------------------------------------------------------------
(***************************************************************************)
(* How far a cycle on an unbroken line has come: each step of the task     *)
(* finds the sensor in the state the step before left it in, down to the   *)
(* bytes read so far.                                                      *)
(***************************************************************************)
CycleInv ==
  pc \in {"convert", "delay", "read", "command", "bytes", "check", "send"} /\ ~glitch =>
    /\ line = "ok"
    /\ pc = "convert" => dev = "reset"
    /\ pc = "delay" => conv
    /\ pc \in {"read", "command", "bytes"} => pad.temp = "now"
    /\ pc = "command" => dev = "reset"
    /\ pc = "bytes" => dev = "sending" /\ \A k \in 1 .. i : buf[k] = "now"
    /\ pc = "check" => result /\ \A k \in 1 .. Length : buf[k] = "now"
    /\ pc = "send" => temperature = "now"

\* With the delay for 12 bits every conversion is over in time, whatever resolution
\* the sensor woke up with.
LEMMA DelayIsLongEnough ==
  ASSUME Resolution \notin 9 .. 11, NEW r \in 9 .. 12
  PROVE  DelayTime >= ConversionTime[r]
BY Ds18b20Assumption DEF DelayTime, ConversionTime

LEMMA CycleStep ==
  ASSUME Resolution \notin 9 .. 11
  PROVE  TypeOK /\ CycleInv /\ [Next]_vars => CycleInv'
<1> SUFFICES ASSUME TypeOK, CycleInv, [Next]_vars PROVE CycleInv'
  OBVIOUS
<1> USE Ds18b20Assumption
<1>1. CASE UNCHANGED vars
  BY <1>1 DEF vars, task, sensor, CycleInv
<1>2. ASSUME ResReset1 \/ ResWrite \/ ResReset2 \/ ResCopy \/ ResRetry PROVE CycleInv'
  BY <1>2 DEF ResReset1, ResWrite, ResReset2, ResCopy, ResRetry, OneWire_Reset, CycleInv
<1>3. CASE ConvertReset
  BY <1>3 DEF ConvertReset, OneWire_Reset, Present, CycleInv
<1>4. CASE ConvertCommand
  BY <1>4 DEF ConvertCommand, Listens, CycleInv
<1>5. CASE Delay
  <2>1. DelayTime >= ConversionTime[pad.res]
    BY DelayIsLongEnough DEF TypeOK
  <2> QED BY <1>5, <2>1 DEF Delay, CycleInv, TypeOK
<1>6. CASE ReadReset
  BY <1>6 DEF ReadReset, OneWire_Reset, Present, CycleInv
<1>7. CASE ReadCommand
  BY <1>7 DEF ReadCommand, Listens, CycleInv
<1>8. CASE OneWire_Read
  <2> SUFFICES ASSUME ~glitch PROVE CycleInv'
    BY <1>8 DEF OneWire_Read, CycleInv
  <2>1. line = "ok" /\ dev = "sending" /\ pad.temp = "now" /\ \A k \in 1 .. i : buf[k] = "now"
    BY <1>8 DEF OneWire_Read, CycleInv
  <2>2. ASSUME NEW k \in 1 .. i + 1 PROVE buf'[k] = "now"
    BY <1>8, <2>1, <2>2 DEF OneWire_Read, TypeOK
  <2>3. i' = i + 1 /\ (pc' = "check" => i + 1 = Length) /\ pc' \in {"bytes", "check"}
    BY <1>8 DEF OneWire_Read, TypeOK
  <2> QED BY <1>8, <2>1, <2>2, <2>3 DEF OneWire_Read, CycleInv
<1>9. CASE DS18B20_ProcessData
  BY <1>9 DEF DS18B20_ProcessData, DS18B20_CRC, sensor, CycleInv
<1>10. CASE Send
  BY <1>10 DEF Send, CycleInv
<1>11. ASSUME NEW l \in {"open", "short"}, LineFails(l) PROVE CycleInv'
  BY <1>11 DEF LineFails, CycleInv
<1>12. CASE LineReturns
  BY <1>12 DEF LineReturns, task, CycleInv
<1> QED
  BY <1>1, <1>2, <1>3, <1>4, <1>5, <1>6, <1>7, <1>8, <1>9, <1>10, <1>11, <1>12
     DEF Next, vDS18B20_Task, Line

(***************************************************************************)
(* With the resolution main.c configures (or one DS18B20_SetResolution     *)
(* does not know), every cycle on an unbroken line sends the temperature   *)
(* of this cycle.  At 9 to 11 bits it does not hold: a sensor that lost    *)
(* its power between the two resets of DS18B20_SetResolution converts with *)
(* 12 bits and is read too early.                                          *)
(***************************************************************************)
THEOREM FreshOnGoodLine ==
  ASSUME Resolution \notin 9 .. 11
  PROVE  Spec => []FreshUnlessGlitch
<1>1. Init => CycleInv
  BY DEF Init, CycleInv
<1>2. CycleInv => FreshUnlessGlitch
  BY DEF CycleInv, FreshUnlessGlitch
<1> QED BY <1>1, <1>2, CycleStep, TypeCorrect, PTL DEF Spec

-----------------------------------------------------------------------------
(***************************************************************************)
(* Where a reading of an earlier cycle may still be: in the scratchpad of  *)
(* a sensor that is about to convert or has no power, and in the bytes of  *)
(* config->data that this cycle has not read.                              *)
(***************************************************************************)
StaleInv ==
  /\ line = "ok" /\ pad.temp = "old" =>
       /\ pc \notin {"read", "command", "bytes"}
       /\ pc = "convert" => dev = "reset"
       /\ pc = "delay" => conv
  /\ pc = "bytes" => \A k \in 1 .. i : buf[k] # "old"
  /\ pc = "check" /\ result => \A k \in 1 .. Length : buf[k] # "old"
  /\ taken => temperature # "old"

LEMMA StaleStep ==
  ASSUME Resolution \notin 9 .. 11
  PROVE  TypeOK /\ StaleInv /\ [Next]_vars => StaleInv'
<1> SUFFICES ASSUME TypeOK, StaleInv, [Next]_vars PROVE StaleInv'
  OBVIOUS
<1> USE Ds18b20Assumption
<1>1. CASE UNCHANGED vars
  BY <1>1 DEF vars, task, sensor, StaleInv
<1>2. CASE ResReset1 \/ ResReset2 \/ ResCopy \/ ResRetry
  BY <1>2 DEF ResReset1, ResReset2, ResCopy, ResRetry, OneWire_Reset, sensor, StaleInv
<1>3. CASE ResWrite
  BY <1>3 DEF ResWrite, StaleInv, TypeOK
<1>4. CASE ConvertReset
  BY <1>4 DEF ConvertReset, OneWire_Reset, Present, StaleInv
<1>5. CASE ConvertCommand
  BY <1>5 DEF ConvertCommand, Listens, StaleInv
<1>6. CASE Delay
  <2>1. DelayTime >= ConversionTime[pad.res]
    BY DelayIsLongEnough DEF TypeOK
  <2> QED BY <1>6, <2>1 DEF Delay, StaleInv, TypeOK
<1>7. CASE ReadReset
  BY <1>7 DEF ReadReset, OneWire_Reset, StaleInv
<1>8. CASE ReadCommand
  BY <1>8 DEF ReadCommand, StaleInv
<1>9. CASE OneWire_Read
  <2>1. ASSUME NEW k \in 1 .. i + 1 PROVE buf'[k] # "old"
    BY <1>9, <2>1 DEF OneWire_Read, StaleInv, TypeOK
  <2>2. i' = i + 1 /\ (pc' = "check" => i + 1 = Length) /\ pc' \in {"bytes", "check"}
    BY <1>9 DEF OneWire_Read, TypeOK
  <2> QED BY <1>9, <2>1, <2>2 DEF OneWire_Read, StaleInv
<1>10. CASE DS18B20_ProcessData
  BY <1>10 DEF DS18B20_ProcessData, sensor, StaleInv, TypeOK
<1>11. CASE Send
  BY <1>11 DEF Send, sensor, StaleInv
<1>12. ASSUME NEW l \in {"open", "short"}, LineFails(l) PROVE StaleInv'
  BY <1>12 DEF LineFails, task, StaleInv
<1>13. CASE LineReturns
  BY <1>13 DEF LineReturns, task, StaleInv
<1> QED
  BY <1>1, <1>2, <1>3, <1>4, <1>5, <1>6, <1>7, <1>8, <1>9, <1>10, <1>11, <1>12, <1>13
     DEF Next, vDS18B20_Task, Line

(***************************************************************************)
(* With the resolution main.c configures, no reading of an earlier cycle   *)
(* is accepted as new: neither bytes a failed read left in config->data    *)
(* nor a scratchpad that was not converted in this cycle.                  *)
(***************************************************************************)
THEOREM OldReadingsStayOut ==
  ASSUME Resolution \notin 9 .. 11
  PROVE  Spec => []StaleNeverTaken
<1>1. Init => StaleInv
  BY DEF Init, StaleInv
<1>2. StaleInv => StaleNeverTaken
  BY DEF StaleInv, StaleNeverTaken
<1> QED BY <1>1, <1>2, StaleStep, TypeCorrect, PTL DEF Spec

=============================================================================
