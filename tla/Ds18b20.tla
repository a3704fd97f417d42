------------------------------- MODULE Ds18b20 -------------------------------
(***************************************************************************)
(* ds18b20.c on onewire.c: the task that sets the resolution of a DS18B20, *)
(* then has it convert, waits and reads its scratchpad, over and over.     *)
(* Nothing on the bus acknowledges: a sensor that is gone or has lost its  *)
(* power shows only in the presence bit of a reset and in the bytes read.  *)
(*                                                                         *)
(* External: the sensor (scratchpad, EEPROM, conversion) and the line,     *)
(* which may be open or shorted to ground for a while; an interrupted line *)
(* is a power failure of the sensor.  A temperature is abstracted to where *)
(* it comes from; times are in ms.                                         *)
(***************************************************************************)
EXTENDS Naturals

CONSTANTS Resolution,   \* config->resolution; 12 in main.c
          Length        \* bound for config->length, 9 in the code

ASSUME Ds18b20Assumption == Resolution \in Nat /\ Length \in Nat \ {0}

\* Where a temperature comes from: this conversion, an earlier one, the value after
\* power-on (85 degrees), or no sensor at all.
Reading == {"now", "old", "poweron"}
Byte    == Reading \cup {"00", "FF"}

ConversionTime == [r \in 9 .. 12 |-> IF r = 9 THEN 94 ELSE IF r = 10 THEN 188
                                     ELSE IF r = 11 THEN 375 ELSE 750]

VARIABLES
  pc,          \* where the task is
  i,           \* bytes read
  buf,         \* config->data
  result,      \* of DS18B20_SkipRead
  temperature, \* data->temperature
  line,        \* "ok", "open", "short"
  pad,         \* scratchpad: temperature and resolution
  eeprom,      \* resolution after power-on
  dev,         \* what the sensor is doing on the bus
  conv,        \* it is converting
  glitch,      \* history: the line failed since this cycle began
  shorted,     \* history: the line was shorted since this cycle began
  taken        \* history: a reading was accepted in this cycle

task   == <<pc, i, buf, result, temperature>>
sensor == <<pad, eeprom, dev, conv>>
vars   == <<task, line, sensor, glitch, shorted, taken>>

\* A new sensor has 12 bits in its EEPROM.  config->data is a static array and
\* data->temperature starts as 0.0f.
Init ==
  /\ pc = "res1" /\ i = 0 /\ buf = [k \in 1 .. Length |-> "00"]
  /\ result = FALSE /\ temperature = "00"
  /\ line = "ok" /\ pad = [temp |-> "poweron", res |-> 12] /\ eeprom = 12
  /\ dev = "idle" /\ conv = FALSE
  /\ glitch = FALSE /\ shorted = FALSE /\ taken = FALSE

-----------------------------------------------------------------------------
(* External: the line *)

LineFails(l) ==
  /\ line = "ok" /\ line' = l
  /\ dev' = "off" /\ conv' = FALSE /\ glitch' = TRUE
  /\ shorted' = (shorted \/ l = "short")
  /\ UNCHANGED <<task, pad, eeprom, taken>>

\* The sensor starts with the resolution of its EEPROM.
LineReturns ==
  /\ line # "ok" /\ line' = "ok"
  /\ pad' = [temp |-> "poweron", res |-> eeprom] /\ dev' = "idle"
  /\ UNCHANGED <<task, eeprom, conv, glitch, shorted, taken>>

-----------------------------------------------------------------------------
(* The bus *)

\* OneWire_Reset: low in the presence slot, which a shorted line is too.
Present == line # "open"

\* A reset, then the task is at yes or at no; a conversion goes on.
OneWire_Reset(yes, no) ==
  /\ pc'  = IF Present THEN yes ELSE no
  /\ dev' = IF line = "ok" THEN "reset" ELSE dev

\* OneWire_WriteByte of SKIP_ROM and a command with its data.  The sensor listens
\* only after a reset.
Listens == line = "ok" /\ dev = "reset"

-----------------------------------------------------------------------------
(* DS18B20_SetResolution and the loop around it *)

\* The configuration byte, with 12 bits for anything else.
ConfigBits == IF Resolution \in 9 .. 11 THEN Resolution ELSE 12

ResReset1 ==
  /\ pc = "res1"
  /\ OneWire_Reset("write", "retry")
  /\ UNCHANGED <<i, buf, result, temperature, line, pad, eeprom, conv, glitch, shorted, taken>>

ResWrite ==
  /\ pc = "write" /\ pc' = "res2"
  /\ pad' = IF Listens THEN [pad EXCEPT !.res = ConfigBits] ELSE pad
  /\ dev' = IF Listens THEN "idle" ELSE dev
  /\ UNCHANGED <<i, buf, result, temperature, line, eeprom, conv, glitch, shorted, taken>>

ResReset2 ==
  /\ pc = "res2"
  /\ OneWire_Reset("copy", "retry")
  /\ UNCHANGED <<i, buf, result, temperature, line, pad, eeprom, conv, glitch, shorted, taken>>

\* COPY_SCRATCHPAD and 12 ms.
ResCopy ==
  /\ pc = "copy" /\ pc' = "start"
  /\ eeprom' = IF Listens THEN pad.res ELSE eeprom
  /\ dev' = IF Listens THEN "idle" ELSE dev
  /\ UNCHANGED <<i, buf, result, temperature, line, pad, conv, glitch, shorted, taken>>

\* Mutant: after a failure the task waits and never tries again.
RetryNever ==
  /\ pc = "retry"
  /\ UNCHANGED vars

\* vTaskDelay(10000)
ResRetry ==
  /\ pc = "retry" /\ pc' = "res1"
  /\ UNCHANGED <<i, buf, result, temperature, line, sensor, glitch, shorted, taken>>

-----------------------------------------------------------------------------
(* One cycle of vDS18B20_Task *)

Older(t) == IF t = "now" THEN "old" ELSE t

\* The start of the loop, and the reset of DS18B20_Convert, whose result the task
\* ignores.
ConvertReset ==
  /\ pc = "start"
  /\ OneWire_Reset("convert", "delay")
  /\ pad' = [pad EXCEPT !.temp = Older(@)]
  /\ buf' = [k \in 1 .. Length |-> Older(buf[k])]
  /\ temperature' = Older(temperature)
  /\ glitch' = (line # "ok") /\ shorted' = (line = "short") /\ taken' = FALSE
  /\ UNCHANGED <<i, result, line, eeprom, conv>>

ConvertCommand ==
  /\ pc = "convert" /\ pc' = "delay"
  /\ conv' = (conv \/ Listens)
  /\ dev' = IF Listens THEN "idle" ELSE dev
  /\ UNCHANGED <<i, buf, result, temperature, line, pad, eeprom, glitch, shorted, taken>>

\* Mutant: the delays belong to the next lower resolution.
DelayShort == IF Resolution = 10 THEN 95 ELSE IF Resolution = 11 THEN 190
              ELSE IF Resolution = 12 THEN 380 ELSE 800

DelayTime == IF Resolution = 9 THEN 95 ELSE IF Resolution = 10 THEN 190
             ELSE IF Resolution = 11 THEN 380 ELSE IF Resolution = 12 THEN 755 ELSE 800

\* A conversion that is not over by then goes on, and the scratchpad still holds
\* what it held before.
Delay ==
  /\ pc = "delay" /\ pc' = "read"
  /\ IF conv /\ DelayTime >= ConversionTime[pad.res]
     THEN pad' = [pad EXCEPT !.temp = "now"] /\ conv' = FALSE
     ELSE UNCHANGED <<pad, conv>>
  /\ UNCHANGED <<i, buf, result, temperature, line, eeprom, dev, glitch, shorted, taken>>

\* Mutant: the result of the read is not reset.
ReadResetKeeps ==
  /\ pc = "read"
  /\ OneWire_Reset("command", "check")
  /\ UNCHANGED <<i, buf, result, temperature, line, pad, eeprom, conv, glitch, shorted, taken>>

\* DS18B20_SkipRead
ReadReset ==
  /\ pc = "read"
  /\ OneWire_Reset("command", "check")
  /\ result' = FALSE
  /\ UNCHANGED <<i, buf, temperature, line, pad, eeprom, conv, glitch, shorted, taken>>

ReadCommand ==
  /\ pc = "command" /\ pc' = "bytes"
  /\ i' = 0
  /\ dev' = IF Listens THEN "sending" ELSE dev
  /\ UNCHANGED <<buf, result, temperature, line, pad, eeprom, conv, glitch, shorted, taken>>

\* OneWire_Read: ones if nobody pulls the line down.
OneWire_Read ==
  /\ pc = "bytes"
  /\ i' = i + 1
  /\ buf' = [buf EXCEPT ![i + 1] = IF line = "short" THEN "00"
                                   ELSE IF line = "ok" /\ dev = "sending" THEN pad.temp
                                   ELSE "FF"]
  /\ IF i + 1 < Length
     THEN UNCHANGED <<pc, result, dev>>
     ELSE pc' = "check" /\ result' = TRUE /\ dev' = IF dev = "sending" THEN "idle" ELSE dev
  /\ UNCHANGED <<temperature, line, pad, eeprom, conv, glitch, shorted, taken>>

\* DS18B20_CRC: 0 of the bytes of one scratchpad, but also of nine zeros.  Other
\* bytes are taken to be found out.
DS18B20_CRC == \A k \in 1 .. Length : buf[k] = buf[1] /\ buf[1] # "FF"

\* Mutant: the result of the read is not looked at, only the checksum.
ProcessAnyway ==
  /\ pc = "check" /\ pc' = "send"
  /\ temperature' = IF DS18B20_CRC THEN buf[1] ELSE temperature
  /\ taken' = DS18B20_CRC
  /\ UNCHANGED <<i, buf, result, line, sensor, glitch, shorted>>

\* DS18B20_ProcessData after the read: first the checksum, of old bytes too, then
\* the result.
DS18B20_ProcessData ==
  /\ pc = "check" /\ pc' = "send"
  /\ temperature' = IF DS18B20_CRC /\ result THEN buf[1] ELSE temperature
  /\ taken' = (DS18B20_CRC /\ result)
  /\ UNCHANGED <<i, buf, result, line, sensor, glitch, shorted>>

\* xQueueSend, whatever happened before.
Send ==
  /\ pc = "send" /\ pc' = "start"
  /\ UNCHANGED <<i, buf, result, temperature, line, sensor, glitch, shorted, taken>>

vDS18B20_Task ==
  \/ ResReset1 \/ ResWrite \/ ResReset2 \/ ResCopy \/ ResRetry
  \/ ConvertReset \/ ConvertCommand \/ Delay \/ ReadReset \/ ReadCommand \/ OneWire_Read
  \/ DS18B20_ProcessData \/ Send

Line == (\E l \in {"open", "short"} : LineFails(l)) \/ LineReturns

Next == vDS18B20_Task \/ Line

Spec == Init /\ [][Next]_vars

\* The task is scheduled again and again; nothing is assumed of the line.
FairSpec == Spec /\ WF_vars(vDS18B20_Task)

-----------------------------------------------------------------------------
TypeOK ==
  /\ pc \in {"res1", "write", "res2", "copy", "retry", "start", "convert", "delay",
             "read", "command", "bytes", "check", "send"}
  /\ i \in 0 .. Length
  /\ pc = "bytes" => i < Length
  /\ buf \in [1 .. Length -> Byte]
  /\ result \in BOOLEAN
  /\ temperature \in Reading \cup {"00"}
  /\ line \in {"ok", "open", "short"}
  /\ pad \in [temp : Reading, res : 9 .. 12] /\ eeprom \in 9 .. 12
  /\ dev \in {"off", "idle", "reset", "sending"} /\ conv \in BOOLEAN
  /\ glitch \in BOOLEAN /\ shorted \in BOOLEAN /\ taken \in BOOLEAN

(***************************************************************************)
(* In a cycle in which the line held, the task sends the temperature of    *)
(* this cycle, although it ignores whether the conversion was started and  *)
(* only waits by the clock: for 12 bits also after any power failure of    *)
(* the sensor, in the middle of setting the resolution too.                *)
(***************************************************************************)
FreshUnlessGlitch == pc = "send" /\ ~glitch => temperature = "now"

(***************************************************************************)
(* A failed read is not taken for a temperature: config->data starts with  *)
(* zeros and keeps those of an earlier short, and their checksum is good,  *)
(* so a reading of 0 is accepted only in a cycle in which the line really  *)
(* was low.  (Until the first reading is accepted the task sends the 0.0f  *)
(* of main.c, which nothing tells from a measured 0.)                      *)
(***************************************************************************)
ZeroOnlyFromShort == taken /\ temperature = "00" => shorted

(***************************************************************************)
(* A reading of an earlier cycle is never accepted as new, wherever it may *)
(* have stayed: in config->data, when the sensor does not answer the read, *)
(* or in the scratchpad, when the line failed around the start of the      *)
(* conversion, whose success nobody looks at.                              *)
(***************************************************************************)
StaleNeverTaken == taken => temperature # "old"

(***************************************************************************)
(* Once the line holds for good, fresh temperatures are sent again and     *)
(* again, whatever it did before.                                          *)
(***************************************************************************)
Recovers ==
  <>[](line = "ok") => []<>(pc = "send" /\ temperature = "now")

=============================================================================
