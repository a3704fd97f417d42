------------------------------ MODULE DmaSensor ------------------------------
(***************************************************************************)
(* A sensor whose bytes arrive by DMA: DHT11 and DHT22 through a PIO state *)
(* machine (dht11_22_dma.c, dht11_22_rtos.c, dht11_22.h) and PMS5003       *)
(* through a UART (uart_dma.c, pms5003.c), with the interrupt handlers of  *)
(* dma_irq_handler.c that give a binary semaphore the task waits for.      *)
(*                                                                         *)
(* The task, the interrupt, the DMA channel and the sensor run in parallel *)
(* on one buffer.  A byte is abstracted to the frame it belongs to and its *)
(* position in it, 0 is a byte cleared by memset.  Checksums are taken to  *)
(* be perfect, except that an all-zero DHT11 buffer matches its sum of 0.  *)
(*                                                                         *)
(* The PIO program of a DHT (dht11_22.pio) takes a request only when it is *)
(* back at its first pull: nothing restarts it, so an answer that stops    *)
(* leaves it waiting for the missing edge.  Line noise is not modelled.    *)
(*                                                                         *)
(* External, as the RP2350 DMA defines it: triggering a channel that is    *)
(* still busy only moves its write address; the remaining count stays.     *)
(***************************************************************************)
EXTENDS Naturals, Sequences

CONSTANTS Kinds,      \* of sensors: "DHT11", "DHT22", "PMS5003"
          DhtBytes,   \* bytes of a DHT's frame, 5 in the code
          PmsBytes,   \* bytes of a PMS5003's, bound for 32
          Frames      \* bound: frames are told apart modulo this number

ASSUME DmaAssumption ==
  /\ Kinds \subseteq {"DHT11", "DHT22", "PMS5003"}
  /\ DhtBytes \in Nat /\ DhtBytes > 1
  /\ PmsBytes \in Nat /\ PmsBytes > 1
  /\ Frames \in Nat /\ Frames > 1

VARIABLES
  kind,      \* of the sensor; never changes
  pc,        \* where the task is
  sem,       \* dmaSemaphore
  irq,       \* the channel's interrupt is pending
  count,     \* transfers the channel still has to make, 0 = idle
  wptr,      \* position its next byte is written to
  fifo,      \* receive FIFO between the sensor and the channel
  buf,       \* config->rawData
  frame,     \* the frame the sensor sends
  pos,       \* the byte of it that is read next, 0 = PIO program at its start
  talking,   \* is the sensor sending
  data,      \* params->data
  sent,      \* history: the last packet given to the queue
  late,      \* history: a wait has timed out
  lost       \* history: a DHT has not answered, or not to the end

hardware == <<count, wptr, fifo>>
history  == <<late, lost>>
sensor   == <<frame, pos, talking>>
vars == <<kind, pc, sem, irq, hardware, buf, sensor, data, sent, history>>

Dht  == kind # "PMS5003"
N    == IF Dht THEN DhtBytes ELSE PmsBytes   \* transfers of the DMA channel
Byte == (0 .. Frames - 1) \X (1 .. N)
Zero == <<0, 0>>                     \* a byte cleared by memset

Whole(b)   == \E f \in 0 .. Frames - 1 : \A i \in 1 .. N : b[i] = <<f, i>>
Cleared(b) == \A i \in 1 .. N : b[i] = Zero
Content(b) == IF Whole(b) THEN "whole" ELSE IF Cleared(b) THEN "zero" ELSE "mixed"

\* DHT_Init and UART_Init have configured the channel; the UART stream may be
\* anywhere in a frame, a DHT is silent until asked.
Init ==
  /\ kind \in Kinds
  /\ pc    = "read"
  /\ sem   = 0
  /\ irq   = 0
  /\ count = 0
  /\ wptr  = 1
  /\ fifo  = <<>>
  /\ buf   = [i \in 1 .. N |-> Zero]
  /\ frame = 0
  /\ pos   \in IF Dht THEN {0} ELSE 1 .. N
  /\ talking = ~Dht
  /\ data  = "initial"
  /\ sent  = "none"
  /\ late  = FALSE
  /\ lost  = FALSE

-----------------------------------------------------------------------------
(* The task: vDHT_Task, vPMS5003_Task *)

\* Mutant: the write address is not set again on a busy channel.
StartNoRewind == count' = N /\ wptr' = IF count = 0 THEN 1 ELSE wptr

\* Mutant: the channel is set up for one byte less than a frame.
StartShort == count' = (IF count = 0 THEN N - 1 ELSE count) /\ wptr' = 1

\* dma_channel_set_write_addr(channel, buffer, true)
StartTransfer == count' = (IF count = 0 THEN N ELSE count) /\ wptr' = 1

\* DHT_Read up to the start of the transfer.
DHT_Read ==
  /\ Dht
  /\ pc  = "read"
  /\ pc' = "clear"
  /\ buf' = [i \in 1 .. N |-> Zero]
  /\ StartTransfer
  /\ UNCHANGED <<kind, sem, irq, fifo, sensor, data, sent, history>>

\* UART_ReadPacket clears neither the buffer nor the FIFO.
UART_ReadPacket ==
  /\ ~Dht
  /\ pc  = "read"
  /\ pc' = "wait"
  /\ StartTransfer
  /\ UNCHANGED <<kind, sem, irq, fifo, buf, sensor, data, sent, history>>

\* pio_sm_clear_fifos and the two words of a request.  A program at its start
\* takes them, and the sensor answers or not; one that is stuck does not.
Request ==
  /\ pc = "clear"
  /\ fifo' = <<>>
  /\ pc'   = "wait"
  /\ \/ /\ pos = 0
        /\ frame' = (frame + 1) % Frames
        /\ pos'   = 1
        /\ talking' \in BOOLEAN
        /\ lost'  = (lost \/ ~talking')
     \/ /\ pos > 0
        /\ UNCHANGED <<sensor, lost>>
  /\ UNCHANGED <<kind, sem, irq, count, wptr, buf, data, sent, late>>

\* xSemaphoreTake within 1000 ms ...
Take ==
  /\ pc = "wait"
  /\ sem = 1
  /\ sem' = 0
  /\ pc'  = "check"
  /\ UNCHANGED <<kind, irq, hardware, buf, sensor, data, sent, history>>

\* The answer of a DHT takes 25 ms: it is over long before a task's wait of
\* 1000 ms or delay of 2000 ms.  A PMS5003 may be silent for longer than both.
Settled == Dht => ~talking /\ irq = 0 /\ (fifo = <<>> \/ count = 0)

\* ... or not: a warning, and the transfer is left running.
Timeout ==
  /\ pc = "wait"
  /\ sem = 0
  /\ Settled
  /\ pc'   = "delay"
  /\ late' = TRUE
  /\ UNCHANGED <<kind, sem, irq, hardware, buf, sensor, data, sent, lost>>

\* Mutant: nothing is checked.
AcceptsAnything(b) == TRUE

\* The start bytes and the sum over a PMS5003 packet.
PMS5003_ValidatePacket(b) == Whole(b)

\* The checksum test of DHT_ProcessData, which only the DHT11 has.
DHT_ChecksumOK(b) == kind = "DHT11" => Whole(b) \/ Cleared(b)

Accepts(b) == IF Dht THEN DHT_ChecksumOK(b) ELSE PMS5003_ValidatePacket(b)

\* A rejected buffer leaves params->data as it was, and that is sent.
Check ==
  /\ pc = "check"
  /\ \/ /\ Accepts(buf)
        /\ pc' = "copy"
        /\ UNCHANGED sent
     \/ /\ ~Accepts(buf)
        /\ sent' = data
        /\ pc'   = "delay"
  /\ UNCHANGED <<kind, sem, irq, hardware, buf, sensor, data, history>>

\* The fields are taken from the buffer and sent.
Copy ==
  /\ pc = "copy"
  /\ data' = Content(buf)
  /\ sent' = Content(buf)
  /\ pc'   = "delay"
  /\ UNCHANGED <<kind, sem, irq, hardware, buf, sensor, history>>

\* vTaskDelay(2000 ms)
Delay ==
  /\ pc = "delay"
  /\ Settled
  /\ pc' = "read"
  /\ UNCHANGED <<kind, sem, irq, hardware, buf, sensor, data, sent, history>>

Task == DHT_Read \/ UART_ReadPacket \/ Request \/ Take \/ Timeout \/ Check \/ Copy \/ Delay

-----------------------------------------------------------------------------
(* The sensor, the DMA channel and the interrupt *)

\* A byte reaches the FIFO; a full one drops it.  A PMS5003 streams frames.
SensorByte ==
  /\ talking
  /\ fifo'  = IF Len(fifo) < N THEN Append(fifo, <<frame, pos>>) ELSE fifo
  /\ pos'   = IF pos < N THEN pos + 1 ELSE IF Dht THEN 0 ELSE 1
  /\ frame' = IF pos = N /\ ~Dht THEN (frame + 1) % Frames ELSE frame
  /\ talking' = (pos < N \/ ~Dht)
  /\ UNCHANGED <<kind, pc, sem, irq, count, wptr, buf, data, sent, history>>

\* The rest of a DHT's answer is lost on the wire.
SensorStops ==
  /\ Dht
  /\ talking
  /\ talking' = FALSE
  /\ lost'    = TRUE
  /\ UNCHANGED <<kind, pc, sem, irq, hardware, buf, frame, pos, data, sent, late>>

DmaMove ==
  /\ count > 0
  /\ fifo # <<>>
  /\ buf'   = [buf EXCEPT ![wptr] = Head(fifo)]
  /\ fifo'  = Tail(fifo)
  /\ wptr'  = wptr + 1
  /\ count' = count - 1
  /\ irq'   = IF count = 1 THEN 1 ELSE irq
  /\ UNCHANGED <<kind, pc, sem, sensor, data, sent, history>>

\* Mutant: the handler acknowledges the interrupt without giving.
IsrNoGive ==
  /\ irq = 1
  /\ irq' = 0
  /\ UNCHANGED <<kind, pc, sem, hardware, buf, sensor, data, sent, history>>

\* DMA_IRQ0_ISR for a DHT, DMA_IRQ1_ISR and DMA_UART_ISR for the UART.
Isr ==
  /\ irq = 1
  /\ irq' = 0
  /\ sem' = 1
  /\ UNCHANGED <<kind, pc, hardware, buf, sensor, data, sent, history>>

Next == Task \/ SensorByte \/ SensorStops \/ DmaMove \/ Isr

Spec == Init /\ [][Next]_vars

-----------------------------------------------------------------------------
TypeOK ==
  /\ kind \in Kinds
  /\ pc    \in {"read", "clear", "wait", "check", "copy", "delay"}
  /\ sem   \in 0 .. 1
  /\ irq   \in 0 .. 1
  /\ count \in 0 .. N
  /\ wptr  \in 1 .. N + 1
  /\ fifo  \in Seq(Byte) /\ Len(fifo) <= N
  /\ buf   \in [1 .. N -> Byte \cup {Zero}]
  /\ frame \in 0 .. Frames - 1
  /\ pos   \in 0 .. N /\ talking \in BOOLEAN
  /\ data  \in {"initial", "zero", "whole", "mixed"}
  /\ sent  \in {"none", "initial", "zero", "whole", "mixed"}
  /\ late  \in BOOLEAN /\ lost \in BOOLEAN

(***************************************************************************)
(* The channel never writes past the buffer, although it may be re-armed   *)
(* while it is busy with any number of bytes to go.                        *)
(***************************************************************************)
NoOverrun == wptr + count <= N + 1

(***************************************************************************)
(* Until a wait times out, semaphore, interrupt and channel hand the       *)
(* buffer over like a baton: the task looks at it only while nobody writes *)
(* to it, so a PMS5003 packet is one whole frame or, when the stream is    *)
(* out of step, the packet of before.                                      *)
(***************************************************************************)
IntactUnlessLate == late \/ sent # "mixed"

(***************************************************************************)
(* Every DHT packet is one whole answer, also after lost answers: the DHT22*)
(* needs no checksum for that, and the cleared buffer that would satisfy   *)
(* the DHT11's is never looked at.                                         *)
(***************************************************************************)
DhtWholeAnswer == Dht => sent \in {"none", "whole"}

(***************************************************************************)
(* A DHT that answers every request is never timed out: the completion of  *)
(* each transfer reaches the task, whichever side is faster.               *)
(***************************************************************************)
TimeoutNeedsLoss == Dht /\ late => lost

=============================================================================
