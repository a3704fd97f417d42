--------------------------- MODULE DmaSensorProofs ---------------------------
(***************************************************************************)
(* Machine-checked proofs about DmaSensor, for frames of any length and a  *)
(* sensor of any kind.                                                     *)
(***************************************************************************)
EXTENDS DmaSensor, TLAPS

\* The kind, and with it the length of a frame, never changes.
LEMMA KindStays ==
  ASSUME [Next]_vars
  PROVE  kind' = kind /\ N' = N /\ Dht' = Dht /\ Byte' = Byte
<1>1. kind' = kind
  BY DEF Next, Task, DHT_Read, UART_ReadPacket, Request, Take, Timeout, Check, Copy, Delay,
     SensorByte, SensorStops, DmaMove, Isr, vars
<1>2. Dht' = Dht
  BY <1>1 DEF Dht
<1>3. N' = N
  BY <1>2 DEF N
<1> QED BY <1>1, <1>2, <1>3 DEF Byte

LEMMA FrameLength == N \in Nat /\ N > 1
BY DmaAssumption DEF N

(***************************************************************************)
(* Types, the reach of the channel and the PIO program's position support  *)
(* each other: the write address stays in the buffer because address and   *)
(* remaining count together do.                                            *)
(***************************************************************************)
Bounds == TypeOK /\ NoOverrun /\ (talking => pos > 0)

LEMMA BoundsInit == Init => Bounds
<1> SUFFICES ASSUME Init PROVE Bounds
  OBVIOUS
<1> USE FrameLength, DmaAssumption
<1>1. buf \in [1 .. N -> Byte \cup {Zero}]
  BY DEF Init
<1>2. fifo \in Seq(Byte) /\ Len(fifo) <= N
  BY DEF Init
<1>3. pos \in 0 .. N /\ (talking => pos > 0)
  <2>1. CASE Dht
    <3>1. pos \in {0} /\ ~talking
      BY <2>1, Zenon DEF Init
    <3> QED BY <3>1
  <2>2. CASE ~Dht
    <3>1. pos \in 1 .. N
      BY <2>2, Zenon DEF Init
    <3> QED BY <3>1
  <2> QED BY <2>1, <2>2
<1>4. talking \in BOOLEAN
  BY Zenon DEF Init
<1>5. count \in 0 .. N /\ wptr \in 1 .. N + 1 /\ wptr + count <= N + 1
  BY DEF Init
<1>6. late \in BOOLEAN /\ lost \in BOOLEAN /\ frame = 0
  BY Zenon DEF Init
<1> QED BY <1>1, <1>2, <1>3, <1>4, <1>5, <1>6 DEF Init, Bounds, TypeOK, NoOverrun

LEMMA BoundsStep == Bounds /\ [Next]_vars => Bounds'
<1> SUFFICES ASSUME Bounds, [Next]_vars PROVE Bounds'
  OBVIOUS
<1> USE FrameLength, DmaAssumption, KindStays DEF Bounds
<1>1. CASE UNCHANGED vars
  BY <1>1 DEF vars, hardware, sensor, history, TypeOK, NoOverrun
<1>2. CASE DHT_Read
  <2>1. buf' \in [1 .. N -> Byte \cup {Zero}]
    BY <1>2 DEF DHT_Read
  <2>2. count' \in 0 .. N /\ wptr' \in 1 .. N + 1 /\ wptr' + count' <= N + 1
    BY <1>2 DEF DHT_Read, StartTransfer, TypeOK
  <2> QED BY <1>2, <2>1, <2>2 DEF DHT_Read, sensor, history, TypeOK, NoOverrun
<1>3. CASE UART_ReadPacket
  BY <1>3 DEF UART_ReadPacket, StartTransfer, sensor, history, TypeOK, NoOverrun
<1>4. CASE Request
  <2>1. lost' \in BOOLEAN /\ talking' \in BOOLEAN
    BY <1>4, Zenon DEF Request, sensor, TypeOK
  <2>2. frame' \in 0 .. Frames - 1 /\ pos' \in 0 .. N /\ (talking' => pos' > 0)
    BY <1>4 DEF Request, sensor, TypeOK
  <2>3. fifo' \in Seq(Byte) /\ Len(fifo') <= N
    BY <1>4 DEF Request
  <2> QED BY <1>4, <2>1, <2>2, <2>3 DEF Request, TypeOK, NoOverrun
<1>5. CASE Take
  BY <1>5 DEF Take, hardware, sensor, history, TypeOK, NoOverrun
<1>6. CASE Timeout
  BY <1>6 DEF Timeout, hardware, sensor, TypeOK, NoOverrun
<1>7. CASE Check
  BY <1>7 DEF Check, hardware, sensor, history, TypeOK, NoOverrun
<1>8. CASE Copy
  BY <1>8 DEF Copy, Content, hardware, sensor, history, TypeOK, NoOverrun
<1>9. CASE Delay
  BY <1>9 DEF Delay, hardware, sensor, history, TypeOK, NoOverrun
<1>10. CASE SensorByte
  <2>1. talking' \in BOOLEAN
    BY <1>10, Zenon DEF SensorByte
  <2>2. <<frame, pos>> \in Byte
    BY <1>10 DEF SensorByte, Byte, TypeOK
  <2>3. fifo' \in Seq(Byte) /\ Len(fifo') <= N
    BY <1>10, <2>2 DEF SensorByte, TypeOK
  <2>4. pos' \in 0 .. N /\ frame' \in 0 .. Frames - 1
    BY <1>10 DEF SensorByte, TypeOK
  <2>5. talking' => pos' > 0
    <3>1. CASE pos < N
      BY <1>10, <3>1 DEF SensorByte, TypeOK
    <3>2. CASE pos = N /\ Dht
      <4>1. ~(pos < N)
        BY <3>2
      <4> QED BY <1>10, <3>2, <4>1, Zenon DEF SensorByte
    <3>3. CASE pos = N /\ ~Dht
      BY <1>10, <3>3 DEF SensorByte
    <3> QED BY <3>1, <3>2, <3>3 DEF TypeOK
  <2> QED BY <1>10, <2>1, <2>3, <2>4, <2>5 DEF SensorByte, history, TypeOK, NoOverrun
<1>11. CASE SensorStops
  BY <1>11 DEF SensorStops, hardware, TypeOK, NoOverrun
<1>12. CASE DmaMove
  <2>1. Head(fifo) \in Byte /\ fifo' \in Seq(Byte) /\ Len(fifo') <= N
    BY <1>12 DEF DmaMove, TypeOK
  <2>2. buf' \in [1 .. N -> Byte \cup {Zero}]
    BY <1>12, <2>1 DEF DmaMove, TypeOK
  <2>3. count' \in 0 .. N /\ wptr' \in 1 .. N + 1 /\ wptr' + count' <= N + 1
    BY <1>12 DEF DmaMove, TypeOK, NoOverrun
  <2> QED BY <1>12, <2>1, <2>2, <2>3 DEF DmaMove, sensor, history, TypeOK, NoOverrun
<1>13. CASE Isr
  BY <1>13 DEF Isr, hardware, sensor, history, TypeOK, NoOverrun
<1> QED
  BY <1>1, <1>2, <1>3, <1>4, <1>5, <1>6, <1>7, <1>8, <1>9, <1>10, <1>11, <1>12, <1>13
     DEF Next, Task

LEMMA BoundsHold == Spec => []Bounds
BY BoundsInit, BoundsStep, PTL DEF Spec

(***************************************************************************)
(* Type correctness for any kind of sensor and any length of frame.        *)
(***************************************************************************)
THEOREM TypeCorrect == Spec => []TypeOK
BY BoundsHold, PTL DEF Bounds

(***************************************************************************)
(* The channel never writes past the buffer, re-armed while busy or not.   *)
(***************************************************************************)
THEOREM ChannelStaysInBuffer == Spec => []NoOverrun
BY BoundsHold, PTL DEF Bounds

-----------------------------------------------------------------------------
(***************************************************************************)
(* The baton: while a transfer is under way or its end is on its way to    *)
(* the task, exactly one of channel, interrupt and semaphore has it.       *)
(***************************************************************************)
Quiet == sem = 0 /\ irq = 0 /\ count = 0
Token == \/ sem = 0 /\ irq = 0 /\ count > 0
         \/ sem = 0 /\ irq = 1 /\ count = 0
         \/ sem = 1 /\ irq = 0 /\ count = 0

(***************************************************************************)
(* A PMS5003 before its first timeout: nobody else has the buffer while    *)
(* the task checks and copies it, so what it copies is what it checked.    *)
(***************************************************************************)
PmsInv ==
  ~Dht /\ ~late =>
    /\ pc = "wait" => Token
    /\ pc # "wait" => Quiet
    /\ pc # "clear"
    /\ pc = "copy" => Whole(buf)
    /\ data # "mixed" /\ sent # "mixed"

LEMMA PmsStep == Bounds /\ PmsInv /\ [Next]_vars => PmsInv'
<1> SUFFICES ASSUME Bounds, PmsInv, [Next]_vars, ~Dht, ~late' PROVE PmsInv'
  BY KindStays DEF PmsInv
<1>0. ~late
  BY DEF Next, Task, DHT_Read, UART_ReadPacket, Request, Take, Timeout, Check, Copy, Delay,
     SensorByte, SensorStops, DmaMove, Isr, vars, history
<1>a. /\ pc = "wait" => Token
      /\ pc # "wait" => Quiet
      /\ pc # "clear"
      /\ pc = "copy" => Whole(buf)
      /\ data # "mixed" /\ sent # "mixed"
  BY <1>0 DEF PmsInv
<1>b. UNCHANGED buf => Whole(buf)' = Whole(buf)
  BY KindStays DEF Whole
<1> USE FrameLength DEF Bounds, Token, Quiet
<1>1. CASE UNCHANGED vars
  BY <1>1, <1>a, <1>b DEF vars, hardware, PmsInv
<1>2. CASE UART_ReadPacket
  BY <1>2, <1>a DEF UART_ReadPacket, StartTransfer, PmsInv
<1>3. CASE Take
  BY <1>3, <1>a DEF Take, hardware, PmsInv
<1>4. CASE Check
  BY <1>4, <1>a, <1>b DEF Check, Accepts, PMS5003_ValidatePacket, hardware, PmsInv
<1>5. CASE Copy
  BY <1>5, <1>a DEF Copy, Content, hardware, PmsInv
<1>6. CASE Delay
  BY <1>6, <1>a DEF Delay, hardware, PmsInv
<1>7. CASE SensorByte
  BY <1>7, <1>a, <1>b DEF SensorByte, PmsInv
<1>8. CASE DmaMove
  <2>1. pc = "wait" /\ sem = 0 /\ irq = 0 /\ count > 0
    BY <1>8, <1>a DEF DmaMove
  <2> QED BY <1>8, <1>a, <2>1 DEF DmaMove, TypeOK, PmsInv
<1>9. CASE Isr
  BY <1>9, <1>a, <1>b DEF Isr, hardware, PmsInv
<1>10. ~DHT_Read /\ ~Request /\ ~Timeout /\ ~SensorStops
  BY <1>a DEF DHT_Read, Request, Timeout, SensorStops
<1> QED
  BY <1>1, <1>2, <1>3, <1>4, <1>5, <1>6, <1>7, <1>8, <1>9, <1>10 DEF Next, Task

-----------------------------------------------------------------------------
(***************************************************************************)
(* A DHT.  Stuck: the PIO program waits for an edge that will not come.    *)
(* Then the channel still wants more bytes than the FIFO has, so nothing   *)
(* is ever completed.  Otherwise the bytes of the one answer lie, in their *)
(* order, first in the buffer and then in the FIFO.                        *)
(***************************************************************************)
Stuck    == pos > 0 /\ ~talking
Received == IF pos = 0 THEN N ELSE pos - 1     \* bytes of the answer so far

Flow ==
  /\ Token
  /\ wptr = N - count + 1
  /\ Len(fifo) = Received - (N - count)
  /\ \A k \in 1 .. N - count : buf[k] = <<frame, k>>
  /\ \A k \in 1 .. Len(fifo) : fifo[k] = <<frame, N - count + k>>

Silent == pos = 0 /\ fifo = <<>>

DhtInv ==
  Dht =>
    /\ talking => pc = "wait"
    /\ Stuck => /\ lost /\ sem = 0 /\ irq = 0 /\ Len(fifo) < count
                /\ pc \notin {"check", "copy"}
    /\ ~Stuck => /\ pc \in {"read", "delay"} => Quiet /\ Silent
                 /\ pc = "clear" => Silent /\ sem = 0 /\ irq = 0 /\ count = N /\ wptr = 1
                 /\ pc = "wait" => Flow
                 /\ pc \in {"check", "copy"} =>
                      Quiet /\ Silent /\ \A k \in 1 .. N : buf[k] = <<frame, k>>
    /\ late => lost
    /\ sent \in {"none", "whole"}

LEMMA DhtStep == Bounds /\ DhtInv /\ [Next]_vars => DhtInv'
<1> SUFFICES ASSUME Bounds, DhtInv, [Next]_vars, Dht PROVE DhtInv'
  BY KindStays DEF DhtInv
<1>n. N' = N /\ Dht' = Dht /\ N \in Nat /\ N > 1
  BY KindStays, FrameLength
<1> USE <1>n DEF Bounds
<1>1. CASE UNCHANGED vars
  BY <1>1 DEF vars, hardware, sensor, history, DhtInv, Stuck, Received, Flow, Silent, Quiet, Token
<1>2. CASE DHT_Read
  BY <1>2 DEF DHT_Read, StartTransfer, sensor, history, DhtInv, Stuck, Silent, Quiet, TypeOK
<1>3. CASE Request
  <2>1. CASE pos > 0
    BY <1>3, <2>1 DEF Request, sensor, DhtInv, Stuck, Silent, Quiet, TypeOK
  <2>2. CASE pos = 0
    <3>1. sem = 0 /\ irq = 0 /\ count = N /\ wptr = 1 /\ pos' = 1 /\ fifo' = <<>>
      BY <1>3, <2>2 DEF Request, DhtInv, Stuck
    <3>2. ~talking' => lost'
      <4>1. ~(pos > 0)
        BY <2>2
      <4> QED BY <1>3, <4>1, Zenon DEF Request
    <3>3. late' => lost'
      BY <1>3, Zenon DEF Request, DhtInv
    <3>4. pc' = "wait" /\ UNCHANGED <<sem, irq, count, wptr, sent>>
      BY <1>3 DEF Request
    <3>5. Flow'
      <4>1. Received' = 0 /\ N' - count' = 0 /\ Len(fifo') = 0
        BY <3>1, <3>4 DEF Received
      <4>2. Token'
        BY <3>1, <3>4 DEF Token
      <4>3. wptr' = N' - count' + 1
        BY <3>1, <3>4, <4>1
      <4>4. 1 .. N' - count' = {} /\ 1 .. Len(fifo') = {}
        BY <4>1
      <4> QED BY <4>1, <4>2, <4>3, <4>4 DEF Flow
    <3> QED BY <3>1, <3>2, <3>3, <3>4, <3>5 DEF DhtInv, Stuck
  <2> QED BY <2>1, <2>2 DEF TypeOK
<1>4. CASE Take
  BY <1>4 DEF Take, hardware, sensor, history, DhtInv, Stuck, Received, Flow, Silent, Quiet,
     Token, TypeOK
<1>5. CASE Timeout
  <2>1. Stuck
    BY <1>5 DEF Timeout, Settled, DhtInv, Stuck, Received, Flow, Token, TypeOK
  <2> QED BY <1>5, <2>1 DEF Timeout, hardware, sensor, DhtInv, Stuck
<1>6. CASE Check
  <2>1. ~Stuck /\ \A k \in 1 .. N : buf[k] = <<frame, k>>
    BY <1>6 DEF Check, DhtInv
  <2>2. Accepts(buf)
    BY <2>1 DEF Accepts, DHT_ChecksumOK, Whole, TypeOK
  <2> QED BY <1>6, <2>2 DEF Check, hardware, sensor, history, DhtInv, Stuck, Silent, Quiet
<1>7. CASE Copy
  <2>1. ~Stuck /\ \A k \in 1 .. N : buf[k] = <<frame, k>>
    BY <1>7 DEF Copy, DhtInv
  <2>2. Content(buf) = "whole"
    BY <2>1 DEF Content, Whole, TypeOK
  <2> QED BY <1>7, <2>2 DEF Copy, hardware, sensor, history, DhtInv, Stuck, Silent, Quiet
<1>8. CASE Delay
  BY <1>8 DEF Delay, hardware, sensor, history, DhtInv, Stuck, Silent, Quiet
<1>9. CASE SensorByte
  <2>1. talking /\ pos > 0 /\ ~Stuck /\ pc = "wait" /\ Flow
    BY <1>9 DEF SensorByte, DhtInv, Stuck
  <2>2. Len(fifo) = pos - 1 - (N - count) /\ Len(fifo) < N
    BY <2>1 DEF Flow, Received, TypeOK
  <2>3. fifo' = Append(fifo, <<frame, pos>>) /\ frame' = frame
    BY <1>9, <2>2 DEF SensorByte
  <2>4. Received' = pos
    <3>1. pos' = IF pos < N THEN pos + 1 ELSE IF Dht THEN 0 ELSE 1
      BY <1>9, Zenon DEF SensorByte
    <3> QED BY <2>1, <3>1 DEF Received, TypeOK
  <2>5. ~(pos' > 0 /\ ~talking')
    <3>1. CASE pos < N
      BY <1>9, <3>1 DEF SensorByte
    <3>2. CASE ~(pos < N)
      BY <1>9, <3>2 DEF SensorByte
    <3> QED BY <3>1, <3>2
  <2>6. UNCHANGED <<pc, sem, irq, count, wptr, buf, sent, late, lost>>
    BY <1>9 DEF SensorByte, history
  <2>7. Len(fifo') = Len(fifo) + 1
    BY <2>3 DEF TypeOK
  <2>8. ASSUME NEW k \in 1 .. Len(fifo') PROVE fifo'[k] = <<frame, N - count + k>>
    <3>1. CASE k \in 1 .. Len(fifo)
      BY <2>1, <2>3, <3>1 DEF Flow, TypeOK
    <3>2. CASE k = Len(fifo) + 1
      BY <2>2, <2>3, <3>2 DEF TypeOK
    <3> QED BY <2>7, <3>1, <3>2 DEF TypeOK
  <2>9. Flow'
    <3>1. Token' /\ wptr' = N' - count' + 1
      BY <2>1, <2>6 DEF Flow, Token
    <3>2. Len(fifo') = Received' - (N' - count')
      BY <2>2, <2>4, <2>6, <2>7 DEF TypeOK
    <3>3. \A k \in 1 .. N' - count' : buf'[k] = <<frame', k>>
      BY <2>1, <2>3, <2>6 DEF Flow
    <3>4. \A k \in 1 .. Len(fifo') : fifo'[k] = <<frame', N' - count' + k>>
      BY <2>3, <2>6, <2>8
    <3> QED BY <3>1, <3>2, <3>3, <3>4, Zenon DEF Flow
  <2> QED BY <2>1, <2>5, <2>6, <2>9 DEF DhtInv, Stuck
<1>10. CASE SensorStops
  <2>1. talking /\ pos > 0 /\ ~Stuck /\ pc = "wait" /\ Flow
    BY <1>10 DEF SensorStops, DhtInv, Stuck
  <2>2. Len(fifo) = pos - 1 - (N - count) /\ Len(fifo) < count /\ count > 0
    BY <2>1 DEF Flow, Received, TypeOK
  <2> QED BY <1>10, <2>1, <2>2 DEF SensorStops, hardware, DhtInv, Stuck, Flow, Token
<1>11. CASE DmaMove
  <2>0. /\ fifo # <<>> /\ Len(fifo) > 0 /\ fifo' = Tail(fifo) /\ Len(fifo') = Len(fifo) - 1
        /\ count > 0 /\ count' = count - 1
        /\ UNCHANGED <<pc, sem, frame, pos, talking, sent, late, lost>>
    BY <1>11 DEF DmaMove, sensor, history, TypeOK
  <2>1. CASE Stuck
    <3>1. count # 1 /\ irq' = irq
      BY <1>11, <2>0, <2>1 DEF DmaMove, DhtInv, TypeOK
    <3> QED BY <2>0, <2>1, <3>1 DEF DhtInv, Stuck, TypeOK
  <2>2. CASE ~Stuck
    <3>1. pc = "wait" /\ Flow
      BY <2>0, <2>2 DEF DhtInv, Silent, Quiet, TypeOK
    <3>2. buf' = [buf EXCEPT ![wptr] = fifo[1]] /\ wptr' = wptr + 1
      BY <1>11, <2>0 DEF DmaMove, TypeOK
    <3>3. Token'
      BY <1>11, <2>0, <3>1 DEF DmaMove, Flow, Token, TypeOK
    <3>4. fifo[1] = <<frame, wptr>>
      BY <2>0, <3>1 DEF Flow, TypeOK
    <3>5. ASSUME NEW k \in 1 .. N - count' PROVE buf'[k] = <<frame, k>>
      BY <2>0, <3>1, <3>2, <3>4 DEF Flow, TypeOK
    <3>6. ASSUME NEW k \in 1 .. Len(fifo') PROVE fifo'[k] = <<frame, N - count' + k>>
      <4>1. fifo'[k] = fifo[k + 1] /\ k + 1 \in 1 .. Len(fifo)
        BY <2>0 DEF TypeOK
      <4> QED BY <2>0, <3>1, <4>1 DEF Flow, TypeOK
    <3>7. Received' = Received
      BY <2>0 DEF Received
    <3>8. Flow'
      <4>1. wptr' = N' - count' + 1
        BY <2>0, <3>1, <3>2 DEF Flow, TypeOK
      <4>2. Len(fifo') = Received' - (N' - count')
        BY <2>0, <3>1, <3>7 DEF Flow, Received, TypeOK
      <4>3. \A k \in 1 .. N' - count' : buf'[k] = <<frame', k>>
        BY <2>0, <3>5
      <4>4. \A k \in 1 .. Len(fifo') : fifo'[k] = <<frame', N' - count' + k>>
        BY <2>0, <3>6
      <4> QED BY <3>3, <4>1, <4>2, <4>3, <4>4, Zenon DEF Flow
    <3> QED BY <2>0, <2>2, <3>1, <3>8 DEF DhtInv, Stuck
  <2> QED BY <2>1, <2>2
<1>12. CASE Isr
  BY <1>12 DEF Isr, hardware, sensor, history, DhtInv, Stuck, Received, Flow, Silent, Quiet,
     Token, TypeOK
<1>13. ~UART_ReadPacket
  BY DEF UART_ReadPacket
<1> QED
  BY <1>1, <1>2, <1>3, <1>4, <1>5, <1>6, <1>7, <1>8, <1>9, <1>10, <1>11, <1>12, <1>13
     DEF Next, Task

LEMMA FlowHolds == Spec => [](PmsInv /\ DhtInv)
<1>1. Init => PmsInv /\ DhtInv
  <2> SUFFICES ASSUME Init PROVE PmsInv /\ DhtInv
    OBVIOUS
  <2>1. PmsInv
    BY DEF Init, PmsInv, Quiet
  <2>2. Dht => pos = 0 /\ ~talking
    <3>1. Dht => pos \in {0} /\ ~talking
      BY Zenon DEF Init
    <3> QED BY <3>1
  <2>3. Dht => ~Stuck
    BY <2>2 DEF Stuck
  <2>4. /\ pc = "read" /\ sem = 0 /\ irq = 0 /\ count = 0 /\ fifo = <<>>
        /\ ~late /\ sent = "none"
    BY Zenon DEF Init
  <2>5. DhtInv
    BY <2>2, <2>3, <2>4 DEF DhtInv, Quiet, Silent
  <2> QED BY <2>1, <2>5
<1> QED BY <1>1, PmsStep, DhtStep, BoundsHold, PTL DEF Spec

(***************************************************************************)
(* Every packet of a DHT is one whole answer, for frames of any length.    *)
(***************************************************************************)
THEOREM DhtPacketsWhole == Spec => []DhtWholeAnswer
<1>1. DhtInv => DhtWholeAnswer
  BY DEF DhtInv, DhtWholeAnswer
<1> QED BY <1>1, FlowHolds, PTL

(***************************************************************************)
(* A DHT that always answers is never timed out.                           *)
(***************************************************************************)
THEOREM TimeoutsNeedLoss == Spec => []TimeoutNeedsLoss
<1>1. DhtInv => TimeoutNeedsLoss
  BY DEF DhtInv, TimeoutNeedsLoss
<1> QED BY <1>1, FlowHolds, PTL

(***************************************************************************)
(* No packet of any sensor is mixed before the first timeout.              *)
(***************************************************************************)
THEOREM PacketsIntact == Spec => []IntactUnlessLate
<1>1. PmsInv /\ DhtInv => IntactUnlessLate
  BY DEF PmsInv, DhtInv, IntactUnlessLate
<1> QED BY <1>1, FlowHolds, PTL

=============================================================================
