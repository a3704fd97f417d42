------------------------------- MODULE RttRing -------------------------------
(***************************************************************************)
(* SEGGER_RTT.c: one up channel, a ring buffer in target memory that the   *)
(* firmware fills and the debug probe empties while the CPU runs.  The     *)
(* only synchronisation is the order of accesses: the writer stores its    *)
(* bytes and then WrOff, the reader takes bytes and then stores RdOff.     *)
(*                                                                         *)
(* Writer: any context of one core; SEGGER_RTT_LOCK masks the others, so   *)
(* one call is under way at a time.  Reader: the probe, external, taken to *)
(* do what SEGGER_RTT_ReadUpBufferNoLock does.  A down channel is the same *)
(* ring with the roles exchanged (WriteDownBufferNoLock, ReadNoLock).      *)
(*                                                                         *)
(* Channel 0 also carries the switches between virtual terminals.  A data  *)
(* byte is abstracted to the terminal it was written for, so that the byte *)
(* itself tells where it has to be shown.                                  *)
(***************************************************************************)
EXTENDS Integers, Sequences

CONSTANTS Size,       \* SizeOfBuffer
          Terminal,   \* terminal ids, 16 in the code
          MaxWrite,   \* bound: bytes of one call of the application
          Word        \* 2^32 in the code: unsigned arithmetic is modulo this

ASSUME RttAssumption ==
  /\ Size \in Nat /\ Size > 1
  /\ Terminal \subseteq 0 .. 15 /\ 0 \in Terminal
  /\ MaxWrite \in Nat \ {0}
  /\ Word \in Nat /\ Word > 2 * Size

ESC  == 255                              \* announces a terminal switch
Byte == Terminal \cup {ESC}

NO_BLOCK_SKIP      == 0
NO_BLOCK_TRIM      == 1
BLOCK_IF_FIFO_FULL == 2
Mode == {NO_BLOCK_SKIP, NO_BLOCK_TRIM, BLOCK_IF_FIFO_FULL}

VARIABLES
  pBuffer, WrOff, RdOff, Flags,   \* the SEGGER_RTT_BUFFER_UP
  active,     \* _ActiveTerminal
  wpc,        \* where the writer is
  pieces,     \* strings _WriteBlocking still has to write
  chunk,      \* bytes copied before WrOff is stored next
  wrNext,     \* the value to be stored
  rpc,        \* where the reader is
  num,        \* bytes it is about to take
  take,       \* bytes it has taken
  rdNext,     \* the value of RdOff to be stored
  shown,      \* external: the terminal the host shows bytes on
  esc,        \* external: the host has seen ESC
  misrouted   \* history: a byte was shown on another terminal

ring   == <<pBuffer, WrOff, RdOff>>
writer == <<wpc, pieces, chunk, wrNext>>
reader == <<rpc, num, take, rdNext>>
host   == <<shown, esc, misrouted>>
vars   == <<ring, Flags, active, writer, reader, host>>

Min2(a, b)  == IF a < b THEN a ELSE b
Unsigned(x) == IF x < 0 THEN x + Word ELSE x
Wrap(x)     == IF x >= Size THEN x - Size ELSE x

\* The fill level the two offsets stand for.
Used        == IF RdOff <= WrOff THEN WrOff - RdOff ELSE Size - RdOff + WrOff

\* The unread bytes, oldest first.
Content == [i \in 1 .. Used |-> pBuffer[Wrap(RdOff + i - 1)]]

\* _DoInit: buffer 0 is the terminal, in the default mode.
Init ==
  /\ pBuffer = [i \in 0 .. Size - 1 |-> 0]
  /\ WrOff = 0 /\ RdOff = 0
  /\ Flags = NO_BLOCK_SKIP
  /\ active = 0
  /\ wpc = "idle" /\ pieces = <<>> /\ chunk = <<>> /\ wrNext = 0
  /\ rpc = "idle" /\ num = 0 /\ take = <<>> /\ rdNext = 0
  /\ shown = 0 /\ esc = FALSE /\ misrouted = FALSE

-----------------------------------------------------------------------------
(* The writer *)

\* Mutant: the slot that tells a full ring from an empty one is used too.
AvailFull == IF RdOff <= WrOff THEN Size - WrOff + RdOff ELSE RdOff - WrOff

_GetAvailWriteSpace ==
  IF RdOff <= WrOff THEN Size - 1 - WrOff + RdOff ELSE RdOff - WrOff - 1

\* The new WrOff of _WriteNoCheck: all before the end, or in two chunks.
NoCheckWrOff(n) ==
  LET Rem == Size - WrOff IN IF Rem > n THEN WrOff + n ELSE n - Rem

Text(t, n) == [i \in 1 .. n |-> t]
Switch(t)  == <<ESC, t>>

\* Writes bytes in one go: copy, then store off.
StartCopy(bytes, off) ==
  /\ bytes # <<>>
  /\ chunk'  = bytes
  /\ wrNext' = off
  /\ wpc'    = "copy"
  /\ UNCHANGED pieces

_WriteNoCheck(bytes) == StartCopy(bytes, NoCheckWrOff(Len(bytes)))

\* Starts a series of _WriteBlocking calls.
StartBlocking(strings) ==
  /\ pieces' = strings
  /\ wpc'    = "plan"
  /\ UNCHANGED <<chunk, wrNext>>

\* Bytes _WriteBlocking can write before the end of the buffer.
BlockSpace ==
  Min2(IF RdOff > WrOff THEN RdOff - WrOff - 1 ELSE Size - (WrOff - RdOff + 1),
       Size - WrOff)

\* Mutant: NumBytes is not reduced by what was written.
BlockingNoAdvance ==
  /\ wpc = "plan"
  /\ BlockSpace > 0
  /\ LET n == Min2(BlockSpace, Len(Head(pieces)))
     IN /\ chunk'  = SubSeq(Head(pieces), 1, n)
        /\ wrNext' = IF WrOff + n = Size THEN 0 ELSE WrOff + n
  /\ wpc' = "copy"
  /\ UNCHANGED <<ring, Flags, active, pieces, reader, host>>

\* One round of the loop of _WriteBlocking; with no space it spins.
_WriteBlocking ==
  LET s == Head(pieces)
      n == Min2(BlockSpace, Len(s))
  IN /\ wpc = "plan"
     /\ n > 0
     /\ chunk'  = SubSeq(s, 1, n)
     /\ wrNext' = IF WrOff + n = Size THEN 0 ELSE WrOff + n
     /\ pieces' = IF n = Len(s) THEN Tail(pieces)
                  ELSE <<SubSeq(s, n + 1, Len(s))>> \o Tail(pieces)
     /\ wpc' = "copy"
     /\ UNCHANGED <<ring, Flags, active, reader, host>>

\* SEGGER_RTT_Write, SEGGER_RTT_WriteString.  A call that stores nothing
\* changes nothing.
SEGGER_RTT_Write(n) ==
  /\ wpc = "idle"
  /\ \/ /\ Flags = NO_BLOCK_SKIP
        /\ _GetAvailWriteSpace >= n
        /\ _WriteNoCheck(Text(active, n))
     \/ /\ Flags = NO_BLOCK_TRIM
        /\ _WriteNoCheck(Text(active, Min2(_GetAvailWriteSpace, n)))
     \/ /\ Flags = BLOCK_IF_FIFO_FULL
        /\ StartBlocking(<<Text(active, n)>>)
  /\ UNCHANGED <<ring, Flags, active, reader, host>>

\* The five cases of SEGGER_RTT_WriteSkipNoLock, used by SystemView.
SkipFits(n) ==
  IF RdOff <= WrOff
  THEN \/ Size - WrOff - 1 >= n
       \/ Size - WrOff - 1 + RdOff >= n
  ELSE RdOff - WrOff - 1 >= n

SEGGER_RTT_WriteSkipNoLock(n) ==
  /\ wpc = "idle"
  /\ SkipFits(n)
  /\ StartCopy(Text(active, n),
               IF RdOff > WrOff \/ Size - WrOff - 1 >= n
               THEN WrOff + n ELSE n - (Size - WrOff))
  /\ UNCHANGED <<ring, Flags, active, reader, host>>

NextOff == IF WrOff + 1 = Size THEN 0 ELSE WrOff + 1

\* SEGGER_RTT_PutCharSkip and PutCharSkipNoLock, and PutChar in the modes that
\* do not block: the byte is dropped if it does not fit.
SEGGER_RTT_PutCharSkip ==
  /\ wpc = "idle"
  /\ NextOff # RdOff
  /\ StartCopy(<<active>>, NextOff)
  /\ UNCHANGED <<ring, Flags, active, reader, host>>

\* SEGGER_RTT_PutChar of a blocking channel holds the lock while it waits.
SEGGER_RTT_PutChar ==
  /\ wpc = "idle"
  /\ Flags = BLOCK_IF_FIFO_FULL
  /\ wpc' = "char"
  /\ UNCHANGED <<ring, Flags, active, pieces, chunk, wrNext, reader, host>>

PutCharStore ==
  /\ wpc = "char"
  /\ NextOff # RdOff
  /\ StartCopy(<<active>>, NextOff)
  /\ UNCHANGED <<ring, Flags, active, reader, host>>

\* Mutant: _ActiveTerminal changes although the switch was not written.
SetTerminalEager(t) ==
  /\ wpc = "idle"
  /\ active' = t
  /\ IF Flags = BLOCK_IF_FIFO_FULL
     THEN StartBlocking(<<Switch(t)>>)
     ELSE \/ _GetAvailWriteSpace >= 2 /\ _WriteNoCheck(Switch(t))
          \/ _GetAvailWriteSpace < 2 /\ UNCHANGED writer
  /\ UNCHANGED <<ring, Flags, reader, host>>

SEGGER_RTT_SetTerminal(t) ==
  /\ wpc = "idle"
  /\ active' = t
  /\ IF Flags = BLOCK_IF_FIFO_FULL
     THEN StartBlocking(<<Switch(t)>>)
     ELSE _GetAvailWriteSpace >= 2 /\ _WriteNoCheck(Switch(t))
  /\ UNCHANGED <<ring, Flags, reader, host>>

\* The strings of SEGGER_RTT_TerminalOut; _WriteBlocking of no bytes does nothing.
OutStrings(t, n) ==
  <<Switch(t)>> \o (IF n = 0 THEN <<>> ELSE <<Text(t, n)>>) \o <<Switch(active)>>

\* Mutant: only the first of the two switches is counted.
TerminalOutTight(t, n) ==
  /\ wpc = "idle"
  /\ Flags = NO_BLOCK_SKIP => _GetAvailWriteSpace >= n + 2
  /\ Flags = NO_BLOCK_TRIM => _GetAvailWriteSpace >= 4
  /\ StartBlocking(OutStrings(t, n))
  /\ UNCHANGED <<ring, Flags, active, reader, host>>

\* Switch, text, switch back, each by _WriteBlocking in every mode: in the
\* modes that must not block the space is checked or the text trimmed before.
SEGGER_RTT_TerminalOut(t, n) ==
  /\ wpc = "idle"
  /\ \/ Flags = NO_BLOCK_SKIP /\ _GetAvailWriteSpace >= n + 4
     \/ Flags = NO_BLOCK_TRIM /\ _GetAvailWriteSpace >= 4
     \/ Flags = BLOCK_IF_FIFO_FULL
  /\ LET len == IF Flags = NO_BLOCK_TRIM
                THEN Min2(n, _GetAvailWriteSpace - 4) ELSE n
     IN StartBlocking(OutStrings(t, len))
  /\ UNCHANGED <<ring, Flags, active, reader, host>>

\* Needs the lock, so no call is under way.
SEGGER_RTT_SetFlagsUpBuffer(f) ==
  /\ wpc = "idle"
  /\ Flags' = f
  /\ UNCHANGED <<ring, active, writer, reader, host>>

\* Mutant: the part after the wrap-around is not copied.
CopyFirstPart ==
  /\ wpc = "copy"
  /\ pBuffer' = [k \in 0 .. Size - 1 |->
                   IF k >= WrOff /\ k - WrOff < Len(chunk)
                   THEN chunk[k - WrOff + 1] ELSE pBuffer[k]]
  /\ wpc' = "publish"
  /\ UNCHANGED <<WrOff, RdOff, Flags, active, pieces, chunk, wrNext, reader, host>>

\* memcpy of the chunk to WrOff, in one or two parts.
Copy ==
  /\ wpc = "copy"
  /\ pBuffer' = [k \in 0 .. Size - 1 |->
                   LET i == IF k >= WrOff THEN k - WrOff + 1 ELSE Size - WrOff + k + 1
                   IN IF i <= Len(chunk) THEN chunk[i] ELSE pBuffer[k]]
  /\ wpc' = "publish"
  /\ UNCHANGED <<WrOff, RdOff, Flags, active, pieces, chunk, wrNext, reader, host>>

\* RTT__DMB, then the store that makes the bytes visible.
Publish ==
  /\ wpc = "publish"
  /\ WrOff' = wrNext
  /\ chunk' = <<>>
  /\ wpc'   = IF pieces = <<>> THEN "idle" ELSE "plan"
  /\ UNCHANGED <<pBuffer, RdOff, Flags, active, pieces, wrNext, reader, host>>

Writer ==
  \/ \E n \in 1 .. MaxWrite : SEGGER_RTT_Write(n) \/ SEGGER_RTT_WriteSkipNoLock(n)
  \/ SEGGER_RTT_PutCharSkip \/ SEGGER_RTT_PutChar
  \/ \E t \in Terminal : SEGGER_RTT_SetTerminal(t)
  \/ \E t \in Terminal, n \in 0 .. MaxWrite : SEGGER_RTT_TerminalOut(t, n)
  \/ \E f \in Mode : SEGGER_RTT_SetFlagsUpBuffer(f)

\* The rest of a call that is under way.
Finish == _WriteBlocking \/ PutCharStore \/ Copy \/ Publish

-----------------------------------------------------------------------------
(* The reader *)

\* Bytes read up to the end of the buffer, and the offset after them.
ReadFirst(n) == IF RdOff > WrOff THEN Min2(Size - RdOff, n) ELSE 0

OffAfterFirst(n) ==
  IF RdOff > WrOff /\ RdOff + ReadFirst(n) = Size THEN 0 ELSE RdOff + ReadFirst(n)

\* The rest: the difference wraps below 0 if the first part was cut short,
\* and then nothing more was asked for.
ReadRest(n) == Min2(Unsigned(WrOff - OffAfterFirst(n)), Unsigned(n - ReadFirst(n)))

BeginRead(n) ==
  /\ rpc = "idle"
  /\ num' = ReadFirst(n) + ReadRest(n)
  /\ num' > 0
  /\ rdNext' = OffAfterFirst(n) + ReadRest(n)
  /\ rpc' = "copy"
  /\ UNCHANGED <<ring, Flags, active, writer, take, host>>

TakeBytes ==
  /\ rpc = "copy"
  /\ take' = [i \in 1 .. num |-> pBuffer[Wrap(RdOff + i - 1)]]
  /\ rpc'  = "publish"
  /\ UNCHANGED <<ring, Flags, active, writer, num, rdNext, host>>

\* External: the host shows the bytes it has read one after the other.
HostState[k \in 0 .. Size] ==
  IF k = 0 THEN <<shown, esc, misrouted>>
  ELSE LET s == HostState[k - 1]
           b == take[k]
       IN IF b = ESC THEN <<s[1], TRUE, s[3]>>
          ELSE IF s[2] THEN <<b, FALSE, s[3]>>
          ELSE <<s[1], FALSE, s[3] \/ b # s[1]>>

ReadDone ==
  /\ rpc = "publish"
  /\ RdOff' = rdNext
  /\ rpc'   = "idle"
  /\ num'   = 0
  /\ take'  = <<>>
  /\ LET s == HostState[Len(take)]
     IN shown' = s[1] /\ esc' = s[2] /\ misrouted' = s[3]
  /\ UNCHANGED <<pBuffer, WrOff, Flags, active, writer, rdNext>>

Reader == (\E n \in 1 .. Size : BeginRead(n)) \/ TakeBytes \/ ReadDone

Next == Writer \/ Finish \/ Reader

Spec == Init /\ [][Next]_vars

\* A call that is under way runs to its end with the others masked.  The probe
\* polls the control block as long as it is connected, which is the case a
\* blocking channel is for; without a probe a blocking write never returns.
FairSpec == Spec /\ WF_vars(Finish) /\ WF_vars(Reader)

-----------------------------------------------------------------------------
TypeOK ==
  /\ pBuffer \in [0 .. Size - 1 -> Byte]
  /\ WrOff  \in 0 .. Size - 1 /\ RdOff \in 0 .. Size - 1
  /\ Flags  \in Mode
  /\ active \in Terminal
  /\ wpc    \in {"idle", "plan", "char", "copy", "publish"}
  /\ pieces \in Seq(Seq(Byte)) /\ chunk \in Seq(Byte)
  /\ wrNext \in 0 .. Size - 1
  /\ rpc    \in {"idle", "copy", "publish"}
  /\ num    \in 0 .. Size - 1
  /\ take   \in Seq(Byte)
  /\ rdNext \in 0 .. Size - 1

(***************************************************************************)
(* The bytes a writer is about to store fit into the free part of the ring *)
(* and WrOff will stand right behind them, however far the reader has come *)
(* since the space was computed: nothing unread is overwritten.            *)
(***************************************************************************)
NothingOverwritten ==
  wpc \in {"copy", "publish"} =>
    /\ Used + Len(chunk) < Size
    /\ wrNext = Wrap(WrOff + Len(chunk))

(***************************************************************************)
(* What the reader has copied when it gives the space back is the oldest   *)
(* unread bytes in their order, although the writer stored more and moved  *)
(* WrOff meanwhile.                                                        *)
(***************************************************************************)
ReadsOldest ==
  rpc = "publish" =>
    /\ num <= Used
    /\ take = [i \in 1 .. num |-> Content[i]]
    /\ rdNext = Wrap(RdOff + num)

(***************************************************************************)
(* The offsets stay in the ring, and both sides keep to their part of it   *)
(* although each works with an offset of the other that is stale.          *)
(***************************************************************************)
RingSound == TypeOK /\ NothingOverwritten /\ ReadsOldest

(***************************************************************************)
(* A call in one of the modes that must not block never finds the ring     *)
(* full in _WriteBlocking, not even the three calls of a TerminalOut: the  *)
(* firmware cannot hang with interrupts masked because no probe reads.     *)
(***************************************************************************)
NonBlockingNeverWaits ==
  wpc = "plan" /\ Flags # BLOCK_IF_FIFO_FULL => BlockSpace > 0

(***************************************************************************)
(* Every byte is shown on the terminal it was written for, although        *)
(* switches can be refused, text can be trimmed or dropped and the mode    *)
(* changes between calls.                                                  *)
(***************************************************************************)
ShownWhereWritten == ~misrouted

(***************************************************************************)
(* With a reader that keeps polling, a blocking write returns.             *)
(***************************************************************************)
WritesReturn == (wpc # "idle") ~> (wpc = "idle")

\* The ring implements the queue: storing WrOff appends the
\* bytes of the chunk, storing RdOff removes.
Fifo == INSTANCE RttFifo WITH Capacity <- Size - 1, queue <- Content,
                              offered <- chunk

(***************************************************************************)
(* The ring and its two offsets are a bounded FIFO of bytes, whole or in   *)
(* parts as the modes allow.                                               *)
(***************************************************************************)
ImplementsFifo == Fifo!Spec

=============================================================================
