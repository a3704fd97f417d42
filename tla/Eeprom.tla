------------------------------- MODULE Eeprom --------------------------------
(***************************************************************************)
(* Writing a blob to the 24LC01B EEPROM (24lc01b.c): EEPROM_WriteBlob cuts *)
(* it into chunks that end at page boundaries and calls EEPROM_Write for   *)
(* each, giving up at the first failure.                                   *)
(*                                                                         *)
(* A memory cell holds Old, what it held before the call, or the index of  *)
(* the blob byte that was written to it.                                   *)
(***************************************************************************)
EXTENDS Integers

CONSTANTS MemSize,            \* bytes of the device (128)
          EEPROM_PAGE_SIZE    \* 8

ASSUME EepromAssumption ==
  /\ EEPROM_PAGE_SIZE \in Nat \ {0}
  /\ MemSize \in 0 .. 256      \* EEPROM_Write sends one address byte

Old == -1                     \* content before the call

VARIABLES
  pc,          \* "idle", "write", "done", "lost" (power failed)
  addr, len,   \* arguments of EEPROM_WriteBlob
  offset,      \* bytes of the blob dealt with
  mem,         \* the cells of the device
  result       \* what EEPROM_WriteBlob returned (0 is false)

vars == <<pc, addr, len, offset, mem, result>>

Cell == 0 .. MemSize - 1

Init ==
  /\ pc = "idle"
  /\ addr = 0 /\ len = 0 /\ offset = 0
  /\ mem = [c \in Cell |-> Old]
  /\ result = 0

\* A call whose blob fits the device (the credentials are 128 bytes at 0).
Start(a, n) ==
  /\ pc # "write"
  /\ n > 0 /\ a + n <= MemSize
  /\ pc' = "write"
  /\ addr' = a /\ len' = n /\ offset' = 0
  /\ mem' = [c \in Cell |-> Old]
  /\ UNCHANGED result

absAddr == (addr + offset) % 65536
address == absAddr % 256

\* Mutant: the position within the page is not taken into account.
WholePageChunk ==
  IF EEPROM_PAGE_SIZE > len - offset THEN len - offset ELSE EEPROM_PAGE_SIZE

\* The size of the next chunk.
chunk ==
  LET room == EEPROM_PAGE_SIZE - (absAddr % EEPROM_PAGE_SIZE)
  IN  IF room > len - offset THEN len - offset ELSE room

(***************************************************************************)
(* The device's page write: k bytes from address on, the address wrapping  *)
(* around within the page.                                                 *)
(***************************************************************************)
pageOffset == address % EEPROM_PAGE_SIZE
Place(j)   == address - pageOffset + ((pageOffset + j) % EEPROM_PAGE_SIZE)
Program(k) ==
  mem' = [c \in Cell |-> IF \E j \in 0 .. k - 1 : Place(j) = c
                         THEN offset + (CHOOSE j \in 0 .. k - 1 : Place(j) = c)
                         ELSE mem[c]]

\* The sanity check of EEPROM_Write.
Refused == chunk = 0 \/ chunk > EEPROM_PAGE_SIZE

\* EEPROM_Write succeeds: next chunk.
WriteChunk ==
  /\ pc = "write"
  /\ offset < len
  /\ ~Refused
  /\ Program(chunk)
  /\ offset' = offset + chunk
  /\ UNCHANGED <<pc, addr, len, result>>

\* Mutant: a failed EEPROM_Write does not end the loop.
FailIgnored ==
  /\ pc = "write"
  /\ offset < len
  /\ offset' = offset + chunk
  /\ UNCHANGED <<pc, addr, len, mem, result>>

\* It fails, perhaps after the device took some bytes: return false.
FailChunk ==
  /\ pc = "write"
  /\ offset < len
  /\ \E k \in 0 .. chunk : (IF Refused THEN k = 0 ELSE k < chunk) /\ Program(k)
  /\ result' = 0
  /\ pc' = "done"
  /\ UNCHANGED <<addr, len, offset>>

Return ==
  /\ pc = "write"
  /\ offset >= len
  /\ result' = absAddr
  /\ pc' = "done"
  /\ UNCHANGED <<addr, len, offset, mem>>

\* Power fails while the device programs a page.
PowerLoss ==
  /\ pc = "write"
  /\ offset < len
  /\ \E k \in 0 .. chunk - 1 : Program(k)
  /\ pc' = "lost"
  /\ UNCHANGED <<addr, len, offset, result>>

Next == \/ \E a \in Cell, n \in 1 .. MemSize : Start(a, n)
        \/ WriteChunk \/ FailChunk \/ Return \/ PowerLoss

Spec == Init /\ [][Next]_vars

-----------------------------------------------------------------------------
TypeOK ==
  /\ pc \in {"idle", "write", "done", "lost"}
  /\ addr \in 0 .. MemSize /\ len \in 0 .. MemSize
  /\ addr + len <= MemSize
  /\ offset \in 0 .. len
  /\ mem \in [Cell -> -1 .. MemSize]
  /\ result \in 0 .. MemSize

(***************************************************************************)
(* Whatever fails and wherever the blob starts, a byte is only ever        *)
(* written to the cell it belongs to: no chunk wraps around in its page    *)
(* and overwrites what is stored before it.                                *)
(***************************************************************************)
BytesInPlace ==
  \A c \in Cell : mem[c] # Old => c = addr + mem[c] /\ mem[c] < len

(***************************************************************************)
(* A result that counts as true means the whole blob is in the device, and *)
(* until then the bytes before offset are (so a failure or a power loss    *)
(* leaves a prefix of the new blob before the rest of the old one).        *)
(***************************************************************************)
SavedIfReported ==
  /\ pc \in {"write", "done"} => \A i \in 0 .. offset - 1 : mem[addr + i] = i
  /\ pc = "done" /\ result # 0 => offset = len

=============================================================================
