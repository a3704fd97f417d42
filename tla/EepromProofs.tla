---------------------------- MODULE EepromProofs ----------------------------
(***************************************************************************)
(* For every device of at most 256 bytes and every page size: the bytes of *)
(* a blob end up where they belong (BytesInPlace) and a reported success   *)
(* means all of them did (SavedIfReported).                                *)
(***************************************************************************)
EXTENDS Eeprom, TLAPS

\* What a remainder is when nothing has to be taken away.
LEMMA SmallMod ==
  ASSUME NEW p \in Nat \ {0}, NEW x \in 0 .. p - 1
  PROVE  x % p = x
OBVIOUS

LEMMA ModRange ==
  ASSUME NEW p \in Nat \ {0}, NEW x \in Nat
  PROVE  x % p \in 0 .. p - 1
OBVIOUS

\* While a chunk is to be written, the address it goes to is addr + offset
\* and the chunk stays within the blob and within the page.
LEMMA ChunkFits ==
  ASSUME TypeOK, offset < len
  PROVE  /\ absAddr = addr + offset /\ address = addr + offset
         /\ chunk \in 1 .. len - offset
         /\ pageOffset \in Nat
         /\ pageOffset + chunk <= EEPROM_PAGE_SIZE
<1>1. addr \in Nat /\ len \in Nat /\ offset \in Nat /\ addr + offset \in 0 .. 255
  BY EepromAssumption DEF TypeOK
<1>2. absAddr = addr + offset
  BY <1>1 DEF absAddr
<1>3. address = addr + offset
  BY <1>1, <1>2 DEF address
<1>4. pageOffset \in 0 .. EEPROM_PAGE_SIZE - 1
  <2>1. address \in Nat
    BY <1>1, <1>3
  <2> QED  BY <2>1, ModRange, EepromAssumption DEF pageOffset
<1>5. chunk = IF EEPROM_PAGE_SIZE - pageOffset > len - offset
              THEN len - offset ELSE EEPROM_PAGE_SIZE - pageOffset
  BY <1>2, <1>3 DEF chunk, pageOffset
<1> QED
  BY <1>1, <1>2, <1>3, <1>4, <1>5, EepromAssumption

\* The bytes of a chunk do not wrap around.
LEMMA PlaceIsNext ==
  ASSUME TypeOK, offset < len, NEW j \in 0 .. chunk - 1
  PROVE  Place(j) = addr + offset + j /\ Place(j) \in Cell
<1>1. /\ address = addr + offset /\ chunk \in 1 .. len - offset
      /\ pageOffset \in Nat /\ pageOffset + chunk <= EEPROM_PAGE_SIZE
  BY ChunkFits
<1>2. pageOffset + j \in 0 .. EEPROM_PAGE_SIZE - 1
  BY <1>1, EepromAssumption DEF TypeOK
<1>3. (pageOffset + j) % EEPROM_PAGE_SIZE = pageOffset + j
  BY <1>2, SmallMod, EepromAssumption
<1>4. Place(j) = addr + offset + j
  BY <1>1, <1>3 DEF Place, TypeOK
<1> QED
  BY <1>1, <1>4, EepromAssumption DEF Cell, TypeOK

\* What the memory holds after the device took k bytes of the chunk.
LEMMA Programmed ==
  ASSUME TypeOK, offset < len, NEW k \in 0 .. chunk, Program(k)
  PROVE  /\ mem' \in [Cell -> -1 .. MemSize]
         /\ \A c \in Cell : mem'[c] = IF addr + offset <= c /\ c < addr + offset + k
                                      THEN c - addr ELSE mem[c]
<1>1. chunk \in 1 .. len - offset
  BY ChunkFits
<1>2. /\ addr \in Nat /\ len \in Nat /\ offset \in Nat /\ addr + len <= MemSize
      /\ MemSize \in Nat /\ k \in Nat /\ Cell \subseteq Nat
  BY <1>1, EepromAssumption DEF TypeOK, Cell
<1>3. \A j \in 0 .. k - 1 : Place(j) = addr + offset + j
  BY <1>1, <1>2, PlaceIsNext
<1>4. ASSUME NEW c \in Cell
      PROVE  mem'[c] = IF addr + offset <= c /\ c < addr + offset + k
                       THEN c - addr ELSE mem[c]
  <2>1. mem'[c] = IF \E j \in 0 .. k - 1 : Place(j) = c
                  THEN offset + (CHOOSE j \in 0 .. k - 1 : Place(j) = c)
                  ELSE mem[c]
    BY DEF Program
  <2>2. CASE addr + offset <= c /\ c < addr + offset + k
    <3>1. c - addr - offset \in 0 .. k - 1
      BY <1>2, <2>2
    <3>2. Place(c - addr - offset) = c
      BY <1>2, <1>3, <3>1
    <3>3. PICK i \in 0 .. k - 1 : i = (CHOOSE j \in 0 .. k - 1 : Place(j) = c) /\ Place(i) = c
      BY <3>1, <3>2
    <3> QED
      BY <1>2, <1>3, <2>1, <2>2, <3>1, <3>2, <3>3
  <2>3. CASE ~(addr + offset <= c /\ c < addr + offset + k)
    <3>1. ~ \E j \in 0 .. k - 1 : Place(j) = c
      BY <1>2, <1>3, <2>3
    <3> QED
      BY <2>1, <2>3, <3>1
  <2> QED
    BY <2>2, <2>3
<1>5. \A c \in Cell : mem'[c] \in -1 .. MemSize
  BY <1>2, <1>4 DEF TypeOK, Cell
<1>6. mem' = [c \in Cell |-> mem'[c]]
  BY DEF Program
<1> QED
  BY <1>4, <1>5, <1>6

\* The three invariants, which are inductive together.
Inv == TypeOK /\ BytesInPlace /\ SavedIfReported

LEMMA InitInv == Init => Inv
BY EepromAssumption DEF Init, Inv, TypeOK, BytesInPlace, SavedIfReported, Old, Cell

LEMMA NextInv == Inv /\ [Next]_vars => Inv'
<1> SUFFICES ASSUME Inv, [Next]_vars PROVE Inv'
  OBVIOUS
<1> USE EepromAssumption DEF Inv
<1>1. ASSUME NEW a \in Cell, NEW n \in 1 .. MemSize, Start(a, n) PROVE Inv'
  BY <1>1 DEF Start, TypeOK, BytesInPlace, SavedIfReported, Old, Cell
<1>2. CASE WriteChunk
  <2>1. /\ chunk \in 1 .. len - offset /\ offset < len /\ pc = "write"
        /\ offset' = offset + chunk
        /\ UNCHANGED <<pc, addr, len, result>>
    BY <1>2, ChunkFits DEF WriteChunk
  <2>2. /\ mem' \in [Cell -> -1 .. MemSize]
        /\ \A c \in Cell : mem'[c] = IF addr + offset <= c /\ c < addr + offset + chunk
                                     THEN c - addr ELSE mem[c]
    <3>1. chunk \in 0 .. chunk
      BY <2>1 DEF TypeOK
    <3> QED  BY <1>2, <2>1, <3>1, Programmed DEF WriteChunk
  <2>3. TypeOK'
    BY <2>1, <2>2 DEF TypeOK
  <2>4. BytesInPlace'
    BY <2>1, <2>2 DEF TypeOK, BytesInPlace, Cell, Old
  <2>5. SavedIfReported'
    <3>1. ASSUME NEW i \in 0 .. offset' - 1 PROVE mem'[addr' + i] = i
      <4>1. i \in Nat /\ i < offset + chunk
        BY <2>1 DEF TypeOK
      <4>2. addr + i \in Cell
        BY <2>1, <4>1 DEF TypeOK, Cell
      <4> QED
        BY <2>1, <2>2, <4>1, <4>2 DEF TypeOK, SavedIfReported
    <3> QED
      BY <2>1, <3>1 DEF SavedIfReported
  <2> QED  BY <2>3, <2>4, <2>5
<1>3. CASE FailChunk \/ PowerLoss
  <2>1. /\ chunk \in 1 .. len - offset /\ offset < len /\ pc = "write"
        /\ UNCHANGED <<addr, len, offset>>
        /\ (pc' = "done" /\ result' = 0) \/ (pc' = "lost" /\ result' = result)
    BY <1>3, ChunkFits DEF FailChunk, PowerLoss
  <2>2. PICK k \in 0 .. chunk : Program(k)
    <3>1. 0 .. chunk - 1 \subseteq 0 .. chunk
      BY <2>1 DEF TypeOK
    <3> QED  BY <1>3, <3>1 DEF FailChunk, PowerLoss
  <2>3. /\ mem' \in [Cell -> -1 .. MemSize]
        /\ \A c \in Cell : mem'[c] = IF addr + offset <= c /\ c < addr + offset + k
                                     THEN c - addr ELSE mem[c]
    BY <2>1, <2>2, Programmed
  <2>4. TypeOK'
    BY <2>1, <2>3 DEF TypeOK
  <2>5. BytesInPlace'
    BY <2>1, <2>3 DEF TypeOK, BytesInPlace, Cell, Old
  <2>6. SavedIfReported'
    <3>1. ASSUME NEW i \in 0 .. offset - 1 PROVE mem'[addr + i] = i
      <4>1. addr + i \in Cell /\ addr + i < addr + offset
        BY <2>1 DEF TypeOK, Cell
      <4> QED
        BY <2>1, <2>3, <4>1 DEF TypeOK, SavedIfReported
    <3> QED
      BY <2>1, <3>1 DEF SavedIfReported
  <2> QED  BY <2>4, <2>5, <2>6
<1>4. CASE Return
  <2>1. pc = "write" /\ offset = len /\ pc' = "done"
        /\ UNCHANGED <<addr, len, offset, mem>>
    BY <1>4 DEF Return, TypeOK
  <2>2. absAddr = addr + offset
    <3>1. addr \in Nat /\ offset \in Nat /\ addr + offset <= 256
      BY DEF TypeOK
    <3> QED  BY <3>1 DEF absAddr
  <2>3. result' \in 0 .. MemSize
    BY <1>4, <2>1, <2>2 DEF Return, TypeOK
  <2> QED
    BY <2>1, <2>3 DEF TypeOK, BytesInPlace, SavedIfReported
<1>5. CASE UNCHANGED vars
  BY <1>5 DEF vars, TypeOK, BytesInPlace, SavedIfReported
<1> QED
  BY <1>1, <1>2, <1>3, <1>4, <1>5 DEF Next

THEOREM EepromInvariant == Spec => []Inv
BY InitInv, NextInv, PTL DEF Spec

(***************************************************************************)
(* EEPROM_WriteBlob never wraps around in a page: for every page size,     *)
(* start address and length, each byte goes to its own cell.               *)
(***************************************************************************)
THEOREM BytesStayInPlace == Spec => []BytesInPlace
BY EepromInvariant, PTL DEF Inv

(***************************************************************************)
(* A true result of EEPROM_WriteBlob means the whole blob is stored, and   *)
(* the part dealt with is stored at every earlier moment.                  *)
(***************************************************************************)
THEOREM ReportedBlobIsSaved == Spec => []SavedIfReported
BY EepromInvariant, PTL DEF Inv

\* Offsets stay within the blob, the blob within the device.
THEOREM TypeCorrect == Spec => []TypeOK
BY EepromInvariant, PTL DEF Inv

=============================================================================
