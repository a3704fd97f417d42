------------------------------ MODULE Encoding -------------------------------
(***************************************************************************)
(* The packet format of SEGGER_SYSVIEW.c: how the recording functions lay  *)
(* out a packet in the static buffer _aPacket, and whether a host that     *)
(* reads the bytes gets the event back.                                    *)
(*                                                                         *)
(* A record is a layout (which fields a recording function encodes) and    *)
(* the values of the fields: all numbers of a record have the same value   *)
(* and all strings the same length, which covers the extremes.             *)
(***************************************************************************)
EXTENDS Integers, Sequences

CONSTANTS MAX_STRING_LEN, MAX_ARGUMENTS,   \* 128 and 16
          Value,      \* bound: values of a U32 field
          Length,     \* bound: lengths of a string
          EventId     \* bound: ids of events of the application

\* 2^0, 2^7, 2^14, 2^21, 2^28: seven bits to a byte.
Place == <<1, 128, 16384, 2097152, 268435456>>

\* The length of a string is one byte, that of a packet two.  There is room for
\* the longest packets without a string (RecordU32x10) and with one (RegisterData).
ASSUME EncodingAssumption ==
  /\ MAX_STRING_LEN \in Nat /\ MAX_STRING_LEN < 255
  /\ MAX_ARGUMENTS \in Nat /\ MAX_ARGUMENTS >= 5
  /\ MAX_STRING_LEN + 5 * MAX_ARGUMENTS >= 43
  /\ MAX_STRING_LEN + 5 * MAX_ARGUMENTS + 3 < Place[3]
  /\ Length \subseteq Nat
  /\ Value \subseteq Nat /\ \A v \in Value : v \div Place[5] < 16
  /\ EventId \subseteq Nat /\ \A id \in EventId : id \div Place[5] < 16

INFO_SIZE       == 9
QUANTA_U32      == 5
MAX_PACKET_SIZE == INFO_SIZE + MAX_STRING_LEN + 2 * QUANTA_U32 + MAX_ARGUMENTS * QUANTA_U32
HEADER          == 5 + 2      \* _MAX_ID_BYTES + _MAX_DATA_BYTES

-----------------------------------------------------------------------------
(* Encoders *)

\* Seven bits at a time, the lowest first, bit 7 set in all but the last byte.
EncodeU32[v \in Nat] ==
  IF v > 127 THEN <<(v % 128) + 128>> \o EncodeU32[v \div 128] ELSE <<v>>

Char == 65

\* Mutant: the limit is not applied.
EncodeStrAll(n, limit) == <<n>> \o [i \in 1 .. n |-> Char]

\* _EncodeStr of a string of n characters: a count byte and at most limit of them.
EncodeStr(n, limit) ==
  LET m == IF limit > MAX_STRING_LEN THEN MAX_STRING_LEN ELSE limit
      k == IF n < m THEN n ELSE m
  IN <<k>> \o [i \in 1 .. k |-> Char]

\* v as k bytes written from the last to the first.
Backward(v, k) ==
  [i \in 1 .. k |-> LET b == v \div Place[i]
                    IN IF i < k THEN (b % 128) + 128 ELSE b % 256]

\* Mutant: bit 7 of the first byte of a long length is not set.
LengthNoFlag(n) == IF n > 127 THEN <<n % 128, n \div 128>> ELSE <<n>>

LengthBytes(n) == IF n > 127 THEN Backward(n, 2) ELSE Backward(n, 1)

IdBytes(id) ==
  Backward(id, IF id < 127 THEN 1 ELSE IF id < Place[3] THEN 2
               ELSE IF id < Place[4] THEN 3 ELSE IF id < Place[5] THEN 4 ELSE 5)

\* _SendPacket: known events have no length.
PacketHeader(id, n) == IF id < 24 THEN <<id>> ELSE IdBytes(id) \o LengthBytes(n)

-----------------------------------------------------------------------------
(* Layouts: id, then numbers of one byte (k), any U32 (u) and strings (s),  *)
(* each string with its limit.                                              *)

Layout(id, k, u, s) == [id |-> id, k |-> k, u |-> u, s |-> s]

\* SEGGER_SYSVIEW_RecordVoid, RecordU32, RecordU32x2, RecordU32x3, RecordU32x4.
RecordLayouts == {Layout(id, 0, n, <<>>) : id \in EventId, n \in 0 .. 4}

\* RecordU32x5 ... RecordU32x10.
LongRecordLayouts == {Layout(id, 0, n, <<>>) : id \in EventId, n \in 5 .. 10}

\* The ids of the kernel's calls, apiID_... of SEGGER_SYSVIEW_FreeRTOS.h.
ApiId == EventId \cap (150 .. 332)

\* The traceAPI_... macros: a call with up to seven arguments.
TraceApiLayouts == {Layout(id, 0, n, <<>>) : id \in ApiId, n \in 0 .. 7}

\* The traceRETURN_... macros, by RecordEndCall and RecordEndCallU32: the call that
\* returns is the first number.
TraceReturnLayouts == {Layout(28, 0, n, <<>>) : n \in {1, 2}}

\* RecordString.
StringLayouts == {Layout(id, 0, 0, <<MAX_STRING_LEN>>) : id \in EventId}

\* INIT of Start and GetSysDesc (the shift is one byte).
SysDescLayouts == {Layout(24, 1, 3, <<>>), Layout(14, 0, 0, <<MAX_STRING_LEN>>)}

\* SendTaskInfo (two packets), SampleData (a float is its bits).  SendStackInfo
\* lays out a packet and does not send it.
TaskInfoLayouts == {Layout(9, 0, 2, <<32>>), Layout(21, 0, 4, <<>>), Layout(23, 0, 2, <<>>)}

\* RecordEnterISR, ExitISR, ExitISRToScheduler, EnterTimer, ExitTimer, EndCall,
\* EndCallU32.
IsrLayouts == {Layout(2, 0, 1, <<>>), Layout(3, 0, 0, <<>>), Layout(18, 0, 0, <<>>),
               Layout(19, 0, 1, <<>>), Layout(20, 0, 0, <<>>), Layout(28, 0, 1, <<>>),
               Layout(28, 0, 2, <<>>)}

\* OnIdle, OnTaskCreate, Terminate, StartExec, StopExec, StartReady, StopReady.
TaskLayouts == {Layout(17, 0, 0, <<>>), Layout(8, 0, 1, <<>>), Layout(29, 0, 1, <<>>),
                Layout(4, 0, 1, <<>>), Layout(5, 0, 0, <<>>), Layout(6, 0, 1, <<>>),
                Layout(7, 0, 2, <<>>)}

\* MarkStart, MarkStop, Mark, NameMarker, NameResource.
MarkLayouts == {Layout(15, 0, 1, <<>>), Layout(16, 0, 1, <<>>), Layout(31, 1, 1, <<>>),
                Layout(31, 1, 1, <<MAX_STRING_LEN>>), Layout(25, 0, 1, <<MAX_STRING_LEN>>)}

\* RegisterData: the optional fields up to the last one that is not 0.
RegisterLayouts == {Layout(31, 1, 1 + n, <<MAX_STRING_LEN>>) : n \in 0 .. 5}
                     \cup {Layout(31, 1, 6, <<MAX_STRING_LEN, MAX_STRING_LEN>>)}

\* HeapDefine, HeapAlloc, HeapAllocEx, HeapFree.
HeapLayouts == {Layout(31, 1, n, <<>>) : n \in {2, 3, 4}}

\* RecordModuleDescription, SendModule, SendNumModules.
ModuleLayouts == {Layout(22, 1, 1, <<MAX_STRING_LEN>>), Layout(27, 1, 0, <<>>)}

\* _VPrintHost: string, options and the number of arguments, the arguments.
VPrintHostLayout(n) == Layout(26, 2, n, <<MAX_STRING_LEN>>)

\* PrintfHost, WarnfHost, ErrorfHost and their variants: as many arguments as the
\* format has '%', up to the limit.
HostPrintLayouts == {VPrintHostLayout(n) : n \in 0 .. MAX_ARGUMENTS}

\* Print, Warn, Error.
PrintLayouts == {Layout(26, 2, 0, <<MAX_STRING_LEN>>)}

Layouts == RecordLayouts \cup LongRecordLayouts \cup TraceApiLayouts
             \cup TraceReturnLayouts \cup StringLayouts \cup SysDescLayouts \cup TaskInfoLayouts
             \cup IsrLayouts \cup TaskLayouts \cup MarkLayouts \cup RegisterLayouts
             \cup HeapLayouts \cup ModuleLayouts \cup HostPrintLayouts \cup PrintLayouts

-----------------------------------------------------------------------------
\* Concatenation of n copies of s.
Times(s, n) == [i \in 1 .. n * Len(s) |-> s[((i - 1) % Len(s)) + 1]]

Payload(r) ==
  LET l == r.layout
  IN Times(<<1>>, l.k) \o Times(EncodeU32[r.v], l.u)
       \o (IF Len(l.s) > 0 THEN EncodeStr(r.n, l.s[1]) ELSE <<>>)
       \o (IF Len(l.s) > 1 THEN EncodeStr(r.n, l.s[2]) ELSE <<>>)

\* What _SendPacket gives to the channel.
PacketBytes(r) ==
  PacketHeader(r.layout.id, Len(Payload(r))) \o Payload(r) \o EncodeU32[r.delta]

PacketRecord == [layout : Layouts, v : Value, n : Length, delta : Value]

VARIABLE rec     \* the packet in _aPacket

\* _aPacket before the first event: no fields.
EncodeInit == rec = [layout |-> Layout(0, 0, 0, <<>>), v |-> 0, n |-> 0, delta |-> 0]

RecordEvent(r) == rec' = r

-----------------------------------------------------------------------------
(* External: the host *)

\* Position of the last byte of the number that starts at i, and its value.
NumberEnd(b, i)   == CHOOSE j \in i .. Len(b) : b[j] < 128 /\ \A h \in i .. j - 1 : b[h] >= 128
NumberValue(b, i) ==
  LET val[j \in i .. NumberEnd(b, i)] ==
        (b[j] % 128) + (IF j = NumberEnd(b, i) THEN 0 ELSE 128 * val[j + 1])
  IN val[i]

-----------------------------------------------------------------------------
(***************************************************************************)
(* A host finds the end of every packet whose length it is told, at the    *)
(* boundaries of the one-, two- and three-byte forms of ids and lengths,   *)
(* and reads the same id and the same time delta: the stream never gets    *)
(* out of step.                                                            *)
(***************************************************************************)
HostInStep ==
  rec.layout.id >= 24 =>
    LET b   == PacketBytes(rec)
        atN == NumberEnd(b, 1) + 1
        atD == NumberEnd(b, atN) + 1 + NumberValue(b, atN)
    IN /\ NumberValue(b, 1) = rec.layout.id
       /\ NumberValue(b, atN) = Len(Payload(rec))
       /\ NumberValue(b, atD) = rec.delta
       /\ NumberEnd(b, atD) = Len(b)

(***************************************************************************)
(* Every packet the recording functions build fits into _aPacket with the  *)
(* bytes reserved in front, for strings and numbers of any size, except    *)
(* the one layout with two strings: RegisterData with a unit fits only     *)
(* while name and unit together leave room.                                *)
(***************************************************************************)
PacketFits ==
  LET two == Len(rec.layout.s) = 2 IN
  ~two \/ 2 * rec.n <= MAX_PACKET_SIZE - HEADER - 7 * QUANTA_U32 - 3
    => HEADER + Len(Payload(rec)) + Len(EncodeU32[rec.delta]) <= MAX_PACKET_SIZE

=============================================================================
