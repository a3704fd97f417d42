---------------------------- MODULE RttRingProofs ----------------------------
(***************************************************************************)
(* For every ring size, set of terminals and length of writes: the ring of *)
(* SEGGER_RTT.c loses, repeats and overwrites nothing (RingSound), it is   *)
(* the FIFO of RttFifo, calls that must not block do not wait, and every   *)
(* byte is shown on its terminal.                                          *)
(*                                                                         *)
(* The last of these is a statement about all the bytes on their way, from *)
(* the last one the host has handled to the last one the call under way    *)
(* has still to write: their sequence (Stream) is one in which every two   *)
(* neighbours fit, and it ends with the active terminal.  Only two kinds   *)
(* of steps change it: a call appends what it says, and the host drops     *)
(* what it has read.                                                       *)
(***************************************************************************)
EXTENDS RttRing, SequenceTheorems, WellFoundedInduction, TLAPS

-----------------------------------------------------------------------------
(* The inductive invariant *)

\* The bytes of at most three strings, and all that the call under way has
\* still to make visible.
Nth(p, i) == IF i <= Len(p) THEN p[i] ELSE <<>>
Join(p)   == Nth(p, 1) \o (Nth(p, 2) \o Nth(p, 3))
Pending   == chunk \o Join(pieces)

\* The last byte the host has handled decides how it takes the next one, so
\* the stream starts with it: what is in the ring and what is to come follows.
Prev   == IF esc THEN ESC ELSE shown
Stream == <<Prev>> \o (Content \o Pending)

\* After ESC comes a terminal.  After a terminal, whether it ended a switch or
\* is text, comes text of this terminal or the next switch.
May(a, b)   == IF a = ESC THEN b # ESC ELSE b \in {a, ESC}
Chain(s)    == \A i \in 1 .. Len(s) - 1 : May(s[i], s[i + 1])
EndsWith(b) == Stream[Len(Stream)] = b

\* The writer: what each place in the code has prepared, and that the bytes are
\* in the ring before WrOff is stored.
WriterInv ==
  /\ wpc \in {"copy", "publish"} => chunk # <<>>
  /\ wpc \notin {"copy", "publish"} => chunk = <<>>
  /\ wpc = "plan" => pieces # <<>>
  /\ wpc \in {"idle", "char"} => pieces = <<>>
  /\ Len(pieces) <= 3
  /\ \A i \in 1 .. Len(pieces) : pieces[i] # <<>>
  /\ wpc = "publish" => \A i \in 1 .. Len(chunk) : pBuffer[Wrap(WrOff + i - 1)] = chunk[i]

\* The reader: what it is about to take is there.
ReaderInv ==
  /\ rpc # "idle" => num \in 1 .. Used /\ rdNext = Wrap(RdOff + num)
  /\ rpc # "publish" => take = <<>>

\* A call that must not block has space for all that it still has to write.
Budget == Flags # BLOCK_IF_FIFO_FULL => Used + Len(Pending) <= Size - 1

\* The host has taken every byte right and will take the others right.
HostInv ==
  /\ shown \in Terminal /\ esc \in BOOLEAN /\ misrouted = FALSE
  /\ Chain(Stream)
  /\ EndsWith(active)

RingInv == TypeOK /\ WriterInv /\ NothingOverwritten /\ ReaderInv /\ ReadsOldest /\ Budget

-----------------------------------------------------------------------------
(* Offsets and contents *)

\* What the proofs use of the constants.
LEMMA ConstantFacts ==
  /\ Size \in Nat /\ Size > 1 /\ Word \in Nat /\ Word > 2 * Size /\ MaxWrite \in Nat
  /\ Terminal \subseteq Byte /\ ESC \in Byte /\ ESC \notin Terminal /\ 0 \in Terminal
BY RttAssumption DEF Byte, ESC

\* Wrap brings an offset back into the ring.
LEMMA WrapRange ==
  ASSUME NEW x \in 0 .. 2 * Size - 1
  PROVE  Wrap(x) \in 0 .. Size - 1
BY ConstantFacts DEF Wrap

\* The same for the sum of two offsets.
LEMMA WrapSum ==
  ASSUME NEW a \in 0 .. Size - 1, NEW b \in 0 .. Size - 1
  PROVE  Wrap(a + b) \in 0 .. Size - 1
BY ConstantFacts DEF Wrap

\* Used counts the bytes from RdOff to WrOff; one place always stays free.
LEMMA UsedFacts ==
  ASSUME TypeOK
  PROVE  /\ Used \in 0 .. Size - 1
         /\ WrOff = Wrap(RdOff + Used)
         /\ _GetAvailWriteSpace = Size - 1 - Used
BY ConstantFacts DEF TypeOK, Used, Wrap, _GetAvailWriteSpace

\* A function on 1 .. n is a sequence.
LEMMA FunctionIsSeq ==
  ASSUME NEW S, NEW n \in Nat, NEW f \in [1 .. n -> S]
  PROVE  f \in Seq(S) /\ Len(f) = n
<1>1. f \in Seq(S)
  BY SeqDef, Zenon
<1>2. DOMAIN f = 1 .. n /\ DOMAIN f = 1 .. Len(f) /\ Len(f) \in Nat
  BY <1>1, LenProperties
<1> QED
  BY <1>1, <1>2

\* The unread bytes are a sequence of Used bytes, all of them in the ring.
LEMMA ContentFacts ==
  ASSUME TypeOK
  PROVE  /\ Content \in Seq(Byte)
         /\ Len(Content) = Used
         /\ \A i \in 1 .. Used : /\ Content[i] = pBuffer[Wrap(RdOff + i - 1)]
                                 /\ Wrap(RdOff + i - 1) \in 0 .. Size - 1
                                 /\ Content[i] \in Byte
<1>1. Used \in 0 .. Size - 1
  BY UsedFacts
<1>2. \A i \in 1 .. Used : Wrap(RdOff + i - 1) \in 0 .. Size - 1
  BY <1>1, ConstantFacts DEF TypeOK, Wrap
<1>3. Content \in [1 .. Used -> Byte]
  BY <1>2 DEF Content, TypeOK
<1>4. Used \in Nat
  BY <1>1
<1> QED
  BY <1>2, <1>3, <1>4, FunctionIsSeq DEF Content

\* Bytes of a text and of a switch.
LEMMA TextFacts ==
  ASSUME NEW t \in Terminal, NEW n \in Nat
  PROVE  /\ Text(t, n) \in Seq(Byte) /\ Len(Text(t, n)) = n
         /\ \A i \in 1 .. n : Text(t, n)[i] = t
         /\ n > 0 => Text(t, n) # <<>>
<1>1. Text(t, n) \in [1 .. n -> Byte]
  BY ConstantFacts DEF Text
<1>2. Text(t, n) \in Seq(Byte) /\ Len(Text(t, n)) = n
  BY <1>1, FunctionIsSeq
<1>3. Len(<<>>) = 0
  OBVIOUS
<1> QED
  BY <1>2, <1>3 DEF Text

\* A terminal switch is ESC and the terminal.
LEMMA SwitchFacts ==
  ASSUME NEW t \in Terminal
  PROVE  /\ Switch(t) \in Seq(Byte) /\ Len(Switch(t)) = 2
         /\ Switch(t)[1] = ESC /\ Switch(t)[2] = t /\ Switch(t) # <<>>
BY ConstantFacts DEF Switch

-----------------------------------------------------------------------------
(* Strings that _WriteBlocking has to write *)

\* A string of the list, or the empty one.
LEMMA NthType ==
  ASSUME NEW p \in Seq(Seq(Byte)), NEW i \in Nat \ {0}
  PROVE  Nth(p, i) \in Seq(Byte)
BY DEF Nth

\* The strings of a list, joined, are bytes.
LEMMA JoinType ==
  ASSUME NEW p \in Seq(Seq(Byte))
  PROVE  Join(p) \in Seq(Byte) /\ Len(Join(p)) \in Nat
<1>1. Nth(p, 1) \in Seq(Byte) /\ Nth(p, 2) \in Seq(Byte) /\ Nth(p, 3) \in Seq(Byte)
  BY NthType
<1>2. Nth(p, 2) \o Nth(p, 3) \in Seq(Byte)
  BY <1>1, ConcatProperties
<1>3. Join(p) \in Seq(Byte)
  BY <1>1, <1>2, ConcatProperties DEF Join
<1> QED
  BY <1>3, LenProperties

\* No string, no bytes.
LEMMA JoinNone ==
  Join(<<>>) = <<>>
<1>1. Nth(<<>>, 1) = <<>> /\ Nth(<<>>, 2) = <<>> /\ Nth(<<>>, 3) = <<>>
  BY DEF Nth
<1> QED
  BY <1>1 DEF Join

\* The bytes of a list are those of its first string and then the others.
LEMMA JoinFirst ==
  ASSUME NEW p \in Seq(Seq(Byte)), p # <<>>, Len(p) <= 3
  PROVE  /\ Head(p) = p[1] /\ Head(p) \in Seq(Byte) /\ Tail(p) \in Seq(Seq(Byte))
         /\ Join(p) = Head(p) \o Join(Tail(p))
<1>1. /\ Tail(p) \in Seq(Seq(Byte)) /\ Len(Tail(p)) = Len(p) - 1 /\ Len(p) \in 1 .. 3
      /\ \A i \in 1 .. Len(p) - 1 : Tail(p)[i] = p[i + 1]
  <2>1. Len(p) \in Nat \ {0}
    BY EmptySeq
  <2>2. Tail(p) \in Seq(Seq(Byte)) /\ Len(Tail(p)) = Len(p) - 1
    BY HeadTailProperties
  <2>3. \A i \in 1 .. Len(Tail(p)) : Tail(p)[i] = p[i + 1]
    BY HeadTailProperties
  <2> QED  BY <2>1, <2>2, <2>3
<1>2. Head(p) = p[1] /\ Head(p) \in Seq(Byte)
  BY HeadTailProperties
<1>3. /\ Nth(p, 1) = Head(p) /\ Nth(Tail(p), 3) = <<>>
      /\ Nth(Tail(p), 1) = Nth(p, 2) /\ Nth(Tail(p), 2) = Nth(p, 3)
  BY <1>1, <1>2 DEF Nth
<1>4. Nth(p, 3) \in Seq(Byte)
  BY NthType
<1>5. Nth(p, 3) \o <<>> = Nth(p, 3)
  BY <1>4, ConcatEmptySeq
<1>6. Join(Tail(p)) = Nth(p, 2) \o Nth(p, 3)
  BY <1>3, <1>5 DEF Join
<1> QED
  BY <1>1, <1>2, <1>3, <1>6, Zenon DEF Join

\* The same for a list put together from a first string and the others.
LEMMA JoinCons ==
  ASSUME NEW a \in Seq(Byte), NEW p \in Seq(Seq(Byte)), Len(p) <= 2
  PROVE  /\ <<a>> \o p \in Seq(Seq(Byte)) /\ Len(<<a>> \o p) = Len(p) + 1
         /\ Join(<<a>> \o p) = a \o Join(p)
         /\ \A i \in 1 .. Len(p) + 1 : (<<a>> \o p)[i] = IF i = 1 THEN a ELSE p[i - 1]
<1>1. <<a>> \in Seq(Seq(Byte)) /\ Len(<<a>>) = 1 /\ <<a>>[1] = a
  OBVIOUS
<1>2. /\ <<a>> \o p \in Seq(Seq(Byte)) /\ Len(<<a>> \o p) = Len(p) + 1
      /\ \A i \in 1 .. Len(p) + 1 : (<<a>> \o p)[i] = IF i = 1 THEN a ELSE p[i - 1]
  <2>1. Len(p) \in Nat
    BY LenProperties
  <2>2. \A i \in 1 .. 1 + Len(p) : (<<a>> \o p)[i] = IF i <= 1 THEN <<a>>[i] ELSE p[i - 1]
    BY <1>1, ConcatProperties
  <2> QED  BY <1>1, <2>1, <2>2, ConcatProperties
<1>3. Len(p) \in Nat
  BY LenProperties
<1>4. /\ Nth(<<a>> \o p, 1) = a /\ Nth(p, 3) = <<>>
      /\ Nth(<<a>> \o p, 2) = Nth(p, 1) /\ Nth(<<a>> \o p, 3) = Nth(p, 2)
  BY <1>2, <1>3 DEF Nth
<1>5. Nth(p, 2) \o <<>> = Nth(p, 2)
  <2>1. Nth(p, 2) \in Seq(Byte)
    BY NthType
  <2> QED  BY <2>1, ConcatEmptySeq
<1>6. Join(p) = Nth(p, 1) \o Nth(p, 2)
  BY <1>4, <1>5 DEF Join
<1> QED
  BY <1>2, <1>4, <1>6 DEF Join

\* The bytes of a single string.
LEMMA JoinOne ==
  ASSUME NEW a \in Seq(Byte)
  PROVE  Join(<<a>>) = a
<1>1. <<a>> \o <<>> = <<a>> /\ a \o <<>> = a
  BY ConcatEmptySeq
<1>2. <<>> \in Seq(Seq(Byte)) /\ Len(<<>>) <= 2
  OBVIOUS
<1>3. Join(<<a>> \o <<>>) = a \o Join(<<>>)
  BY <1>2, JoinCons, Zenon
<1> QED
  BY <1>1, <1>3, JoinNone

-----------------------------------------------------------------------------
(* The writer's steps *)

\* As long as the ring stays as it is, so do the bytes in it.
LEMMA RingUnchanged ==
  ASSUME UNCHANGED ring
  PROVE  Used' = Used /\ Content' = Content /\ UNCHANGED <<pBuffer, WrOff, RdOff>>
BY DEF ring, Used, Content

\* ... and so does what the reader has planned.
LEMMA ReaderUnchanged ==
  ASSUME RingInv, UNCHANGED <<ring, reader>>
  PROVE  ReaderInv' /\ ReadsOldest'
<1>1. UNCHANGED <<WrOff, RdOff, rpc, num, take, rdNext>> /\ Used' = Used /\ Content' = Content
  BY RingUnchanged DEF ring, reader
<1> QED
  BY <1>1 DEF RingInv, ReaderInv, ReadsOldest, Wrap

\* Between two calls nothing is pending.
LEMMA NothingPending ==
  ASSUME RingInv, wpc \in {"idle", "char"}
  PROVE  chunk = <<>> /\ pieces = <<>> /\ Pending = <<>>
<1>1. chunk = <<>> /\ pieces = <<>>
  BY DEF RingInv, WriterInv
<1> QED
  BY <1>1, JoinNone DEF Pending

\* A call that writes in one go keeps the invariant if its bytes fit.
LEMMA StartCopyStep ==
  ASSUME RingInv, wpc \in {"idle", "char"}, NEW bytes \in Seq(Byte), NEW off,
         StartCopy(bytes, off),
         Used + Len(bytes) < Size, off = Wrap(WrOff + Len(bytes)),
         UNCHANGED <<ring, Flags, reader>>, active' \in Terminal
  PROVE  RingInv' /\ Pending = <<>> /\ Pending' = bytes
<1>1. /\ chunk' = bytes /\ wrNext' = off /\ wpc' = "copy" /\ pieces' = pieces
      /\ bytes # <<>>
  BY DEF StartCopy
<1>2. Used' = Used /\ Content' = Content /\ UNCHANGED <<pBuffer, WrOff, RdOff>>
  BY RingUnchanged
<1>3. chunk = <<>> /\ pieces = <<>> /\ Pending = <<>>
  BY NothingPending
<1>4. Len(bytes) \in Nat
  BY LenProperties
<1>5. Used \in 0 .. Size - 1
  BY UsedFacts DEF RingInv
<1>6. Pending' = bytes
  <2>1. Join(pieces') = <<>>
    BY <1>1, <1>3, JoinNone
  <2>2. bytes \o <<>> = bytes
    BY ConcatEmptySeq
  <2> QED  BY <1>1, <2>1, <2>2 DEF Pending
<1>7. TypeOK'
  <2>1. off \in 0 .. Size - 1
    BY <1>4, <1>5, WrapRange, ConstantFacts DEF RingInv, TypeOK
  <2> QED  BY <1>1, <1>2, <2>1 DEF RingInv, TypeOK, reader
<1>8. WriterInv'
  BY <1>1, <1>3 DEF WriterInv
<1>9. NothingOverwritten'
  BY <1>1, <1>2 DEF NothingOverwritten, Wrap
<1>10. Budget'
  BY <1>1, <1>2, <1>4, <1>5, <1>6, ConstantFacts DEF Budget
<1> QED
  BY <1>3, <1>6, <1>7, <1>8, <1>9, <1>10, ReaderUnchanged DEF RingInv

\* A call that writes by _WriteBlocking keeps the invariant; unless it may block,
\* there must be space for all its strings.
LEMMA StartBlockingStep ==
  ASSUME RingInv, wpc = "idle", NEW strings \in Seq(Seq(Byte)),
         StartBlocking(strings), strings # <<>>, Len(strings) <= 3,
         \A i \in 1 .. Len(strings) : strings[i] # <<>>,
         Flags # BLOCK_IF_FIFO_FULL => Used + Len(Join(strings)) < Size,
         UNCHANGED <<ring, Flags, reader>>, active' \in Terminal
  PROVE  RingInv' /\ Pending = <<>> /\ Pending' = Join(strings)
<1>1. chunk' = chunk /\ wrNext' = wrNext /\ wpc' = "plan" /\ pieces' = strings
  BY DEF StartBlocking
<1>2. Used' = Used /\ Content' = Content /\ UNCHANGED <<pBuffer, WrOff, RdOff>>
  BY RingUnchanged
<1>3. chunk = <<>> /\ pieces = <<>> /\ Pending = <<>>
  BY NothingPending
<1>4. Join(strings) \in Seq(Byte) /\ Len(Join(strings)) \in Nat
  BY JoinType
<1>5. Used \in 0 .. Size - 1
  BY UsedFacts DEF RingInv
<1>6. Pending' = Join(strings)
  <2>1. <<>> \o Join(strings) = Join(strings)
    BY <1>4, ConcatEmptySeq
  <2> QED  BY <1>1, <1>3, <2>1 DEF Pending
<1>7. TypeOK'
  BY <1>1, <1>2 DEF RingInv, TypeOK, reader
<1>8. WriterInv'
  BY <1>1, <1>3 DEF WriterInv
<1>9. NothingOverwritten'
  BY <1>1 DEF NothingOverwritten
<1>10. Budget'
  BY <1>1, <1>2, <1>4, <1>5, <1>6, ConstantFacts DEF Budget
<1> QED
  BY <1>3, <1>6, <1>7, <1>8, <1>9, <1>10, ReaderUnchanged DEF RingInv

\* A step that starts nothing: a new mode between two calls, or a PutChar that
\* has taken the lock of a blocking channel.
LEMMA IdleStep ==
  ASSUME RingInv, wpc = "idle", wpc' \in {"idle", "char"}, Flags' \in Mode,
         UNCHANGED <<ring, active, pieces, chunk, wrNext, reader>>
  PROVE  RingInv' /\ Pending' = Pending
<1>1. Used' = Used /\ Content' = Content /\ UNCHANGED <<pBuffer, WrOff, RdOff>>
  BY RingUnchanged
<1>2. chunk = <<>> /\ pieces = <<>> /\ Pending = <<>>
  BY NothingPending
<1>3. Pending' = Pending
  BY DEF Pending
<1>4. Used \in 0 .. Size - 1 /\ Len(<<>>) = 0
  BY UsedFacts DEF RingInv
<1>5. TypeOK'
  BY <1>1 DEF RingInv, TypeOK, reader
<1>6. WriterInv'
  BY <1>2 DEF RingInv, WriterInv
<1>7. NothingOverwritten'
  BY DEF NothingOverwritten
<1>8. Budget'
  BY <1>1, <1>2, <1>3, <1>4, ConstantFacts DEF Budget
<1> QED
  BY <1>3, <1>5, <1>6, <1>7, <1>8, ReaderUnchanged DEF RingInv

\* Concatenation of bytes is associative.
LEMMA Associative ==
  ASSUME NEW x \in Seq(Byte), NEW y \in Seq(Byte), NEW z \in Seq(Byte)
  PROVE  x \o (y \o z) = (x \o y) \o z
BY ConcatAssociative

\* _WriteBlocking has the free bytes up to the end of the buffer.
LEMMA BlockSpaceFacts ==
  ASSUME TypeOK
  PROVE  BlockSpace = Min2(Size - 1 - Used, Size - WrOff)
BY ConstantFacts DEF TypeOK, BlockSpace, Used, Min2

\* One round of _WriteBlocking moves bytes of the first string to the chunk.
LEMMA WriteBlockingStep ==
  ASSUME RingInv, _WriteBlocking
  PROVE  /\ RingInv' /\ Pending' = Pending /\ UNCHANGED <<ring, host, active>>
         /\ Used + Len(chunk') <= Size - 1
<1> DEFINE s == Head(pieces)
           n == Min2(BlockSpace, Len(s))
           q == Tail(pieces)
<1>1. /\ wpc = "plan" /\ n > 0 /\ chunk' = SubSeq(s, 1, n) /\ wpc' = "copy"
      /\ wrNext' = IF WrOff + n = Size THEN 0 ELSE WrOff + n
      /\ pieces' = IF n = Len(s) THEN q
                   ELSE <<SubSeq(s, n + 1, Len(s))>> \o q
      /\ UNCHANGED <<ring, Flags, active, reader, host>>
  BY DEF _WriteBlocking
<1>2. Used' = Used /\ Content' = Content /\ UNCHANGED <<pBuffer, WrOff, RdOff>>
  BY <1>1, RingUnchanged
<1>3. chunk = <<>> /\ pieces # <<>> /\ pieces \in Seq(Seq(Byte)) /\ Len(pieces) <= 3
  BY <1>1 DEF RingInv, WriterInv, TypeOK
<1>4. /\ s = pieces[1] /\ s \in Seq(Byte) /\ q \in Seq(Seq(Byte))
      /\ Join(pieces) = s \o Join(q)
  BY <1>3, JoinFirst
<1>5. /\ Len(pieces) \in 1 .. 3 /\ Len(q) = Len(pieces) - 1
      /\ \A i \in 1 .. Len(pieces) - 1 : q[i] = pieces[i + 1]
  <2>1. Len(pieces) \in Nat \ {0}
    BY <1>3, EmptySeq
  <2>2. /\ Len(q) = Len(pieces) - 1
        /\ \A i \in 1 .. Len(q) : q[i] = pieces[i + 1]
    BY <1>3, HeadTailProperties
  <2> QED  BY <1>3, <2>1, <2>2
<1>6. Len(s) \in Nat
  BY <1>4, LenProperties
<1>7. Used \in 0 .. Size - 1 /\ BlockSpace = Min2(Size - 1 - Used, Size - WrOff)
  BY UsedFacts, BlockSpaceFacts DEF RingInv
<1>8. WrOff \in 0 .. Size - 1
  BY DEF RingInv, TypeOK
<1>9. /\ n \in 1 .. Len(s) /\ n <= Size - 1 - Used /\ n <= Size - WrOff
  BY <1>1, <1>6, <1>7, <1>8, ConstantFacts DEF Min2
<1> HIDE DEF s, n, q
<1>10. chunk' \in Seq(Byte) /\ Len(chunk') = n
  <2>1. \A i \in 1 .. n : s[i] \in Byte
    BY <1>4, <1>9, <1>6
  <2>2. 1 \in Int /\ n \in Int /\ 1 <= n
    BY <1>9, <1>6
  <2>3. SubSeq(s, 1, n) \in Seq(Byte) /\ Len(SubSeq(s, 1, n)) = IF 1 <= n THEN n - 1 + 1 ELSE 0
    BY <2>1, <2>2, SubSeqProperties
  <2> QED  BY <1>1, <2>2, <2>3
<1>11. /\ pieces' \in Seq(Seq(Byte)) /\ Len(pieces') <= 3
       /\ \A i \in 1 .. Len(pieces') : pieces'[i] # <<>>
       /\ chunk' \o Join(pieces') = Join(pieces)
  <2>1. Join(q) \in Seq(Byte)
    BY <1>4, JoinType
  <2>2. \A i \in 1 .. Len(pieces) : pieces[i] # <<>>
    BY DEF RingInv, WriterInv
  <2>3. CASE n = Len(s)
    <3>1. SubSeq(s, 1, n) = s
      BY <1>4, <2>3, SubSeqFull
    <3>2. pieces' = q
      BY <1>1, <2>3
    <3>3. Len(pieces') <= 3 /\ \A i \in 1 .. Len(pieces') : pieces'[i] # <<>>
      BY <1>5, <2>2, <3>2
    <3> QED  BY <1>1, <1>4, <3>1, <3>2, <3>3, Zenon
  <2>4. CASE n # Len(s)
    <3> DEFINE r == SubSeq(s, n + 1, Len(s))
    <3>1. r \in Seq(Byte) /\ r # <<>>
      <4>1. \A i \in n + 1 .. Len(s) : s[i] \in Byte
        BY <1>4, <1>9, <1>6
      <4>2. n + 1 \in Int /\ Len(s) \in Int /\ n + 1 <= Len(s)
        BY <1>9, <1>6, <2>4
      <4>3. r \in Seq(Byte) /\ Len(r) = IF n + 1 <= Len(s) THEN Len(s) - (n + 1) + 1 ELSE 0
        BY <4>1, <4>2, SubSeqProperties
      <4> HIDE DEF r
      <4>4. Len(r) > 0
        BY <4>2, <4>3
      <4> QED  BY <4>3, <4>4
    <3> HIDE DEF r
    <3>2. pieces' = <<r>> \o q
      BY <1>1, <2>4, Zenon DEF r
    <3>3. Len(q) <= 2
      BY <1>5
    <3>4. /\ pieces' \in Seq(Seq(Byte)) /\ Join(pieces') = r \o Join(q)
      <4>1. <<r>> \o q \in Seq(Seq(Byte)) /\ Join(<<r>> \o q) = r \o Join(q)
        BY <1>4, <3>1, <3>3, JoinCons, Zenon
      <4> QED  BY <3>2, <4>1, Zenon
    <3>10. Len(pieces') = Len(q) + 1
      <4>1. Len(<<r>> \o q) = Len(q) + 1
        BY <1>4, <3>1, <3>3, JoinCons, Zenon
      <4> QED  BY <3>2, <4>1, Zenon
    <3>11. \A i \in 1 .. Len(q) + 1 : pieces'[i] = IF i = 1 THEN r ELSE q[i - 1]
      <4>1. \A i \in 1 .. Len(q) + 1 : (<<r>> \o q)[i] = IF i = 1 THEN r ELSE q[i - 1]
        BY <1>4, <3>1, <3>3, JoinCons, Zenon
      <4> QED  BY <3>2, <4>1, Zenon
    <3>5. SubSeq(s, 1, n) \o r = s
      <4>1. 1 \in 1 .. Len(s) + 1 /\ n \in 1 - 1 .. Len(s) /\ Len(s) \in n .. Len(s)
        BY <1>6, <1>9
      <4>2. SubSeq(s, 1, n) \o r = SubSeq(s, 1, Len(s))
        BY <1>4, <4>1, ConcatAdjacentSubSeq DEF r
      <4> QED  BY <1>4, <4>2, SubSeqFull
    <3>6. chunk' \o (r \o Join(q)) = (chunk' \o r) \o Join(q)
      <4>1. chunk' \in Seq(Byte) /\ r \in Seq(Byte) /\ Join(q) \in Seq(Byte)
        BY <1>10, <2>1, <3>1, Zenon
      <4> QED  BY <4>1, Associative
    <3>7. chunk' \o Join(pieces') = Join(pieces)
      BY <1>1, <1>4, <3>4, <3>5, <3>6, Zenon
    <3>8. \A i \in 1 .. Len(pieces') : pieces'[i] # <<>>
      BY <1>5, <2>2, <3>1, <3>10, <3>11
    <3>9. Len(pieces') <= 3
      BY <1>5, <3>10
    <3> QED  BY <3>4, <3>7, <3>8, <3>9, Zenon
  <2> QED  BY <2>3, <2>4, Zenon
<1>12. Pending' = Pending
  <2>1. <<>> \o Join(pieces) = Join(pieces)
    BY <1>3, JoinType, ConcatEmptySeq
  <2> QED  BY <1>3, <1>11, <2>1 DEF Pending
<1>13. wrNext' = Wrap(WrOff + n) /\ wrNext' \in 0 .. Size - 1
  BY <1>1, <1>8, <1>9, <1>6, ConstantFacts DEF Wrap
<1>14. TypeOK'
  BY <1>1, <1>2, <1>10, <1>11, <1>13 DEF RingInv, TypeOK, reader
<1>15. chunk' # <<>>
  <2>1. Len(chunk') > 0
    BY <1>9, <1>10, <1>6
  <2> QED  BY <2>1
<1>16. WriterInv'
  BY <1>1, <1>11, <1>15 DEF WriterInv
<1>17. Used + n < Size
  BY <1>9, <1>6, <1>7, ConstantFacts
<1>18. NothingOverwritten'
  BY <1>2, <1>10, <1>13, <1>17 DEF NothingOverwritten, Wrap
<1>19. Budget'
  BY <1>1, <1>2, <1>12 DEF RingInv, Budget
<1>20. ReaderInv' /\ ReadsOldest'
  BY <1>1, ReaderUnchanged
<1> QED
  BY <1>1, <1>6, <1>7, <1>9, <1>10, <1>12, <1>14, <1>16, <1>17, <1>18, <1>19, <1>20,
     ConstantFacts DEF RingInv

\* Where the writer's bytes go and where the unread ones are.
LEMMA Places ==
  ASSUME TypeOK, NEW i \in 1 .. Used, NEW k, k = Wrap(RdOff + i - 1)
  PROVE  (IF k >= WrOff THEN k - WrOff + 1 ELSE Size - WrOff + k + 1) = Size - Used + i
<1>1. RdOff \in 0 .. Size - 1 /\ WrOff \in 0 .. Size - 1 /\ Size \in Nat
  BY ConstantFacts DEF TypeOK
<1>2. i \in Nat /\ 1 <= i /\ i <= Used
  BY UsedFacts
<1>3. CASE RdOff <= WrOff
  <2>1. Used = WrOff - RdOff
    BY <1>3 DEF Used
  <2>2. k = RdOff + i - 1
    BY <1>1, <1>2, <2>1 DEF Wrap
  <2> QED  BY <1>1, <1>2, <2>1, <2>2
<1>4. CASE ~(RdOff <= WrOff)
  <2>1. Used = Size - RdOff + WrOff
    BY <1>4 DEF Used
  <2>2. CASE RdOff + i - 1 >= Size
    BY <1>1, <1>2, <1>4, <2>1, <2>2 DEF Wrap
  <2>3. CASE ~(RdOff + i - 1 >= Size)
    BY <1>1, <1>2, <1>4, <2>1, <2>3 DEF Wrap
  <2> QED  BY <2>2, <2>3
<1> QED
  BY <1>3, <1>4

\* memcpy changes free places only, so the unread bytes stay.
LEMMA CopyStep ==
  ASSUME RingInv, Copy
  PROVE  RingInv' /\ Pending' = Pending /\ Content' = Content /\ Used' = Used
<1> DEFINE at(k) == IF k >= WrOff THEN k - WrOff + 1 ELSE Size - WrOff + k + 1
<1>1. /\ wpc = "copy" /\ wpc' = "publish"
      /\ UNCHANGED <<WrOff, RdOff, Flags, active, pieces, chunk, wrNext, reader>>
  BY DEF Copy
<1>2. pBuffer' = [k \in 0 .. Size - 1 |-> IF at(k) <= Len(chunk) THEN chunk[at(k)] ELSE pBuffer[k]]
  BY DEF Copy
<1>3. TypeOK /\ chunk \in Seq(Byte) /\ Len(chunk) \in Nat /\ WrOff \in 0 .. Size - 1
  BY LenProperties DEF RingInv, TypeOK
<1>4. Used' = Used /\ Pending' = Pending
  BY <1>1 DEF Used, Pending
<1>5. Used + Len(chunk) < Size /\ Used \in 0 .. Size - 1 /\ Size \in Nat
  BY <1>1, <1>3, UsedFacts, ConstantFacts DEF RingInv, NothingOverwritten
<1>6. pBuffer' \in [0 .. Size - 1 -> Byte]
  <2>1. ASSUME NEW k \in 0 .. Size - 1 PROVE at(k) \in 1 .. Size
    BY <1>3, <1>5
  <2>2. ASSUME NEW k \in 0 .. Size - 1
        PROVE  (IF at(k) <= Len(chunk) THEN chunk[at(k)] ELSE pBuffer[k]) \in Byte
    <3>1. at(k) \in 1 .. Size
      BY <2>1
    <3> HIDE DEF at
    <3>2. at(k) <= Len(chunk) => chunk[at(k)] \in Byte
      <4>1. at(k) <= Len(chunk) => at(k) \in 1 .. Len(chunk)
        BY <3>1, <1>3, <1>5
      <4> QED  BY <1>3, <4>1, ElementOfSeq
    <3>3. pBuffer[k] \in Byte
      BY <1>3 DEF TypeOK
    <3> QED  BY <3>2, <3>3
  <2> HIDE DEF at
  <2> QED  BY <1>2, <2>2
<1>7. \A i \in 1 .. Used : pBuffer'[Wrap(RdOff + i - 1)] = pBuffer[Wrap(RdOff + i - 1)]
  <2>1. SUFFICES ASSUME NEW i \in 1 .. Used
                 PROVE  pBuffer'[Wrap(RdOff + i - 1)] = pBuffer[Wrap(RdOff + i - 1)]
    OBVIOUS
  <2> DEFINE k == Wrap(RdOff + i - 1)
  <2>2. k \in 0 .. Size - 1
    BY <1>3, ContentFacts
  <2>3. at(k) = Size - Used + i
    BY <1>3, Places
  <2>4. ~(at(k) <= Len(chunk))
    <3> HIDE DEF at, k
    <3> QED  BY <1>3, <1>5, <2>3
  <2> HIDE DEF at, k
  <2>5. pBuffer'[k] = pBuffer[k]
    BY <1>2, <2>2, <2>4
  <2> QED  BY <2>5 DEF k
<1>8. Content' = Content
  BY <1>1, <1>4, <1>7 DEF Content, Wrap
<1>9. \A j \in 1 .. Len(chunk) : pBuffer'[Wrap(WrOff + j - 1)] = chunk[j]
  <2>1. SUFFICES ASSUME NEW j \in 1 .. Len(chunk)
                 PROVE  pBuffer'[Wrap(WrOff + j - 1)] = chunk[j]
    OBVIOUS
  <2> DEFINE k == Wrap(WrOff + j - 1)
  <2>2. k \in 0 .. Size - 1 /\ at(k) = j
    BY <1>3, <1>5 DEF Wrap
  <2> HIDE DEF at, k
  <2>3. pBuffer'[k] = chunk[j]
    BY <1>2, <1>3, <2>2
  <2> QED  BY <2>3 DEF k
<1>10. TypeOK'
  BY <1>1, <1>6 DEF RingInv, TypeOK, reader
<1>11. WriterInv'
  BY <1>1, <1>9 DEF RingInv, WriterInv, Wrap
<1>12. NothingOverwritten'
  BY <1>1, <1>4 DEF RingInv, NothingOverwritten, Wrap
<1>13. Budget'
  BY <1>1, <1>4 DEF RingInv, Budget
<1>14. ReaderInv' /\ ReadsOldest'
  BY <1>1, <1>4, <1>8 DEF RingInv, ReaderInv, ReadsOldest, reader, Wrap
<1> QED
  BY <1>4, <1>8, <1>10, <1>11, <1>12, <1>13, <1>14 DEF RingInv

\* The store of WrOff appends the chunk to the unread bytes.
LEMMA PublishStep ==
  ASSUME RingInv, Publish
  PROVE  /\ RingInv' /\ chunk # <<>> /\ chunk' = <<>> /\ chunk \in Seq(Byte)
         /\ Content' = Content \o chunk /\ Pending = chunk \o Pending'
         /\ Pending' \in Seq(Byte)
<1>1. /\ wpc = "publish" /\ wpc' = (IF pieces = <<>> THEN "idle" ELSE "plan")
      /\ WrOff' = wrNext /\ chunk' = <<>>
      /\ UNCHANGED <<pBuffer, RdOff, Flags, active, pieces, wrNext, reader>>
  BY DEF Publish
<1>2. /\ TypeOK /\ chunk \in Seq(Byte) /\ chunk # <<>> /\ Len(chunk) \in Nat
      /\ WrOff \in 0 .. Size - 1 /\ RdOff \in 0 .. Size - 1 /\ pieces \in Seq(Seq(Byte))
  BY <1>1, LenProperties DEF RingInv, TypeOK, WriterInv
<1>3. /\ Used + Len(chunk) < Size /\ Used \in 0 .. Size - 1 /\ Size \in Nat
      /\ wrNext = Wrap(WrOff + Len(chunk)) /\ WrOff = Wrap(RdOff + Used)
  BY <1>1, <1>2, UsedFacts, ConstantFacts DEF RingInv, NothingOverwritten
<1>4. Used' = Used + Len(chunk)
  BY <1>1, <1>2, <1>3 DEF Used, Wrap
<1>5. TypeOK'
  <2>1. chunk' \in Seq(Byte)
    BY <1>1
  <2> QED  BY <1>1, <2>1 DEF RingInv, TypeOK, reader
<1>6. \A j \in 1 .. Len(chunk) : Wrap(RdOff + Used + j - 1) = Wrap(WrOff + j - 1)
  BY <1>2, <1>3 DEF Wrap
<1>7. Content' = Content \o chunk
  <2>1. Content \in Seq(Byte) /\ Len(Content) = Used
    BY <1>2, ContentFacts
  <2>2. /\ Content \o chunk \in Seq(Byte) /\ Len(Content \o chunk) = Used + Len(chunk)
        /\ \A i \in 1 .. Used + Len(chunk) :
             (Content \o chunk)[i] = IF i <= Used THEN Content[i] ELSE chunk[i - Used]
    BY <1>2, <2>1, ConcatProperties
  <2>3. Content' = [i \in 1 .. Used + Len(chunk) |-> pBuffer[Wrap(RdOff + i - 1)]]
    BY <1>1, <1>4 DEF Content, Wrap
  <2>4. ASSUME NEW i \in 1 .. Used + Len(chunk)
        PROVE  pBuffer[Wrap(RdOff + i - 1)] = (Content \o chunk)[i]
    <3>1. CASE i <= Used
      <4>1. i \in 1 .. Used
        BY <1>2, <1>3, <3>1
      <4>2. Content[i] = pBuffer[Wrap(RdOff + i - 1)]
        BY <1>2, <4>1, ContentFacts
      <4> QED  BY <2>2, <3>1, <4>2
    <3>2. CASE ~(i <= Used)
      <4>1. i - Used \in 1 .. Len(chunk)
        BY <1>2, <1>3, <3>2
      <4>2. pBuffer[Wrap(WrOff + (i - Used) - 1)] = chunk[i - Used]
        BY <1>1, <4>1 DEF RingInv, WriterInv
      <4>3. Wrap(RdOff + Used + (i - Used) - 1) = Wrap(WrOff + (i - Used) - 1)
        BY <1>6, <4>1
      <4>4. RdOff + Used + (i - Used) - 1 = RdOff + i - 1
        BY <1>2, <1>3
      <4> QED  BY <2>2, <3>2, <4>2, <4>3, <4>4
    <3> QED  BY <3>1, <3>2
  <2>5. DOMAIN (Content \o chunk) = 1 .. Used + Len(chunk)
    BY <2>2, LenProperties
  <2>6. Content \o chunk = [i \in 1 .. Used + Len(chunk) |-> (Content \o chunk)[i]]
    BY <2>2, <2>5, LenProperties
  <2> HIDE DEF Content
  <2> QED  BY <2>3, <2>4, <2>6
<1>8. Pending' = Join(pieces) /\ Join(pieces) \in Seq(Byte)
  <2>1. Join(pieces) \in Seq(Byte)
    BY <1>2, JoinType
  <2>2. <<>> \o Join(pieces) = Join(pieces)
    BY <2>1, ConcatEmptySeq
  <2> QED  BY <1>1, <2>1, <2>2 DEF Pending
<1>9. Pending = chunk \o Pending'
  BY <1>8 DEF Pending
<1>10. WriterInv'
  BY <1>1 DEF RingInv, WriterInv
<1>11. NothingOverwritten'
  BY <1>1 DEF NothingOverwritten
<1>12. Budget'
  <2>1. Len(Pending) = Len(chunk) + Len(Pending') /\ Len(Pending') \in Nat
    BY <1>2, <1>8, <1>9, ConcatProperties, LenProperties
  <2> QED  BY <1>1, <1>2, <1>3, <1>4, <2>1 DEF RingInv, Budget
<1>13. Used' \in Nat /\ Used <= Used' /\ Used \in Nat
  BY <1>2, <1>3, <1>4
<1>14. ReaderInv'
  BY <1>1, <1>13 DEF RingInv, ReaderInv, reader, Wrap, TypeOK
<1>15. ReadsOldest'
  <2>1. rpc' = "publish" => num' <= Used' /\ rdNext' = Wrap(RdOff' + num')
    BY <1>1, <1>13 DEF RingInv, ReadsOldest, reader, Wrap, TypeOK
  <2>2. ASSUME rpc = "publish" PROVE take' = [i \in 1 .. num' |-> Content'[i]]
    <3>1. num \in 0 .. Used /\ take = [i \in 1 .. num |-> Content[i]] /\ UNCHANGED <<take, num>>
      BY <1>1, <1>3, <2>2 DEF RingInv, ReadsOldest, TypeOK, reader
    <3>2. \A i \in 1 .. num : Content'[i] = Content[i]
      <4>1. Content \in Seq(Byte) /\ Len(Content) = Used
        BY <1>2, ContentFacts
      <4>2. \A i \in 1 .. Used + Len(chunk) :
             (Content \o chunk)[i] = IF i <= Used THEN Content[i] ELSE chunk[i - Used]
        BY <1>2, <4>1, ConcatProperties
      <4> HIDE DEF Content
      <4>3. \A i \in 1 .. num : i \in 1 .. Used + Len(chunk) /\ i <= Used
        BY <1>2, <1>3, <3>1
      <4>4. \A i \in 1 .. num : (Content \o chunk)[i] = Content[i]
        BY <4>2, <4>3
      <4> QED  BY <1>7, <4>4, Zenon
    <3> QED  BY <3>1, <3>2
  <2> QED  BY <1>1, <2>1, <2>2 DEF ReadsOldest, reader
<1> QED
  BY <1>1, <1>2, <1>5, <1>7, <1>8, <1>9, <1>10, <1>11, <1>12, <1>14, <1>15 DEF RingInv

-----------------------------------------------------------------------------
(* The reader's steps *)

\* What SEGGER_RTT_ReadUpBufferNoLock computes: some of the unread bytes, and the
\* offset behind them, in each of its three cases.
LEMMA ReadPlan ==
  ASSUME TypeOK, NEW n \in 1 .. Size, ReadFirst(n) + ReadRest(n) > 0
  PROVE  /\ ReadFirst(n) + ReadRest(n) \in 1 .. Used
         /\ OffAfterFirst(n) + ReadRest(n) = Wrap(RdOff + (ReadFirst(n) + ReadRest(n)))
<1>1. /\ RdOff \in 0 .. Size - 1 /\ WrOff \in 0 .. Size - 1 /\ Size \in Nat
      /\ Word \in Nat /\ Word > 2 * Size
  BY ConstantFacts DEF TypeOK
<1>2. CASE RdOff <= WrOff
  <2>1. ReadFirst(n) = 0 /\ OffAfterFirst(n) = RdOff /\ Used = WrOff - RdOff
    BY <1>1, <1>2 DEF ReadFirst, OffAfterFirst, Used
  <2>2. ReadRest(n) = Min2(WrOff - RdOff, n)
    BY <1>1, <1>2, <2>1 DEF ReadRest, Unsigned
  <2> QED  BY <1>1, <1>2, <2>1, <2>2 DEF Min2, Wrap
<1>3. CASE ~(RdOff <= WrOff) /\ n < Size - RdOff
  <2>1. ReadFirst(n) = n /\ OffAfterFirst(n) = RdOff + n /\ Used = Size - RdOff + WrOff
    BY <1>1, <1>3 DEF ReadFirst, OffAfterFirst, Used, Min2
  <2>2. ReadRest(n) = 0
    BY <1>1, <1>3, <2>1 DEF ReadRest, Unsigned, Min2
  <2> QED  BY <1>1, <1>3, <2>1, <2>2 DEF Wrap
<1>4. CASE ~(RdOff <= WrOff) /\ ~(n < Size - RdOff)
  <2>1. /\ ReadFirst(n) = Size - RdOff /\ OffAfterFirst(n) = 0
        /\ Used = Size - RdOff + WrOff
    BY <1>1, <1>4 DEF ReadFirst, OffAfterFirst, Used, Min2
  <2>2. ReadRest(n) = Min2(WrOff, n - (Size - RdOff))
    BY <1>1, <1>4, <2>1 DEF ReadRest, Unsigned
  <2> QED  BY <1>1, <1>4, <2>1, <2>2 DEF Min2, Wrap
<1> QED
  BY <1>2, <1>3, <1>4

\* The reader does not disturb the writer.
LEMMA WriterUnchanged ==
  ASSUME RingInv, UNCHANGED <<pBuffer, WrOff, Flags, writer>>
  PROVE  WriterInv' /\ Pending' = Pending
BY DEF RingInv, WriterInv, writer, Pending, Wrap

\* The reader takes a number of bytes that are there.
LEMMA BeginReadStep ==
  ASSUME RingInv, NEW n \in 1 .. Size, BeginRead(n)
  PROVE  RingInv' /\ Pending' = Pending /\ UNCHANGED <<ring, host, active, chunk>>
<1>1. /\ num' = ReadFirst(n) + ReadRest(n) /\ num' > 0
      /\ rdNext' = OffAfterFirst(n) + ReadRest(n)
      /\ rpc = "idle" /\ rpc' = "copy"
      /\ UNCHANGED <<ring, Flags, active, writer, take, host>>
  BY DEF BeginRead
<1>2. UNCHANGED <<wpc, pieces, chunk, wrNext>>
  BY <1>1 DEF writer
<1>3. Used' = Used /\ Content' = Content /\ UNCHANGED <<pBuffer, WrOff, RdOff>>
  BY <1>1, RingUnchanged
<1>4. num' \in 1 .. Used /\ rdNext' = Wrap(RdOff + num')
  BY <1>1, ReadPlan DEF RingInv
<1>5. Used \in 0 .. Size - 1 /\ RdOff \in 0 .. Size - 1
  BY UsedFacts DEF RingInv, TypeOK
<1>6. num' \in 0 .. Size - 1 /\ rdNext' \in 0 .. Size - 1
  <2>1. num' \in 0 .. Size - 1
    BY <1>4, <1>5, ConstantFacts
  <2> QED  BY <1>4, <1>5, <2>1, WrapSum
<1>7. TypeOK'
  BY <1>1, <1>2, <1>3, <1>6 DEF RingInv, TypeOK
<1>8. WriterInv' /\ Pending' = Pending
  BY <1>1, <1>3, WriterUnchanged
<1>9. NothingOverwritten'
  BY <1>2, <1>3 DEF RingInv, NothingOverwritten, Wrap
<1>10. Budget'
  BY <1>1, <1>3, <1>8 DEF RingInv, Budget
<1>11. ReaderInv'
  BY <1>1, <1>3, <1>4 DEF RingInv, ReaderInv, Wrap
<1>12. ReadsOldest'
  BY <1>1 DEF ReadsOldest
<1> QED
  BY <1>1, <1>2, <1>7, <1>8, <1>9, <1>10, <1>11, <1>12 DEF RingInv

\* It copies the oldest unread bytes.
LEMMA TakeBytesStep ==
  ASSUME RingInv, TakeBytes
  PROVE  RingInv' /\ Pending' = Pending /\ UNCHANGED <<ring, host, active, chunk>>
<1>1. /\ take' = [i \in 1 .. num |-> pBuffer[Wrap(RdOff + i - 1)]]
      /\ rpc = "copy" /\ rpc' = "publish"
      /\ UNCHANGED <<ring, Flags, active, writer, num, rdNext, host>>
  BY DEF TakeBytes
<1>2. UNCHANGED <<wpc, pieces, chunk, wrNext>>
  BY <1>1 DEF writer
<1>3. Used' = Used /\ Content' = Content /\ UNCHANGED <<pBuffer, WrOff, RdOff>>
  BY <1>1, RingUnchanged
<1>4. num \in 1 .. Used /\ rdNext = Wrap(RdOff + num) /\ num \in Nat /\ Used \in Nat
  BY <1>1, UsedFacts DEF RingInv, ReaderInv, TypeOK
<1>5. \A i \in 1 .. num : i \in 1 .. Used
  BY <1>4
<1>6. \A i \in 1 .. num : pBuffer[Wrap(RdOff + i - 1)] = Content[i] /\ Content[i] \in Byte
  BY <1>5, ContentFacts DEF RingInv
<1>7. take' = [i \in 1 .. num |-> Content[i]]
  BY <1>1, <1>6, Zenon
<1>8. take' \in Seq(Byte)
  <2>1. take' \in [1 .. num -> Byte]
    BY <1>6, <1>7, Zenon
  <2> QED  BY <1>4, <2>1, FunctionIsSeq
<1>9. TypeOK'
  BY <1>1, <1>2, <1>3, <1>8 DEF RingInv, TypeOK
<1>10. WriterInv' /\ Pending' = Pending
  BY <1>1, <1>3, WriterUnchanged
<1>11. NothingOverwritten'
  BY <1>2, <1>3 DEF RingInv, NothingOverwritten, Wrap
<1>12. Budget'
  BY <1>1, <1>3, <1>10 DEF RingInv, Budget
<1>13. ReaderInv'
  BY <1>1, <1>3, <1>4 DEF RingInv, ReaderInv, Wrap
<1>14. ReadsOldest'
  <2>1. num <= Used
    BY <1>4
  <2>2. Wrap(RdOff + num)' = Wrap(RdOff + num)
    BY <1>1, <1>3 DEF Wrap
  <2> QED  BY <1>1, <1>3, <1>4, <1>7, <2>1, <2>2 DEF ReadsOldest
<1> QED
  BY <1>1, <1>2, <1>9, <1>10, <1>11, <1>12, <1>13, <1>14 DEF RingInv

\* The store of RdOff removes them.
LEMMA ReadDoneStep ==
  ASSUME RingInv, ReadDone
  PROVE  /\ RingInv' /\ Pending' = Pending /\ UNCHANGED <<active, chunk>>
         /\ num \in 1 .. Used /\ take = [i \in 1 .. num |-> Content[i]] /\ Len(take) = num
         /\ Content' = SubSeq(Content, num + 1, Len(Content))
<1>1. /\ rpc = "publish" /\ rpc' = "idle" /\ RdOff' = rdNext /\ num' = 0 /\ take' = <<>>
      /\ UNCHANGED <<pBuffer, WrOff, Flags, active, writer, rdNext>>
  BY DEF ReadDone
<1>2. UNCHANGED <<wpc, pieces, chunk, wrNext>>
  BY <1>1 DEF writer
<1>3. /\ num \in 1 .. Used /\ rdNext = Wrap(RdOff + num) /\ num \in Nat
      /\ take = [i \in 1 .. num |-> Content[i]]
  BY <1>1 DEF RingInv, ReaderInv, ReadsOldest, TypeOK
<1>4. /\ Used \in 0 .. Size - 1 /\ RdOff \in 0 .. Size - 1 /\ WrOff \in 0 .. Size - 1
      /\ Size \in Nat /\ rdNext \in 0 .. Size - 1
  BY UsedFacts, ConstantFacts DEF RingInv, TypeOK
<1>5. Used' = Used - num
  BY <1>1, <1>3, <1>4 DEF Used, Wrap
<1>6. Content \in Seq(Byte) /\ Len(Content) = Used
      /\ \A i \in 1 .. Used : Content[i] = pBuffer[Wrap(RdOff + i - 1)] /\ Content[i] \in Byte
  BY ContentFacts DEF RingInv
<1>7. Len(take) = num
  <2>1. \A i \in 1 .. num : i \in 1 .. Used
    BY <1>3, <1>4
  <2>2. take \in [1 .. num -> Byte]
    BY <1>3, <1>6, <2>1, Zenon
  <2> QED  BY <1>3, <2>2, FunctionIsSeq
<1>8. Content' = SubSeq(Content, num + 1, Len(Content))
  <2>1. Content' = [i \in 1 .. Used - num |-> pBuffer[Wrap(rdNext + i - 1)]]
    BY <1>1, <1>5 DEF Content, Wrap
  <2>2. \A i \in 1 .. Used - num : /\ Wrap(rdNext + i - 1) = Wrap(RdOff + (num + i) - 1)
                                   /\ num + i \in 1 .. Used
    BY <1>3, <1>4 DEF Wrap
  <2>3. \A i \in 1 .. Used - num : pBuffer[Wrap(rdNext + i - 1)] = Content[num + i]
    BY <1>6, <2>2
  <2>4. SubSeq(Content, num + 1, Used) = [i \in 1 .. Used - num |-> Content[num + i]]
    <3> DEFINE S == SubSeq(Content, num + 1, Used)
    <3>1. \A i \in num + 1 .. Used : Content[i] \in Byte
      BY <1>3, <1>4, <1>6
    <3>2. num + 1 \in Int /\ Used \in Int /\ num <= Used
      BY <1>3, <1>4
    <3>3. /\ S \in Seq(Byte) /\ Len(S) = (IF num + 1 <= Used THEN Used - (num + 1) + 1 ELSE 0)
          /\ \A i \in 1 .. Used - (num + 1) + 1 : S[i] = Content[(num + 1) + i - 1]
      BY <3>1, <3>2, SubSeqProperties
    <3> HIDE DEF S
    <3>4. Len(S) = Used - num
      BY <3>2, <3>3, <1>3
    <3>5. S \in [1 .. Used - num -> Byte]
      BY <3>3, <3>4, LenProperties
    <3>6. \A i \in 1 .. Used - num : S[i] = Content[num + i]
      <4>1. \A i \in 1 .. Used - num : /\ i \in 1 .. Used - (num + 1) + 1
                                       /\ (num + 1) + i - 1 = num + i
        BY <1>3, <1>4
      <4> QED  BY <3>3, <4>1
    <3>7. S = [i \in 1 .. Used - num |-> Content[num + i]]
      BY <3>5, <3>6
    <3> QED  BY <3>7 DEF S
  <2> QED  BY <1>6, <2>1, <2>3, <2>4, Zenon
<1>9. TypeOK'
  <2>1. take' \in Seq(Byte) /\ num' \in 0 .. Size - 1
    BY <1>1, <1>4
  <2> QED  BY <1>1, <1>2, <1>4, <2>1 DEF RingInv, TypeOK
<1>10. WriterInv' /\ Pending' = Pending
  BY <1>1, WriterUnchanged
<1>11. NothingOverwritten'
  <2>1. wpc \in {"copy", "publish"} => Used + Len(chunk) < Size /\ wrNext = Wrap(WrOff + Len(chunk))
    BY DEF RingInv, NothingOverwritten
  <2>2. Len(chunk) \in Nat
    BY LenProperties DEF RingInv, TypeOK
  <2>3. wpc \in {"copy", "publish"} => Used' + Len(chunk) < Size
    BY <1>3, <1>4, <1>5, <2>1, <2>2
  <2>4. Wrap(WrOff + Len(chunk))' = Wrap(WrOff + Len(chunk))
    BY <1>1, <1>2 DEF Wrap
  <2> QED  BY <1>1, <1>2, <2>1, <2>3, <2>4 DEF NothingOverwritten
<1>12. Budget'
  <2>1. Len(Pending) \in Nat
    <3>1. chunk \in Seq(Byte) /\ Join(pieces) \in Seq(Byte)
      BY JoinType DEF RingInv, TypeOK
    <3>2. Pending \in Seq(Byte)
      BY <3>1, ConcatProperties DEF Pending
    <3> QED  BY <3>2, LenProperties
  <2> QED  BY <1>1, <1>3, <1>4, <1>5, <1>10, <2>1 DEF RingInv, Budget
<1>13. ReaderInv' /\ ReadsOldest'
  BY <1>1 DEF ReaderInv, ReadsOldest
<1> QED
  BY <1>1, <1>2, <1>3, <1>7, <1>8, <1>9, <1>10, <1>11, <1>12, <1>13 DEF RingInv

-----------------------------------------------------------------------------
(* What a call says to the host *)

\* After a, the bytes s are taken for what they are and the last one is b.
Says(a, s, b) == s \in Seq(Byte) /\ s # <<>> /\ May(a, s[1]) /\ Chain(s) /\ s[Len(s)] = b

\* Text of the active terminal.
LEMMA TextSays ==
  ASSUME NEW t \in Terminal, NEW n \in Nat \ {0}
  PROVE  Says(t, Text(t, n), t)
<1>1. /\ Text(t, n) \in Seq(Byte) /\ Len(Text(t, n)) = n /\ Text(t, n) # <<>>
      /\ \A i \in 1 .. n : Text(t, n)[i] = t
  BY TextFacts
<1>2. May(t, t)
  BY ConstantFacts DEF May
<1>3. 1 \in 1 .. n /\ n \in 1 .. n /\ \A i \in 1 .. n - 1 : i \in 1 .. n /\ i + 1 \in 1 .. n
  OBVIOUS
<1>4. Chain(Text(t, n))
  BY <1>1, <1>2, <1>3 DEF Chain
<1> QED
  BY <1>1, <1>2, <1>3, <1>4 DEF Says

\* A switch, after whatever terminal.
LEMMA SwitchSays ==
  ASSUME NEW a \in Terminal, NEW t \in Terminal
  PROVE  Says(a, Switch(t), t)
<1>1. /\ Switch(t) \in Seq(Byte) /\ Len(Switch(t)) = 2
      /\ Switch(t)[1] = ESC /\ Switch(t)[2] = t /\ Switch(t) # <<>>
  BY SwitchFacts
<1>2. May(a, ESC) /\ May(ESC, t)
  BY ConstantFacts DEF May
<1>3. Chain(Switch(t))
  <2>1. \A i \in 1 .. 2 - 1 : i = 1
    OBVIOUS
  <2> QED  BY <1>1, <1>2, <2>1 DEF Chain
<1> QED
  BY <1>1, <1>2, <1>3 DEF Says

\* Two chains that fit together are one chain.
LEMMA ChainConcat ==
  ASSUME NEW s \in Seq(Byte), NEW t \in Seq(Byte), s # <<>>, t # <<>>,
         Chain(s), Chain(t), May(s[Len(s)], t[1])
  PROVE  /\ Chain(s \o t) /\ s \o t \in Seq(Byte) /\ s \o t # <<>>
         /\ (s \o t)[1] = s[1] /\ (s \o t)[Len(s \o t)] = t[Len(t)]
<1> DEFINE u == s \o t
<1>1. Len(s) \in Nat \ {0} /\ Len(t) \in Nat \ {0}
  BY EmptySeq
<1>2. /\ u \in Seq(Byte) /\ Len(u) = Len(s) + Len(t)
      /\ \A i \in 1 .. Len(s) + Len(t) : u[i] = IF i <= Len(s) THEN s[i] ELSE t[i - Len(s)]
  BY ConcatProperties
<1> HIDE DEF u
<1>3. u[1] = s[1] /\ u[Len(u)] = t[Len(t)]
  BY <1>1, <1>2
<1>4. u # <<>>
  <2>1. Len(u) # 0
    BY <1>1, <1>2
  <2> QED  BY <2>1
<1>5. ASSUME NEW i \in 1 .. Len(u) - 1 PROVE May(u[i], u[i + 1])
  <2>1. CASE i < Len(s)
    <3>1. u[i] = s[i] /\ u[i + 1] = s[i + 1] /\ i \in 1 .. Len(s) - 1
      BY <1>1, <1>2, <2>1
    <3> QED  BY <3>1 DEF Chain
  <2>2. CASE i = Len(s)
    <3>1. u[i] = s[Len(s)] /\ u[i + 1] = t[1]
      BY <1>1, <1>2, <2>2
    <3> QED  BY <3>1
  <2>3. CASE i > Len(s)
    <3>1. /\ u[i] = t[i - Len(s)] /\ u[i + 1] = t[(i - Len(s)) + 1]
          /\ i - Len(s) \in 1 .. Len(t) - 1
      BY <1>1, <1>2, <2>3
    <3> QED  BY <3>1 DEF Chain
  <2> QED  BY <1>1, <1>2, <2>1, <2>2, <2>3
<1> QED
  BY <1>2, <1>3, <1>4, <1>5 DEF Chain, u

\* One call after the other.
LEMMA SaysConcat ==
  ASSUME NEW a, NEW b, NEW c, NEW s, NEW t, Says(a, s, b), Says(b, t, c)
  PROVE  Says(a, s \o t, c)
<1>1. /\ s \in Seq(Byte) /\ t \in Seq(Byte) /\ s # <<>> /\ t # <<>>
      /\ Chain(s) /\ Chain(t) /\ May(s[Len(s)], t[1])
  BY DEF Says
<1>2. /\ Chain(s \o t) /\ s \o t \in Seq(Byte) /\ s \o t # <<>>
      /\ (s \o t)[1] = s[1] /\ (s \o t)[Len(s \o t)] = t[Len(t)]
  BY <1>1, ChainConcat, Zenon
<1>3. May(a, s[1]) /\ t[Len(t)] = c
  BY DEF Says
<1> QED
  BY <1>2, <1>3, Zenon DEF Says

\* A list of k strings, none of them empty.
Strings(p, k) == p \in Seq(Seq(Byte)) /\ Len(p) = k /\ \A i \in 1 .. k : p[i] # <<>>

\* A list of one string.
LEMMA StringsOne ==
  ASSUME NEW a \in Seq(Byte), a # <<>>
  PROVE  Strings(<<a>>, 1)
BY DEF Strings

\* A list put together from a first string and the others.
LEMMA StringsCons ==
  ASSUME NEW a \in Seq(Byte), a # <<>>, NEW k \in 0 .. 2, NEW p, Strings(p, k)
  PROVE  Strings(<<a>> \o p, k + 1) /\ Join(<<a>> \o p) = a \o Join(p)
<1>1. p \in Seq(Seq(Byte)) /\ Len(p) = k /\ \A i \in 1 .. k : p[i] # <<>>
  BY DEF Strings
<1>2. Len(p) <= 2
  BY <1>1
<1> DEFINE q == <<a>> \o p
<1>3. q \in Seq(Seq(Byte)) /\ Join(q) = a \o Join(p)
  BY <1>1, <1>2, JoinCons, Zenon
<1>4. Len(q) = Len(p) + 1
  BY <1>1, <1>2, JoinCons, Zenon
<1>5. \A i \in 1 .. Len(p) + 1 : q[i] = IF i = 1 THEN a ELSE p[i - 1]
  BY <1>1, <1>2, JoinCons, Zenon
<1> HIDE DEF q
<1>6. Len(q) = k + 1 /\ \A i \in 1 .. k + 1 : q[i] # <<>>
  BY <1>1, <1>4, <1>5
<1> QED
  BY <1>3, <1>6, Zenon DEF Strings, q

\* TerminalOut: switch, text, switch back.
LEMMA OutStringsFacts ==
  ASSUME NEW t \in Terminal, NEW n \in Nat, active \in Terminal
  PROVE  /\ OutStrings(t, n) \in Seq(Seq(Byte)) /\ OutStrings(t, n) # <<>>
         /\ Len(OutStrings(t, n)) <= 3
         /\ \A i \in 1 .. Len(OutStrings(t, n)) : OutStrings(t, n)[i] # <<>>
         /\ Len(Join(OutStrings(t, n))) = n + 4
         /\ Says(active, Join(OutStrings(t, n)), active)
<1> DEFINE A == Switch(t)
           B == Text(t, n)
           C == Switch(active)
           S == OutStrings(t, n)
<1>1. /\ A \in Seq(Byte) /\ Len(A) = 2 /\ A # <<>> /\ C \in Seq(Byte) /\ Len(C) = 2 /\ C # <<>>
      /\ B \in Seq(Byte) /\ Len(B) = n /\ (n > 0 => B # <<>>)
  BY TextFacts, SwitchFacts
<1>2. Says(active, A, t) /\ (n > 0 => Says(t, B, t)) /\ Says(t, C, active)
  BY TextSays, SwitchSays
<1>3. S = (<<A>> \o (IF n = 0 THEN <<>> ELSE <<B>>)) \o <<C>>
  BY DEF OutStrings
<1> HIDE DEF A, B, C, S
<1>4. Join(<<C>>) = C /\ Strings(<<C>>, 1) /\ 1 \in 0 .. 2 /\ 2 \in 0 .. 2 /\ 1 + 1 = 2 /\ 2 + 1 = 3
  BY <1>1, JoinOne, StringsOne
<1>5. ASSUME NEW k \in {2, 3}, Strings(S, k)
      PROVE  /\ S \in Seq(Seq(Byte)) /\ S # <<>> /\ Len(S) <= 3
             /\ \A i \in 1 .. Len(S) : S[i] # <<>>
  BY <1>5 DEF Strings
<1>6. CASE n = 0
  <2>1. S = <<A>> \o <<C>>
    <3>1. <<A>> \o <<>> = <<A>>
      BY ConcatEmptySeq
    <3>2. (IF n = 0 THEN <<>> ELSE <<B>>) = <<>>
      BY <1>6
    <3> QED  BY <1>3, <3>1, <3>2, Zenon
  <2>2. Strings(S, 2) /\ Join(S) = A \o C
    <3>1. Strings(<<A>> \o <<C>>, 1 + 1) /\ Join(<<A>> \o <<C>>) = A \o Join(<<C>>)
      BY <1>1, <1>4, StringsCons, Zenon
    <3> QED  BY <1>4, <2>1, <3>1, Zenon
  <2>3. Says(active, Join(S), active)
    BY <1>2, <2>2, SaysConcat, Zenon
  <2>4. Len(Join(S)) = n + 4
    <3>1. Len(A \o C) = Len(A) + Len(C)
      BY <1>1, ConcatProperties
    <3>2. Len(Join(S)) = Len(A) + Len(C)
      BY <2>2, <3>1, Zenon
    <3> QED  BY <1>1, <1>6, <3>2
  <2> QED  BY <1>5, <2>2, <2>3, <2>4, Zenon DEF S
<1>7. CASE n # 0
  <2>1. S = <<A>> \o (<<B>> \o <<C>>)
    <3>1. <<A>> \in Seq(Seq(Byte)) /\ <<B>> \in Seq(Seq(Byte)) /\ <<C>> \in Seq(Seq(Byte))
      BY <1>1
    <3>2. (<<A>> \o <<B>>) \o <<C>> = <<A>> \o (<<B>> \o <<C>>)
      BY <3>1, ConcatAssociative
    <3>3. (IF n = 0 THEN <<>> ELSE <<B>>) = <<B>>
      BY <1>7
    <3> QED  BY <1>3, <3>2, <3>3, Zenon
  <2>2. Says(t, B, t) /\ B # <<>>
    BY <1>1, <1>2, <1>7
  <2>3. Strings(S, 3) /\ Join(S) = A \o (B \o C)
    <3>1. Strings(<<B>> \o <<C>>, 1 + 1) /\ Join(<<B>> \o <<C>>) = B \o Join(<<C>>)
      BY <1>1, <1>4, <2>2, StringsCons, Zenon
    <3>2. Strings(<<B>> \o <<C>>, 2) /\ Join(<<B>> \o <<C>>) = B \o C
      BY <1>4, <3>1, Zenon
    <3>3. /\ Strings(<<A>> \o (<<B>> \o <<C>>), 2 + 1)
          /\ Join(<<A>> \o (<<B>> \o <<C>>)) = A \o Join(<<B>> \o <<C>>)
      BY <1>1, <1>4, <3>2, StringsCons, Zenon
    <3> QED  BY <1>4, <2>1, <3>2, <3>3, Zenon
  <2>4. Says(active, Join(S), active)
    <3>1. Says(t, B \o C, active)
      BY <1>2, <2>2, SaysConcat, Zenon
    <3>2. Says(active, A \o (B \o C), active)
      BY <1>2, <3>1, SaysConcat, Zenon
    <3> QED  BY <2>3, <3>2, Zenon
  <2>5. Len(Join(S)) = n + 4
    <3>1. B \o C \in Seq(Byte) /\ Len(B \o C) = Len(B) + Len(C)
      BY <1>1, ConcatProperties
    <3>2. Len(A \o (B \o C)) = Len(A) + Len(B \o C)
      BY <1>1, <3>1, ConcatProperties
    <3>3. Len(Join(S)) = Len(A) + (Len(B) + Len(C))
      BY <2>3, <3>1, <3>2, Zenon
    <3> QED  BY <1>1, <3>3
  <2> QED  BY <1>5, <2>3, <2>4, <2>5, Zenon DEF S
<1> QED
  BY <1>6, <1>7

-----------------------------------------------------------------------------
(* Every call *)

\* The chunk stays as it is or is a new one that fits.
Offers ==
  \/ chunk' = chunk
  \/ /\ chunk = <<>> /\ chunk' \in Seq(Byte) /\ chunk' # <<>>
     /\ Used + Len(chunk') <= Size - 1

\* What is left to see of a call that has just started.
CallStarts ==
  /\ RingInv' /\ UNCHANGED <<ring, host>> /\ Offers
  /\ Pending = <<>> /\ Says(active, Pending', active')

\* A call that writes in one go.
LEMMA CopyCall ==
  ASSUME RingInv, wpc \in {"idle", "char"}, NEW bytes, NEW off,
         StartCopy(bytes, off), Says(active, bytes, active'), active' \in Terminal,
         Used + Len(bytes) < Size, off = Wrap(WrOff + Len(bytes)),
         UNCHANGED <<ring, Flags, reader, host>>
  PROVE  CallStarts
<1>1. bytes \in Seq(Byte) /\ bytes # <<>>
  BY DEF Says
<1>2. UNCHANGED <<ring, Flags, reader>>
  OBVIOUS
<1>3. RingInv' /\ Pending = <<>> /\ Pending' = bytes
  BY <1>1, <1>2, StartCopyStep
<1>4. chunk' = bytes /\ chunk = <<>>
  BY NothingPending DEF StartCopy
<1>5. Used + Len(bytes) <= Size - 1
  BY <1>1, LenProperties, UsedFacts, ConstantFacts DEF RingInv
<1>6. Offers
  BY <1>1, <1>4, <1>5 DEF Offers
<1> QED
  BY <1>3, <1>6 DEF CallStarts

\* A call that writes by _WriteBlocking.
LEMMA BlockingCall ==
  ASSUME RingInv, wpc = "idle", NEW strings \in Seq(Seq(Byte)),
         StartBlocking(strings), strings # <<>>, Len(strings) <= 3,
         \A i \in 1 .. Len(strings) : strings[i] # <<>>,
         Flags # BLOCK_IF_FIFO_FULL => Used + Len(Join(strings)) < Size,
         Says(active, Join(strings), active'), active' \in Terminal,
         UNCHANGED <<ring, Flags, reader, host>>
  PROVE  CallStarts
<1>1. UNCHANGED <<ring, Flags, reader>>
  OBVIOUS
<1>2. RingInv' /\ Pending = <<>> /\ Pending' = Join(strings)
  BY <1>1, StartBlockingStep
<1>3. Offers
  BY DEF Offers, StartBlocking
<1> QED
  BY <1>2, <1>3 DEF CallStarts

\* _WriteNoCheck goes all the way round at most once.
LEMMA NoCheckWraps ==
  ASSUME TypeOK, NEW n \in Nat, Used + n < Size
  PROVE  NoCheckWrOff(n) = Wrap(WrOff + n)
<1>1. Used \in 0 .. Size - 1 /\ WrOff \in 0 .. Size - 1
  BY UsedFacts DEF TypeOK
<1> QED
  BY <1>1, ConstantFacts DEF NoCheckWrOff, Wrap

\* A call of _WriteNoCheck after the space was checked.
LEMMA WriteNoCheckCall ==
  ASSUME RingInv, wpc = "idle", NEW bytes, _WriteNoCheck(bytes),
         Says(active, bytes, active'), active' \in Terminal,
         _GetAvailWriteSpace >= Len(bytes),
         UNCHANGED <<ring, Flags, reader, host>>
  PROVE  CallStarts
<1>1. bytes \in Seq(Byte) /\ Len(bytes) \in Nat
  BY LenProperties DEF Says
<1>2. TypeOK /\ Used \in 0 .. Size - 1 /\ _GetAvailWriteSpace = Size - 1 - Used
  BY UsedFacts DEF RingInv
<1>3. Used + Len(bytes) < Size
  BY <1>1, <1>2, ConstantFacts
<1>4. NoCheckWrOff(Len(bytes)) = Wrap(WrOff + Len(bytes))
  BY <1>1, <1>2, <1>3, NoCheckWraps
<1> QED
  BY <1>3, <1>4, CopyCall DEF _WriteNoCheck

\* SEGGER_RTT_Write in each of its modes.
LEMMA WriteCall ==
  ASSUME RingInv, NEW n \in 1 .. MaxWrite, SEGGER_RTT_Write(n)
  PROVE  CallStarts
<1>1. wpc = "idle" /\ UNCHANGED <<ring, Flags, active, reader, host>>
  BY DEF SEGGER_RTT_Write
<1>2. n \in Nat \ {0} /\ active \in Terminal /\ active' = active
  BY <1>1, ConstantFacts DEF RingInv, TypeOK
<1>3. Says(active, Text(active, n), active') /\ Len(Text(active, n)) = n
  BY <1>2, TextSays, TextFacts
<1>4. CASE _GetAvailWriteSpace >= n /\ _WriteNoCheck(Text(active, n))
  BY <1>1, <1>2, <1>3, <1>4, WriteNoCheckCall
<1>5. CASE _WriteNoCheck(Text(active, Min2(_GetAvailWriteSpace, n)))
  <2> DEFINE m == Min2(_GetAvailWriteSpace, n)
  <2>1. _GetAvailWriteSpace \in Nat /\ m \in Nat /\ _GetAvailWriteSpace >= m
    <3>1. Used \in 0 .. Size - 1 /\ _GetAvailWriteSpace = Size - 1 - Used
      BY UsedFacts DEF RingInv
    <3> QED  BY <1>2, <3>1, ConstantFacts DEF Min2
  <2> HIDE DEF m
  <2>2. Len(Text(active, m)) = m /\ Text(active, m) # <<>>
    <3>1. Text(active, m) # <<>>
      BY <1>5 DEF _WriteNoCheck, StartCopy, m
    <3> QED  BY <1>2, <2>1, <3>1, TextFacts
  <2>3. m # 0
    <3>1. Text(active, m) \in Seq(Byte)
      BY <1>2, <2>1, TextFacts
    <3> QED  BY <2>2, <3>1, EmptySeq
  <2>4. Says(active, Text(active, m), active')
    BY <1>2, <2>1, <2>3, TextSays
  <2>5. _GetAvailWriteSpace >= Len(Text(active, m)) /\ _WriteNoCheck(Text(active, m))
    BY <1>5, <2>1, <2>2 DEF m
  <2> QED  BY <1>1, <1>2, <2>4, <2>5, WriteNoCheckCall
<1>6. CASE Flags = BLOCK_IF_FIFO_FULL /\ StartBlocking(<<Text(active, n)>>)
  <2> DEFINE T == Text(active, n)
  <2>1. T \in Seq(Byte) /\ T # <<>> /\ Says(active, T, active')
    BY <1>3 DEF Says
  <2>2. StartBlocking(<<T>>)
    BY <1>6
  <2> HIDE DEF T
  <2>3. /\ <<T>> \in Seq(Seq(Byte)) /\ <<T>> # <<>> /\ Len(<<T>>) <= 3
        /\ \A i \in 1 .. Len(<<T>>) : <<T>>[i] # <<>>
    BY <2>1
  <2>4. Join(<<T>>) = T
    BY <2>1, JoinOne
  <2>5. Says(active, Join(<<T>>), active')
    BY <2>1, <2>4, Zenon
  <2> QED  BY <1>1, <1>2, <1>6, <2>2, <2>3, <2>5, BlockingCall
<1> QED
  BY <1>4, <1>5, <1>6 DEF SEGGER_RTT_Write

\* SEGGER_RTT_WriteSkipNoLock: the five cases compute what _WriteNoCheck does.
LEMMA WriteSkipCall ==
  ASSUME RingInv, NEW n \in 1 .. MaxWrite, SEGGER_RTT_WriteSkipNoLock(n)
  PROVE  CallStarts
<1> DEFINE off == IF RdOff > WrOff \/ Size - WrOff - 1 >= n THEN WrOff + n ELSE n - (Size - WrOff)
<1>1. /\ wpc = "idle" /\ SkipFits(n) /\ StartCopy(Text(active, n), off)
      /\ UNCHANGED <<ring, Flags, active, reader, host>>
  BY DEF SEGGER_RTT_WriteSkipNoLock
<1>2. n \in Nat \ {0} /\ active \in Terminal /\ active' = active
  BY <1>1, ConstantFacts DEF RingInv, TypeOK
<1>3. Says(active, Text(active, n), active') /\ Len(Text(active, n)) = n
  BY <1>2, TextSays, TextFacts
<1>4. RdOff \in 0 .. Size - 1 /\ WrOff \in 0 .. Size - 1 /\ Size \in Nat
  BY ConstantFacts DEF RingInv, TypeOK
<1>5. Used + n < Size /\ off = Wrap(WrOff + n)
  BY <1>1, <1>2, <1>4 DEF SkipFits, Used, Wrap
<1> HIDE DEF off
<1>6. wpc \in {"idle", "char"} /\ UNCHANGED <<ring, Flags, reader, host>>
  BY <1>1
<1> QED
  BY <1>1, <1>2, <1>3, <1>5, <1>6, CopyCall

\* The byte of SEGGER_RTT_PutChar and SEGGER_RTT_PutCharSkip.
LEMMA CharCall ==
  ASSUME RingInv, wpc \in {"idle", "char"}, NextOff # RdOff, StartCopy(<<active>>, NextOff),
         UNCHANGED <<ring, Flags, active, reader, host>>
  PROVE  CallStarts
<1>1. active \in Terminal /\ active' = active
  BY DEF RingInv, TypeOK
<1>2. Says(active, <<active>>, active') /\ Len(<<active>>) = 1
  <2>1. Says(active, Text(active, 1), active) /\ Text(active, 1) = <<active>>
    <3>1. Text(active, 1) = <<active>>
      BY DEF Text
    <3> QED  BY <1>1, <3>1, TextSays
  <2> QED  BY <1>1, <2>1
<1>3. RdOff \in 0 .. Size - 1 /\ WrOff \in 0 .. Size - 1 /\ Size \in Nat /\ Size > 1
  BY ConstantFacts DEF RingInv, TypeOK
<1>4. Used + 1 < Size /\ NextOff = Wrap(WrOff + 1)
  BY <1>3 DEF Used, Wrap, NextOff
<1>5. UNCHANGED <<ring, Flags, reader, host>>
  OBVIOUS
<1> QED
  BY <1>1, <1>2, <1>4, <1>5, CopyCall

\* SEGGER_RTT_SetTerminal.
LEMMA SetTerminalCall ==
  ASSUME RingInv, NEW t \in Terminal, SEGGER_RTT_SetTerminal(t)
  PROVE  CallStarts
<1>1. wpc = "idle" /\ active' = t /\ UNCHANGED <<ring, Flags, reader, host>>
  BY DEF SEGGER_RTT_SetTerminal
<1>2. active \in Terminal
  BY DEF RingInv, TypeOK
<1> DEFINE T == Switch(t)
<1>3. /\ T \in Seq(Byte) /\ T # <<>> /\ Len(T) = 2
      /\ Says(active, T, active')
  BY <1>1, <1>2, SwitchFacts, SwitchSays
<1>4. \/ Flags = BLOCK_IF_FIFO_FULL /\ StartBlocking(<<T>>)
      \/ _GetAvailWriteSpace >= 2 /\ _WriteNoCheck(T)
  BY DEF SEGGER_RTT_SetTerminal
<1> HIDE DEF T
<1>5. CASE Flags = BLOCK_IF_FIFO_FULL /\ StartBlocking(<<T>>)
  <2>1. /\ <<T>> \in Seq(Seq(Byte)) /\ <<T>> # <<>> /\ Len(<<T>>) <= 3
        /\ \A i \in 1 .. Len(<<T>>) : <<T>>[i] # <<>>
    BY <1>3
  <2>2. Join(<<T>>) = T
    BY <1>3, JoinOne
  <2>3. Says(active, Join(<<T>>), active')
    BY <1>3, <2>2, Zenon
  <2> QED  BY <1>1, <1>5, <2>1, <2>3, BlockingCall
<1>6. CASE _GetAvailWriteSpace >= 2 /\ _WriteNoCheck(T)
  BY <1>1, <1>3, <1>6, WriteNoCheckCall
<1> QED
  BY <1>4, <1>5, <1>6

\* SEGGER_RTT_TerminalOut: the space checked first is enough for the three writes.
LEMMA TerminalOutCall ==
  ASSUME RingInv, NEW t \in Terminal, NEW n \in 0 .. MaxWrite, SEGGER_RTT_TerminalOut(t, n)
  PROVE  CallStarts
<1> DEFINE len == IF Flags = NO_BLOCK_TRIM THEN Min2(n, _GetAvailWriteSpace - 4) ELSE n
<1>1. /\ wpc = "idle" /\ StartBlocking(OutStrings(t, len))
      /\ UNCHANGED <<ring, Flags, active, reader, host>>
  BY DEF SEGGER_RTT_TerminalOut
<1>2. n \in Nat /\ active \in Terminal /\ active' = active
  BY <1>1, ConstantFacts DEF RingInv, TypeOK
<1>3. Used \in 0 .. Size - 1 /\ _GetAvailWriteSpace = Size - 1 - Used /\ Size \in Nat
  BY UsedFacts, ConstantFacts DEF RingInv
<1>4. len \in Nat /\ (Flags # BLOCK_IF_FIFO_FULL => _GetAvailWriteSpace >= len + 4)
  <2>1. CASE Flags = NO_BLOCK_SKIP /\ _GetAvailWriteSpace >= n + 4
    BY <1>2, <1>3, <2>1 DEF NO_BLOCK_SKIP, NO_BLOCK_TRIM
  <2>2. CASE Flags = NO_BLOCK_TRIM /\ _GetAvailWriteSpace >= 4
    BY <1>2, <1>3, <2>2 DEF Min2
  <2>3. CASE Flags = BLOCK_IF_FIFO_FULL
    BY <1>2, <2>3 DEF BLOCK_IF_FIFO_FULL, NO_BLOCK_TRIM
  <2> QED  BY <2>1, <2>2, <2>3 DEF SEGGER_RTT_TerminalOut
<1> DEFINE S == OutStrings(t, len)
<1> HIDE DEF len
<1>5. /\ S \in Seq(Seq(Byte)) /\ S # <<>> /\ Len(S) <= 3
      /\ \A i \in 1 .. Len(S) : S[i] # <<>>
      /\ Len(Join(S)) = len + 4 /\ Says(active, Join(S), active)
  BY <1>2, <1>4, OutStringsFacts
<1>6. StartBlocking(S)
  BY <1>1
<1> HIDE DEF S
<1>7. Flags # BLOCK_IF_FIFO_FULL => Used + Len(Join(S)) < Size
  BY <1>3, <1>4, <1>5
<1>8. UNCHANGED <<ring, Flags, reader, host>> /\ Says(active, Join(S), active')
  BY <1>1, <1>2, <1>5
<1> QED
  BY <1>1, <1>2, <1>5, <1>6, <1>7, <1>8, BlockingCall

-----------------------------------------------------------------------------
(* Every step *)

\* A step that shows the host nothing new: the stream stays as it is.
Quiet ==
  /\ RingInv' /\ Offers /\ UNCHANGED <<host, active>>
  /\ Content' = Content /\ Pending' = Pending

\* Every step of writer and reader is one of four kinds.
LEMMA StepCases ==
  ASSUME RingInv, [Next]_vars
  PROVE  \/ CallStarts
         \/ Quiet
         \/ Publish
         \/ ReadDone
<1>1. CASE UNCHANGED vars
  <2>1. UNCHANGED <<ring, Flags, active, writer, reader, host>>
    BY <1>1 DEF vars
  <2>2. UNCHANGED <<wpc, pieces, chunk, wrNext, rpc, num, take, rdNext>>
    BY <2>1 DEF writer, reader
  <2>3. Used' = Used /\ Content' = Content /\ UNCHANGED <<pBuffer, WrOff, RdOff>>
    BY <2>1, RingUnchanged
  <2>4. TypeOK'
    BY <2>1, <2>2, <2>3 DEF RingInv, TypeOK
  <2>5. WriterInv' /\ Pending' = Pending
    BY <2>1, <2>3, WriterUnchanged
  <2>6. NothingOverwritten'
    BY <2>2, <2>3 DEF RingInv, NothingOverwritten, Wrap
  <2>7. Budget'
    BY <2>1, <2>3, <2>5 DEF RingInv, Budget
  <2>8. ReaderInv' /\ ReadsOldest'
    BY <2>1, ReaderUnchanged
  <2> QED
    BY <2>1, <2>2, <2>3, <2>4, <2>5, <2>6, <2>7, <2>8 DEF Quiet, Offers, RingInv
<1>2. CASE Writer
  <2>1. CASE \E n \in 1 .. MaxWrite : SEGGER_RTT_Write(n)
    BY <2>1, WriteCall
  <2>2. CASE \E n \in 1 .. MaxWrite : SEGGER_RTT_WriteSkipNoLock(n)
    BY <2>2, WriteSkipCall
  <2>3. CASE SEGGER_RTT_PutCharSkip
    BY <2>3, CharCall DEF SEGGER_RTT_PutCharSkip
  <2>4. CASE SEGGER_RTT_PutChar
    <3>1. /\ wpc = "idle" /\ wpc' \in {"idle", "char"}
          /\ UNCHANGED <<ring, active, pieces, chunk, wrNext, reader, host>> /\ Flags' = Flags
      BY <2>4 DEF SEGGER_RTT_PutChar
    <3>2. Flags' \in Mode
      BY <3>1 DEF RingInv, TypeOK
    <3>3. UNCHANGED <<ring, active, pieces, chunk, wrNext, reader>>
      BY <3>1
    <3>4. RingInv' /\ Pending' = Pending
      BY <3>1, <3>2, <3>3, IdleStep
    <3> QED  BY <3>1, <3>4, RingUnchanged DEF Quiet, Offers
  <2>5. CASE \E t \in Terminal : SEGGER_RTT_SetTerminal(t)
    BY <2>5, SetTerminalCall
  <2>6. CASE \E t \in Terminal, n \in 0 .. MaxWrite : SEGGER_RTT_TerminalOut(t, n)
    BY <2>6, TerminalOutCall
  <2>7. CASE \E f \in Mode : SEGGER_RTT_SetFlagsUpBuffer(f)
    <3>1. PICK f \in Mode : SEGGER_RTT_SetFlagsUpBuffer(f)
      BY <2>7
    <3>2. wpc = "idle" /\ Flags' \in Mode /\ UNCHANGED <<ring, active, writer, reader, host>>
      BY <3>1 DEF SEGGER_RTT_SetFlagsUpBuffer
    <3>3. UNCHANGED <<ring, active, pieces, chunk, wrNext, reader>> /\ wpc' \in {"idle", "char"}
      BY <3>2 DEF writer
    <3>4. RingInv' /\ Pending' = Pending
      BY <3>2, <3>3, IdleStep
    <3> QED  BY <3>2, <3>3, <3>4, RingUnchanged DEF Quiet, Offers
  <2> QED
    BY <1>2, <2>1, <2>2, <2>3, <2>4, <2>5, <2>6, <2>7 DEF Writer
<1>3. CASE _WriteBlocking
  <2>1. /\ RingInv' /\ Pending' = Pending /\ UNCHANGED <<ring, host, active>>
        /\ Used + Len(chunk') <= Size - 1
    BY <1>3, WriteBlockingStep
  <2>2. chunk = <<>> /\ chunk' \in Seq(Byte) /\ chunk' # <<>>
    BY <1>3, <2>1 DEF RingInv, WriterInv, TypeOK, _WriteBlocking
  <2> QED  BY <2>1, <2>2, RingUnchanged DEF Quiet, Offers
<1>4. CASE PutCharStore
  BY <1>4, CharCall DEF PutCharStore
<1>5. CASE Copy
  <2>1. UNCHANGED <<host, active, chunk>>
    BY <1>5 DEF Copy
  <2> QED  BY <1>5, <2>1, CopyStep DEF Quiet, Offers
<1>6. CASE \E n \in 1 .. Size : BeginRead(n)
  <2>1. RingInv' /\ Pending' = Pending /\ UNCHANGED <<ring, host, active, chunk>>
    BY <1>6, BeginReadStep
  <2> QED  BY <2>1, RingUnchanged DEF Quiet, Offers
<1>7. CASE TakeBytes
  <2>1. RingInv' /\ Pending' = Pending /\ UNCHANGED <<ring, host, active, chunk>>
    BY <1>7, TakeBytesStep
  <2> QED  BY <2>1, RingUnchanged DEF Quiet, Offers
<1> QED
  BY <1>1, <1>2, <1>3, <1>4, <1>5, <1>6, <1>7 DEF Next, Finish, Reader

\* The ring starts empty.
LEMMA RingInit ==
  ASSUME Init
  PROVE  RingInv /\ Content = <<>> /\ chunk = <<>> /\ Pending = <<>>
<1>1. Used = 0
  BY DEF Init, Used
<1>2. TypeOK
  BY ConstantFacts DEF Init, TypeOK, Mode, NO_BLOCK_SKIP
<1>3. Content \in Seq(Byte) /\ Len(Content) = 0
  BY <1>1, <1>2, ContentFacts
<1>4. Content = <<>>
  BY <1>3, EmptySeq
<1>5. Pending = <<>>
  BY JoinNone DEF Init, Pending
<1>6. WriterInv /\ NothingOverwritten /\ ReaderInv /\ ReadsOldest
  BY DEF Init, WriterInv, NothingOverwritten, ReaderInv, ReadsOldest
<1>7. Budget
  BY <1>1, <1>5, ConstantFacts DEF Budget
<1> QED
  BY <1>2, <1>4, <1>5, <1>6, <1>7 DEF RingInv, Init

\* Every step keeps the invariant of the ring.
LEMMA RingStep ==
  ASSUME RingInv, [Next]_vars
  PROVE  RingInv'
BY StepCases, PublishStep, ReadDoneStep DEF CallStarts, Quiet

\* The inductive invariant of the ring holds in every reachable state.
LEMMA RingInvariant ==
  Spec => []RingInv
<1>1. Init => RingInv
  BY RingInit
<1>2. RingInv /\ [Next]_vars => RingInv'
  BY RingStep
<1> QED
  BY <1>1, <1>2, PTL DEF Spec

(***************************************************************************)
(* For every ring size and any writes of the firmware: the offsets stay in *)
(* the ring, what SEGGER_RTT.c is about to store fits into the free part,  *)
(* and what the reader gives back are the oldest unread bytes, although    *)
(* each side works with an offset of the other that is stale.              *)
(***************************************************************************)
THEOREM RingIsSound == Spec => []RingSound
<1>1. RingInv => RingSound
  BY DEF RingInv, RingSound
<1> QED
  BY <1>1, RingInvariant, PTL

(***************************************************************************)
(* A call in a mode that must not block never waits in _WriteBlocking: the *)
(* space that was checked before the first string is enough for all of     *)
(* them, whatever the reader does meanwhile.                               *)
(***************************************************************************)
THEOREM NonBlockingCallsDoNotWait == Spec => []NonBlockingNeverWaits
<1>1. ASSUME RingInv PROVE NonBlockingNeverWaits
  <2> SUFFICES ASSUME wpc = "plan", Flags # BLOCK_IF_FIFO_FULL
               PROVE  BlockSpace > 0
    BY DEF NonBlockingNeverWaits
  <2>1. /\ TypeOK /\ chunk = <<>> /\ pieces # <<>> /\ pieces \in Seq(Seq(Byte))
        /\ Len(pieces) <= 3 /\ \A i \in 1 .. Len(pieces) : pieces[i] # <<>>
    BY <1>1 DEF RingInv, WriterInv, TypeOK
  <2> DEFINE s == Head(pieces)
             q == Tail(pieces)
  <2>2. s \in Seq(Byte) /\ s = pieces[1] /\ q \in Seq(Seq(Byte)) /\ Join(pieces) = s \o Join(q)
    BY <2>1, JoinFirst
  <2>3. s # <<>>
    <3>1. Len(pieces) \in Nat \ {0}
      BY <2>1, EmptySeq
    <3> QED  BY <2>1, <2>2, <3>1
  <2> HIDE DEF s, q
  <2>4. Len(s) \in Nat \ {0} /\ Len(Join(q)) \in Nat /\ Join(q) \in Seq(Byte)
    BY <2>2, <2>3, EmptySeq, JoinType
  <2>5. Len(s \o Join(q)) = Len(s) + Len(Join(q))
    BY <2>2, <2>4, ConcatProperties
  <2>6. Len(Pending) = Len(s) + Len(Join(q))
    <3>1. <<>> \o Join(pieces) = Join(pieces)
      BY <2>1, JoinType, ConcatEmptySeq
    <3>2. Pending = s \o Join(q)
      BY <2>1, <2>2, <3>1, Zenon DEF Pending
    <3> QED  BY <2>5, <3>2, Zenon
  <2>7. Used \in 0 .. Size - 1 /\ WrOff \in 0 .. Size - 1 /\ Size \in Nat
    BY <2>1, UsedFacts, ConstantFacts DEF TypeOK
  <2>8. Used + Len(Pending) <= Size - 1
    BY <1>1 DEF RingInv, Budget
  <2>9. BlockSpace = Min2(Size - 1 - Used, Size - WrOff)
    BY <2>1, BlockSpaceFacts
  <2> QED  BY <2>4, <2>6, <2>7, <2>8, <2>9 DEF Min2
<1> QED
  BY <1>1, RingInvariant, PTL

(***************************************************************************)
(* The ring of SEGGER_RTT.c implements a bounded FIFO of bytes: the store  *)
(* of WrOff appends what was copied, the store of RdOff removes what was   *)
(* read, and no other step of either side is seen.                         *)
(***************************************************************************)
THEOREM RingIsFifo == Spec => ImplementsFifo
<1>1. Init => Fifo!Init
  BY RingInit DEF Fifo!Init
<1>2. ASSUME RingInv, [Next]_vars PROVE [Fifo!Next]_(Fifo!vars)
  <2>1. Content \in Seq(Byte) /\ Len(Content) = Used
    BY <1>2, ContentFacts DEF RingInv
  <2>2. CASE Content' = Content /\ Offers
    <3>1. CASE chunk' = chunk
      BY <2>2, <3>1 DEF Fifo!vars
    <3>2. CASE chunk' # chunk
      <4>1. /\ chunk = <<>> /\ chunk' \in Seq(Byte) /\ chunk' # <<>>
            /\ Used + Len(chunk') <= Size - 1
        BY <2>2, <3>2 DEF Offers
      <4>2. Fifo!Offer
        BY <2>1, <2>2, <4>1 DEF Fifo!Offer
      <4> QED  BY <4>2 DEF Fifo!Next
    <3> QED  BY <3>1, <3>2
  <2>3. CASE Publish
    <3>1. chunk # <<>> /\ chunk' = <<>> /\ Content' = Content \o chunk
      BY <1>2, <2>3, PublishStep
    <3> QED  BY <3>1, Zenon DEF Fifo!Put, Fifo!Next
  <2>4. CASE ReadDone
    <3>1. /\ chunk' = chunk /\ num \in 1 .. Used
          /\ Content' = SubSeq(Content, num + 1, Len(Content))
      BY <1>2, <2>4, ReadDoneStep
    <3>2. num \in 1 .. Len(Content)
      BY <2>1, <3>1
    <3> QED  BY <3>1, <3>2, Zenon DEF Fifo!Get, Fifo!Next
  <2>5. CallStarts => Content' = Content /\ Offers
    BY RingUnchanged DEF CallStarts
  <2>6. Quiet => Content' = Content /\ Offers
    BY DEF Quiet
  <2> QED
    BY <1>2, <2>2, <2>3, <2>4, <2>5, <2>6, StepCases
<1> QED
  BY <1>1, <1>2, RingInvariant, PTL DEF Spec, ImplementsFifo, Fifo!Spec

-----------------------------------------------------------------------------
(* The host *)

\* A set of numbers that is not empty has a least one.
LEMMA LeastNumber ==
  ASSUME NEW T \in SUBSET Nat, T # {}
  PROVE  \E x \in T : \A y \in T : x <= y
<1>1. PICK x \in T : \A y \in T : ~ (<<y, x>> \in OpToRel(<, Nat))
  BY NatLessThanWellFounded, WFMin, Zenon
<1>2. ASSUME NEW y \in T PROVE x <= y
  <2>1. <<y, x>> \notin OpToRel(<, Nat)
    BY <1>1, Zenon
  <2>2. y \in Nat /\ x \in Nat
    BY Zenon
  <2>3. ~(y < x)
    BY <2>1, <2>2 DEF OpToRel
  <2> QED  BY <2>2, <2>3
<1> QED
  BY <1>2, Zenon

\* Induction, for the set of the numbers that have a property.
LEMMA SetInduction ==
  ASSUME NEW S, 0 \in S, \A n \in Nat : n \in S => n + 1 \in S
  PROVE  \A n \in Nat : n \in S
<1> SUFFICES ASSUME ~(\A n \in Nat : n \in S) PROVE FALSE
  BY Zenon
<1> DEFINE T == {n \in Nat : n \notin S}
<1>1. T \in SUBSET Nat /\ T # {}
  BY Zenon
<1> HIDE DEF T
<1>2. PICK x \in T : \A y \in T : x <= y
  BY <1>1, LeastNumber, Zenon
<1>3. x \in Nat /\ x \notin S
  BY DEF T
<1>4. x - 1 \in Nat
  BY <1>3
<1>5. x - 1 \in S
  BY <1>2, <1>4 DEF T
<1>6. (x - 1) + 1 \in S
  BY <1>4, <1>5, Zenon
<1> QED
  BY <1>3, <1>4, <1>6

\* What one byte does to the host, as in HostState.
HostStep(s, b) ==
  IF b = ESC THEN <<s[1], TRUE, s[3]>>
  ELSE IF s[2] THEN <<b, FALSE, s[3]>>
  ELSE <<s[1], FALSE, s[3] \/ b # s[1]>>

\* The recursive definition of HostState has a solution, so HostState is one.
LEMMA HostStateDef ==
  HostState = [k \in 0 .. Size |-> IF k = 0 THEN <<shown, esc, misrouted>>
                                   ELSE HostStep(HostState[k - 1], take[k])]
<1> DEFINE base == <<shown, esc, misrouted>>
           Solves(g, n) == g = [k \in 0 .. n |-> IF k = 0 THEN base
                                                 ELSE HostStep(g[k - 1], take[k])]
           S == {n \in Nat : \E g : Solves(g, n)}
<1>1. 0 \in S
  <2> DEFINE g == [k \in 0 .. 0 |-> base]
  <2>1. \A k \in 0 .. 0 : k = 0
    OBVIOUS
  <2>2. Solves(g, 0)
    BY <2>1, Zenon
  <2> QED  BY <2>2
<1>2. ASSUME NEW n \in Nat, n \in S PROVE n + 1 \in S
  <2>1. PICK g : Solves(g, n)
    BY <1>2, Zenon
  <2> DEFINE h == [k \in 0 .. n + 1 |-> IF k <= n THEN g[k] ELSE HostStep(g[n], take[n + 1])]
             r == [k \in 0 .. n + 1 |-> IF k = 0 THEN base ELSE HostStep(h[k - 1], take[k])]
  <2>2. ASSUME NEW k \in 0 .. n + 1 PROVE h[k] = r[k]
    <3>1. CASE k = 0
      <4>1. 0 \in 0 .. n /\ 0 \in 0 .. n + 1 /\ 0 <= n
        OBVIOUS
      <4>2. g[0] = base
        BY <2>1, <4>1, Zenon
      <4> QED  BY <3>1, <4>1, <4>2, Zenon
    <3>2. CASE k # 0 /\ k <= n
      <4>1. k \in 0 .. n /\ k - 1 \in 0 .. n + 1 /\ k - 1 <= n
        BY <3>2
      <4>2. g[k] = HostStep(g[k - 1], take[k])
        BY <2>1, <3>2, <4>1, Zenon
      <4>3. h[k - 1] = g[k - 1] /\ h[k] = g[k]
        BY <3>2, <4>1, Zenon
      <4>4. r[k] = HostStep(h[k - 1], take[k])
        BY <3>2, Zenon
      <4> QED  BY <4>2, <4>3, <4>4, Zenon
    <3>3. CASE k = n + 1
      <4>1. /\ n \in 0 .. n + 1 /\ n <= n /\ n + 1 \in 0 .. n + 1
            /\ ~(n + 1 <= n) /\ (n + 1) - 1 = n /\ n + 1 # 0
        OBVIOUS
      <4>2. h[n] = g[n] /\ h[n + 1] = HostStep(g[n], take[n + 1])
        BY <4>1, Zenon
      <4>3. r[n + 1] = HostStep(h[(n + 1) - 1], take[n + 1])
        BY <4>1, Zenon
      <4> HIDE DEF h, r
      <4> QED  BY <3>3, <4>1, <4>2, <4>3, Zenon
    <3> QED  BY <3>1, <3>2, <3>3
  <2>3. Solves(h, n + 1)
    <3>1. h = r
      BY <2>2, Zenon
    <3> QED  BY <3>1, Zenon
  <2>4. n + 1 \in Nat
    OBVIOUS
  <2> HIDE DEF h, r, Solves
  <2> QED  BY <2>3, <2>4, Zenon
<1> HIDE DEF S
<1>3. Size \in S
  BY <1>1, <1>2, SetInduction, ConstantFacts
<1> USE DEF S
<1>4. \E g : g = [k \in 0 .. Size |-> IF k = 0 THEN <<shown, esc, misrouted>>
                                      ELSE HostStep(g[k - 1], take[k])]
  BY <1>3, Zenon
<1> QED
  BY <1>4, Zenon DEF HostState, HostStep

\* The stream: the last byte the host has handled, then the unread ones.
LEMMA StreamFacts ==
  ASSUME RingInv, shown \in Terminal, esc \in BOOLEAN
  PROVE  /\ Prev \in Byte /\ Content \in Seq(Byte) /\ Pending \in Seq(Byte)
         /\ Stream \in Seq(Byte) /\ Stream # <<>>
         /\ Len(Stream) = 1 + (Used + Len(Pending)) /\ Len(Pending) \in Nat
         /\ Stream[1] = Prev
         /\ \A k \in 1 .. Used : Stream[k + 1] = Content[k]
<1>1. Prev \in Byte
  BY ConstantFacts DEF Prev
<1>2. Content \in Seq(Byte) /\ Len(Content) = Used /\ Used \in Nat
  BY ContentFacts, UsedFacts DEF RingInv
<1>3. chunk \in Seq(Byte) /\ Join(pieces) \in Seq(Byte)
  BY JoinType DEF RingInv, TypeOK
<1>4. Pending \in Seq(Byte) /\ Len(Pending) \in Nat
  BY <1>3, ConcatProperties, LenProperties DEF Pending
<1> DEFINE u == Content \o Pending
<1>5. /\ u \in Seq(Byte) /\ Len(u) = Used + Len(Pending)
      /\ \A i \in 1 .. Used + Len(Pending) :
           u[i] = IF i <= Used THEN Content[i] ELSE Pending[i - Used]
  BY <1>2, <1>4, ConcatProperties
<1> HIDE DEF u
<1>6. <<Prev>> \in Seq(Byte) /\ Len(<<Prev>>) = 1 /\ <<Prev>>[1] = Prev
  BY <1>1
<1> DEFINE p == <<Prev>>
<1> HIDE DEF p
<1>7. p \in Seq(Byte) /\ Len(p) = 1 /\ p[1] = Prev
  BY <1>6 DEF p
<1>8. Stream = p \o u
  BY DEF Stream, p, u
<1>9. /\ p \o u \in Seq(Byte) /\ Len(p \o u) = 1 + Len(u)
      /\ \A i \in 1 .. 1 + Len(u) : (p \o u)[i] = IF i <= 1 THEN p[i] ELSE u[i - 1]
  <2>1. /\ p \o u \in Seq(Byte) /\ Len(p \o u) = Len(p) + Len(u)
        /\ \A i \in 1 .. Len(p) + Len(u) : (p \o u)[i] = IF i <= Len(p) THEN p[i] ELSE u[i - Len(p)]
    BY <1>5, <1>7, ConcatProperties
  <2> QED  BY <1>7, <2>1, Zenon
<1>10. /\ Stream \in Seq(Byte) /\ Len(Stream) = 1 + (Used + Len(Pending))
       /\ \A i \in 1 .. 1 + Len(u) : Stream[i] = IF i <= 1 THEN p[i] ELSE u[i - 1]
  BY <1>5, <1>8, <1>9, Zenon
<1>11. Stream[1] = Prev
  BY <1>2, <1>4, <1>5, <1>7, <1>10
<1>12. \A k \in 1 .. Used : Stream[k + 1] = Content[k]
  <2>1. ASSUME NEW k \in 1 .. Used PROVE Stream[k + 1] = Content[k]
    <3>1. /\ k \in 1 .. Used + Len(Pending) /\ k <= Used /\ k + 1 \in 1 .. 1 + Len(u)
          /\ ~(k + 1 <= 1) /\ (k + 1) - 1 = k
      BY <1>2, <1>4, <1>5
    <3>2. u[k] = Content[k]
      BY <1>5, <3>1, Zenon
    <3>3. Stream[k + 1] = u[(k + 1) - 1]
      BY <1>10, <3>1, Zenon
    <3> QED  BY <3>1, <3>2, <3>3, Zenon
  <2> QED  BY <2>1
<1>13. Stream # <<>>
  <2>1. Len(Stream) # 0
    BY <1>2, <1>4, <1>10
  <2> QED  BY <2>1
<1> QED
  BY <1>1, <1>2, <1>4, <1>10, <1>11, <1>12, <1>13

\* Where a byte of a chain leaves the host that took all before it right.
LEMMA HostStepFacts ==
  ASSUME NEW x \in Terminal, NEW e \in BOOLEAN, NEW b \in Byte,
         May(IF e THEN ESC ELSE x, b)
  PROVE  \E y \in Terminal, f \in BOOLEAN :
           HostStep(<<x, e, FALSE>>, b) = <<y, f, FALSE>> /\ (IF f THEN ESC ELSE y) = b
<1>1. ESC \notin Terminal /\ (b = ESC \/ b \in Terminal)
  BY ConstantFacts DEF Byte
<1> DEFINE s == <<x, e, FALSE>>
<1>2. s[1] = x /\ s[2] = e /\ s[3] = FALSE
  OBVIOUS
<1> HIDE DEF s
<1>3. CASE b = ESC
  <2>1. HostStep(s, b) = <<x, TRUE, FALSE>>
    BY <1>2, <1>3, Zenon DEF HostStep
  <2>2. (IF TRUE THEN ESC ELSE x) = b /\ TRUE \in BOOLEAN
    BY <1>3, Zenon
  <2> QED  BY <2>1, <2>2, Zenon DEF s
<1>4. CASE b # ESC /\ e
  <2>1. HostStep(s, b) = <<b, FALSE, FALSE>>
    BY <1>2, <1>4, Zenon DEF HostStep
  <2>2. b \in Terminal /\ (IF FALSE THEN ESC ELSE b) = b /\ FALSE \in BOOLEAN
    BY <1>1, <1>4, Zenon
  <2> QED  BY <2>1, <2>2, Zenon DEF s
<1>5. CASE b # ESC /\ ~e
  <2>1. b = x
    <3>1. x # ESC
      BY <1>1, Zenon
    <3>2. May(x, b)
      BY <1>5, Zenon
    <3> QED  BY <1>5, <3>1, <3>2, Zenon DEF May
  <2>2. HostStep(s, b) = <<x, FALSE, FALSE \/ b # x>>
    BY <1>2, <1>5, Zenon DEF HostStep
  <2>3. (FALSE \/ b # x) = FALSE
    BY <2>1, Zenon
  <2>4. HostStep(s, b) = <<x, FALSE, FALSE>>
    BY <2>2, <2>3, Zenon
  <2>5. (IF FALSE THEN ESC ELSE x) = b /\ FALSE \in BOOLEAN
    BY <2>1, Zenon
  <2> QED  BY <2>4, <2>5, Zenon DEF s
<1> QED
  BY <1>3, <1>4, <1>5, Zenon

\* After k of the bytes that were read, the host has taken all k right.
LEMMA HostFollows ==
  ASSUME RingInv, HostInv, ReadDone
  PROVE  \E x \in Terminal, e \in BOOLEAN :
           HostState[num] = <<x, e, FALSE>> /\ (IF e THEN ESC ELSE x) = Stream[num + 1]
<1> DEFINE Right(k) == \E x \in Terminal, e \in BOOLEAN :
                         HostState[k] = <<x, e, FALSE>> /\ (IF e THEN ESC ELSE x) = Stream[k + 1]
           S == {k \in Nat : k <= num => Right(k)}
<1>1. /\ shown \in Terminal /\ esc \in BOOLEAN /\ misrouted = FALSE /\ Chain(Stream)
  BY DEF HostInv
<1>2. /\ num \in 1 .. Used /\ take = [i \in 1 .. num |-> Content[i]]
  BY ReadDoneStep
<1>3. /\ Used \in 0 .. Size - 1 /\ num \in Nat /\ Size \in Nat
  BY UsedFacts, ConstantFacts DEF RingInv, TypeOK
<1>4. /\ Stream \in Seq(Byte) /\ Stream[1] = Prev /\ Len(Pending) \in Nat
      /\ Len(Stream) = 1 + (Used + Len(Pending))
      /\ \A k \in 1 .. Used : Stream[k + 1] = Content[k]
  BY <1>1, StreamFacts
<1>5. 0 \in S
  <2>1. HostState[0] = <<shown, esc, misrouted>>
    <3>1. 0 \in 0 .. Size
      BY <1>3
    <3> QED  BY <3>1, HostStateDef, Zenon
  <2>2. (IF esc THEN ESC ELSE shown) = Stream[0 + 1]
    <3>1. 0 + 1 = 1
      OBVIOUS
    <3> QED  BY <1>4, <3>1, Zenon DEF Prev
  <2>3. Right(0)
    BY <1>1, <2>1, <2>2, Zenon
  <2> QED  BY <2>3
<1>6. ASSUME NEW k \in Nat, k \in S PROVE k + 1 \in S
  <2>0. k + 1 \in Nat
    OBVIOUS
  <2> SUFFICES ASSUME k + 1 <= num PROVE Right(k + 1)
    BY <2>0, Zenon
  <2>1. PICK x \in Terminal, e \in BOOLEAN :
          HostState[k] = <<x, e, FALSE>> /\ (IF e THEN ESC ELSE x) = Stream[k + 1]
    <3>1. k <= num
      BY <1>3
    <3> QED  BY <1>6, <3>1, Zenon
  <2>2. /\ k + 1 \in 0 .. Size /\ k + 1 # 0 /\ (k + 1) - 1 = k
        /\ k + 1 \in 1 .. num /\ k + 1 \in 1 .. Used /\ k + 1 \in 1 .. Len(Stream) - 1
        /\ (k + 1) + 1 \in 1 .. Len(Stream)
    BY <1>2, <1>3, <1>4
  <2> DEFINE b == take[k + 1]
  <2>3. HostState[k + 1] = HostStep(HostState[k], b)
    BY <2>2, HostStateDef, Zenon
  <2>4. b = Stream[(k + 1) + 1]
    BY <1>2, <1>4, <2>2, Zenon
  <2>5. b \in Byte /\ May(Stream[k + 1], b)
    <3>1. Stream[(k + 1) + 1] \in Byte
      BY <1>4, <2>2, ElementOfSeq
    <3>2. May(Stream[k + 1], Stream[(k + 1) + 1])
      BY <1>1, <2>2, Zenon DEF Chain
    <3> QED  BY <2>4, <3>1, <3>2, Zenon
  <2> HIDE DEF b
  <2>6. May(IF e THEN ESC ELSE x, b)
    BY <2>1, <2>5, Zenon
  <2>7. PICK y \in Terminal, f \in BOOLEAN :
          HostStep(<<x, e, FALSE>>, b) = <<y, f, FALSE>> /\ (IF f THEN ESC ELSE y) = b
    BY <2>5, <2>6, HostStepFacts, Zenon
  <2>8. HostState[k + 1] = <<y, f, FALSE>> /\ (IF f THEN ESC ELSE y) = Stream[(k + 1) + 1]
    BY <2>1, <2>3, <2>4, <2>7, Zenon
  <2> QED  BY <2>8, Zenon
<1> HIDE DEF S
<1>7. num \in S
  BY <1>3, <1>5, <1>6, SetInduction
<1>8. num <= num
  BY <1>3
<1> QED
  BY <1>7, <1>8, Zenon DEF S

\* A chain that loses its first bytes is a chain.
LEMMA ChainSuffix ==
  ASSUME NEW s \in Seq(Byte), Chain(s), NEW n \in 1 .. Len(s)
  PROVE  /\ Chain(SubSeq(s, n, Len(s)))
         /\ SubSeq(s, n, Len(s))[Len(SubSeq(s, n, Len(s)))] = s[Len(s)]
<1> DEFINE u == SubSeq(s, n, Len(s))
<1>1. Len(s) \in Nat /\ n \in Int /\ Len(s) \in Int /\ n \in 1 .. Len(s)
  BY LenProperties
<1>2. \A i \in n .. Len(s) : s[i] \in Byte
  BY <1>1
<1>3. /\ Len(u) = IF n <= Len(s) THEN Len(s) - n + 1 ELSE 0
      /\ \A i \in 1 .. Len(s) - n + 1 : u[i] = s[n + i - 1]
  BY <1>1, <1>2, SubSeqProperties
<1> HIDE DEF u
<1>4. Len(u) = Len(s) - n + 1
  BY <1>1, <1>3
<1>5. u[Len(u)] = s[Len(s)]
  <2>1. Len(u) \in 1 .. Len(s) - n + 1 /\ n + Len(u) - 1 = Len(s)
    BY <1>1, <1>4
  <2> QED  BY <1>3, <2>1
<1>6. ASSUME NEW i \in 1 .. Len(u) - 1 PROVE May(u[i], u[i + 1])
  <2>1. /\ i \in 1 .. Len(s) - n + 1 /\ i + 1 \in 1 .. Len(s) - n + 1
        /\ n + (i + 1) - 1 = (n + i - 1) + 1 /\ n + i - 1 \in 1 .. Len(s) - 1
    BY <1>1, <1>4
  <2>2. u[i] = s[n + i - 1] /\ u[i + 1] = s[(n + i - 1) + 1]
    BY <1>3, <2>1
  <2> QED  BY <2>1, <2>2 DEF Chain
<1> QED
  BY <1>5, <1>6 DEF Chain, u

\* Dropping n of the bytes t in front of u leaves the last dropped one as the
\* new first byte.
LEMMA SuffixLemma ==
  ASSUME NEW p \in Byte, NEW t \in Seq(Byte), NEW u \in Seq(Byte), NEW n \in 1 .. Len(t)
  PROVE  LET s == <<p>> \o (t \o u)
         IN  <<s[n + 1]>> \o (SubSeq(t, n + 1, Len(t)) \o u) = SubSeq(s, n + 1, Len(s))
<1> DEFINE s == <<p>> \o (t \o u)
           q == <<p>>
           v == t \o u
           w == SubSeq(t, n + 1, Len(t))
           x == w \o u
           y == <<s[n + 1]>>
           z == y \o x
           r == SubSeq(s, n + 1, Len(s))
<1>1. Len(t) \in Nat /\ Len(u) \in Nat /\ n \in 1 .. Len(t)
  BY LenProperties
<1>2. q \in Seq(Byte) /\ Len(q) = 1 /\ q[1] = p
  OBVIOUS
<1>3. /\ v \in Seq(Byte) /\ Len(v) = Len(t) + Len(u)
      /\ \A i \in 1 .. Len(t) + Len(u) : v[i] = IF i <= Len(t) THEN t[i] ELSE u[i - Len(t)]
  BY ConcatProperties
<1> HIDE DEF q, v
<1>4. /\ q \o v \in Seq(Byte) /\ Len(q \o v) = Len(q) + Len(v)
      /\ \A i \in 1 .. Len(q) + Len(v) : (q \o v)[i] = IF i <= Len(q) THEN q[i] ELSE v[i - Len(q)]
  <2>1. q \in Seq(Byte) /\ v \in Seq(Byte)
    BY <1>2, <1>3, Zenon
  <2> QED  BY <2>1, ConcatProperties
<1>5. s = q \o v
  BY Zenon DEF q, v
<1> HIDE DEF s
<1>6. /\ s \in Seq(Byte) /\ Len(s) = 1 + Len(v)
      /\ \A i \in 1 .. 1 + Len(v) : s[i] = IF i <= 1 THEN q[i] ELSE v[i - 1]
  BY <1>2, <1>4, <1>5, Zenon
<1>7. Len(s) = 1 + (Len(t) + Len(u))
  BY <1>3, <1>6, Zenon
<1>8. ASSUME NEW i \in 2 .. 1 + (Len(t) + Len(u))
      PROVE  s[i] = IF i - 1 <= Len(t) THEN t[i - 1] ELSE u[i - 1 - Len(t)]
  <2>1. i \in 1 .. 1 + Len(v) /\ ~(i <= 1) /\ i - 1 \in 1 .. Len(t) + Len(u)
    BY <1>1, <1>3
  <2> QED  BY <1>3, <1>6, <2>1
<1>9. /\ w \in Seq(Byte) /\ Len(w) = Len(t) - n
      /\ \A i \in 1 .. Len(t) - n : w[i] = t[n + i]
  <2>1. \A i \in n + 1 .. Len(t) : t[i] \in Byte
    BY <1>1
  <2>2. n + 1 \in Int /\ Len(t) \in Int
    BY <1>1
  <2>3. /\ w \in Seq(Byte) /\ Len(w) = IF n + 1 <= Len(t) THEN Len(t) - (n + 1) + 1 ELSE 0
        /\ \A i \in 1 .. Len(t) - (n + 1) + 1 : w[i] = t[(n + 1) + i - 1]
    BY <2>1, <2>2, SubSeqProperties
  <2> HIDE DEF w
  <2>4. Len(w) = Len(t) - n
    BY <1>1, <2>3
  <2>5. \A i \in 1 .. Len(t) - n : i \in 1 .. Len(t) - (n + 1) + 1 /\ (n + 1) + i - 1 = n + i
    BY <1>1
  <2> QED  BY <2>3, <2>4, <2>5
<1> HIDE DEF w
<1>10. /\ x \in Seq(Byte) /\ Len(x) = Len(w) + Len(u)
       /\ \A i \in 1 .. Len(w) + Len(u) : x[i] = IF i <= Len(w) THEN w[i] ELSE u[i - Len(w)]
  BY <1>9, ConcatProperties
<1> HIDE DEF x
<1>11. s[n + 1] \in Byte
  <2>1. n + 1 \in 1 .. Len(s)
    BY <1>1, <1>7
  <2> QED  BY <1>6, <2>1, ElementOfSeq
<1>12. y \in Seq(Byte) /\ Len(y) = 1 /\ y[1] = s[n + 1]
  BY <1>11
<1> HIDE DEF y
<1>13. /\ z \in Seq(Byte) /\ Len(z) = Len(y) + Len(x)
       /\ \A i \in 1 .. Len(y) + Len(x) : z[i] = IF i <= Len(y) THEN y[i] ELSE x[i - Len(y)]
  <2>1. y \in Seq(Byte) /\ x \in Seq(Byte)
    BY <1>10, <1>12, Zenon
  <2> QED  BY <2>1, ConcatProperties
<1> HIDE DEF z
<1>14. /\ r \in Seq(Byte) /\ Len(r) = Len(s) - n
       /\ \A i \in 1 .. Len(s) - n : r[i] = s[n + i]
  <2>1. \A i \in n + 1 .. Len(s) : s[i] \in Byte
    BY <1>1, <1>6, <1>7
  <2>2. n + 1 \in Int /\ Len(s) \in Int
    BY <1>1, <1>7
  <2>3. /\ r \in Seq(Byte) /\ Len(r) = IF n + 1 <= Len(s) THEN Len(s) - (n + 1) + 1 ELSE 0
        /\ \A i \in 1 .. Len(s) - (n + 1) + 1 : r[i] = s[(n + 1) + i - 1]
    BY <2>1, <2>2, SubSeqProperties
  <2> HIDE DEF r
  <2>4. Len(r) = Len(s) - n
    BY <1>1, <1>7, <2>3
  <2>5. \A i \in 1 .. Len(s) - n : i \in 1 .. Len(s) - (n + 1) + 1 /\ (n + 1) + i - 1 = n + i
    BY <1>1, <1>7
  <2> QED  BY <2>3, <2>4, <2>5
<1> HIDE DEF r
<1>15. Len(z) = Len(r)
  BY <1>1, <1>7, <1>9, <1>10, <1>12, <1>13, <1>14
<1>16. ASSUME NEW i \in 1 .. Len(z) PROVE z[i] = r[i]
  <2>1. Len(z) = Len(t) - n + Len(u) + 1
    BY <1>1, <1>9, <1>10, <1>12, <1>13
  <2>2. i \in 1 .. Len(y) + Len(x) /\ i \in 1 .. Len(s) - n /\ i \in Nat
    BY <1>1, <1>7, <1>13, <1>14, <1>15, <2>1
  <2>3. r[i] = s[n + i]
    BY <1>14, <2>2
  <2>4. CASE i = 1
    BY <1>12, <1>13, <2>2, <2>3, <2>4
  <2>5. CASE i # 1
    <3>1. z[i] = x[i - 1]
      BY <1>12, <1>13, <2>2, <2>5
    <3>2. i - 1 \in 1 .. Len(w) + Len(u)
      BY <1>1, <1>9, <2>1, <2>2, <2>5
    <3>3. x[i - 1] = IF i - 1 <= Len(w) THEN w[i - 1] ELSE u[(i - 1) - Len(w)]
      BY <1>10, <3>2
    <3>4. n + i \in 2 .. 1 + (Len(t) + Len(u))
      BY <1>1, <2>1, <2>2, <2>5
    <3>5. s[n + i] = IF (n + i) - 1 <= Len(t) THEN t[(n + i) - 1] ELSE u[(n + i) - 1 - Len(t)]
      BY <1>8, <3>4
    <3>6. CASE i - 1 <= Len(w)
      <4>1. i - 1 \in 1 .. Len(t) - n /\ (n + i) - 1 <= Len(t) /\ n + (i - 1) = (n + i) - 1
        BY <1>1, <1>9, <2>2, <2>5, <3>6
      <4>2. w[i - 1] = t[(n + i) - 1]
        BY <1>9, <4>1
      <4> QED  BY <2>3, <3>1, <3>3, <3>5, <3>6, <4>1, <4>2
    <3>7. CASE ~(i - 1 <= Len(w))
      <4>1. ~((n + i) - 1 <= Len(t)) /\ (i - 1) - Len(w) = (n + i) - 1 - Len(t)
        BY <1>1, <1>9, <2>2, <3>7
      <4> QED  BY <2>3, <3>1, <3>3, <3>5, <3>7, <4>1
    <3> QED  BY <3>6, <3>7
  <2> QED  BY <2>4, <2>5
<1>17. z = r
  BY <1>13, <1>14, <1>15, <1>16, SeqEqual
<1> QED
  BY <1>17, Zenon DEF s, z, y, x, w, r

\* The stream grows at its end by what a call says.
LEMMA HostAfterCall ==
  ASSUME RingInv, HostInv, CallStarts
  PROVE  HostInv'
<1>1. /\ shown \in Terminal /\ esc \in BOOLEAN /\ misrouted = FALSE /\ Chain(Stream)
      /\ Stream[Len(Stream)] = active
  BY DEF HostInv, EndsWith
<1>2. UNCHANGED <<ring, shown, esc, misrouted>> /\ Pending = <<>> /\ Says(active, Pending', active')
  BY DEF CallStarts, host
<1>3. Prev' = Prev /\ Content' = Content
  BY <1>2, RingUnchanged DEF Prev
<1>4. Prev \in Byte /\ Content \in Seq(Byte) /\ Stream \in Seq(Byte) /\ Stream # <<>>
  BY <1>1, StreamFacts
<1>5. /\ Pending' \in Seq(Byte) /\ Pending' # <<>> /\ May(active, Pending'[1])
      /\ Chain(Pending') /\ Pending'[Len(Pending')] = active'
  BY <1>2 DEF Says
<1>6. Stream' = Stream \o Pending'
  <2>1. Content \o <<>> = Content
    BY <1>4, ConcatEmptySeq
  <2>2. Stream = <<Prev>> \o Content
    BY <1>2, <2>1, Zenon DEF Stream
  <2>3. Stream' = <<Prev>> \o (Content \o Pending')
    BY <1>3, Zenon DEF Stream
  <2>4. <<Prev>> \in Seq(Byte)
    BY <1>4
  <2>5. <<Prev>> \o (Content \o Pending') = (<<Prev>> \o Content) \o Pending'
    BY <1>4, <1>5, <2>4, Associative
  <2> QED  BY <2>2, <2>3, <2>5, Zenon
<1>7. /\ Chain(Stream \o Pending')
      /\ (Stream \o Pending')[Len(Stream \o Pending')] = Pending'[Len(Pending')]
  BY <1>1, <1>4, <1>5, ChainConcat, Zenon
<1>8. Chain(Stream)' /\ EndsWith(active)'
  BY <1>5, <1>6, <1>7, Zenon DEF Chain, May, EndsWith
<1> QED
  BY <1>1, <1>2, <1>8 DEF HostInv

\* A step that leaves the stream alone.
LEMMA HostSameStream ==
  ASSUME HostInv, UNCHANGED <<host, active>>, Stream' = Stream
  PROVE  HostInv'
<1>1. /\ shown \in Terminal /\ esc \in BOOLEAN /\ misrouted = FALSE /\ Chain(Stream)
      /\ Stream[Len(Stream)] = active
  BY DEF HostInv, EndsWith
<1>2. UNCHANGED <<shown, esc, misrouted, active>>
  BY DEF host
<1>3. Chain(Stream)' /\ EndsWith(active)'
  BY <1>1, <1>2, Zenon DEF Chain, May, EndsWith
<1> QED
  BY <1>1, <1>2, <1>3 DEF HostInv

\* The store of WrOff moves bytes within the stream.
LEMMA HostAfterPublish ==
  ASSUME RingInv, HostInv, Publish
  PROVE  HostInv'
<1>1. UNCHANGED <<host, active>>
  BY DEF Publish
<1>2. /\ chunk \in Seq(Byte) /\ Content' = Content \o chunk /\ Pending = chunk \o Pending'
      /\ Pending' \in Seq(Byte)
  BY PublishStep
<1>3. Content \in Seq(Byte)
  BY ContentFacts DEF RingInv
<1>4. Content \o (chunk \o Pending') = (Content \o chunk) \o Pending'
  BY <1>2, <1>3, Associative
<1>5. Prev' = Prev
  BY <1>1 DEF Prev, host
<1>6. Stream' = Stream
  BY <1>2, <1>4, <1>5, Zenon DEF Stream
<1> QED
  BY <1>1, <1>6, HostSameStream

\* The stream loses what the host has taken, but for the last byte of it.
LEMMA HostAfterRead ==
  ASSUME RingInv, HostInv, ReadDone
  PROVE  HostInv'
<1>1. /\ shown \in Terminal /\ esc \in BOOLEAN /\ Chain(Stream)
      /\ Stream[Len(Stream)] = active
  BY DEF HostInv, EndsWith
<1>2. /\ Pending' = Pending /\ active' = active /\ num \in 1 .. Used /\ Len(take) = num
      /\ Content' = SubSeq(Content, num + 1, Len(Content))
  BY ReadDoneStep
<1>3. PICK x \in Terminal, e \in BOOLEAN :
        HostState[num] = <<x, e, FALSE>> /\ (IF e THEN ESC ELSE x) = Stream[num + 1]
  BY HostFollows, Zenon
<1>4. shown' = x /\ esc' = e /\ misrouted' = FALSE
  <2>1. /\ shown' = HostState[Len(take)][1] /\ esc' = HostState[Len(take)][2]
        /\ misrouted' = HostState[Len(take)][3]
    BY Zenon DEF ReadDone
  <2>2. HostState[Len(take)] = <<x, e, FALSE>>
    BY <1>2, <1>3, Zenon
  <2> DEFINE s == <<x, e, FALSE>>
  <2>3. s[1] = x /\ s[2] = e /\ s[3] = FALSE
    OBVIOUS
  <2> HIDE DEF s
  <2> QED  BY <2>1, <2>2, <2>3, Zenon DEF s
<1>5. Prev' = Stream[num + 1]
  BY <1>3, <1>4, Zenon DEF Prev
<1>6. /\ Prev \in Byte /\ Content \in Seq(Byte) /\ Pending \in Seq(Byte) /\ Stream \in Seq(Byte)
      /\ Len(Stream) = 1 + (Used + Len(Pending)) /\ Len(Pending) \in Nat
  BY <1>1, StreamFacts
<1>7. Len(Content) = Used /\ Used \in Nat /\ num \in 1 .. Used
  BY <1>2, ContentFacts, UsedFacts DEF RingInv
<1> DEFINE n == num + 1
<1>8. n \in 1 .. Len(Stream) /\ num \in 0 .. Len(Content)
  BY <1>6, <1>7
<1>9. Stream' = SubSeq(Stream, n, Len(Stream))
  <2>1. Stream' = <<Stream[n]>> \o (SubSeq(Content, num + 1, Len(Content)) \o Pending)
    BY <1>2, <1>5, Zenon DEF Stream
  <2>2. Stream = <<Prev>> \o (Content \o Pending)
    BY DEF Stream
  <2>3. num \in 1 .. Len(Content)
    BY <1>7
  <2>4. <<Stream[num + 1]>> \o (SubSeq(Content, num + 1, Len(Content)) \o Pending)
          = SubSeq(Stream, num + 1, Len(Stream))
    <3>1. Prev \in Byte /\ Content \in Seq(Byte) /\ Pending \in Seq(Byte)
      BY <1>6, Zenon
    <3> DEFINE s == <<Prev>> \o (Content \o Pending)
    <3>2. <<s[num + 1]>> \o (SubSeq(Content, num + 1, Len(Content)) \o Pending)
            = SubSeq(s, num + 1, Len(s))
      BY <2>3, <3>1, SuffixLemma, Zenon
    <3> HIDE DEF s
    <3>3. Stream = s
      BY <2>2 DEF s
    <3> QED  BY <3>2, <3>3, Zenon
  <2> QED  BY <2>1, <2>4, Zenon
<1>10. /\ Chain(SubSeq(Stream, n, Len(Stream)))
       /\ SubSeq(Stream, n, Len(Stream))[Len(SubSeq(Stream, n, Len(Stream)))] = Stream[Len(Stream)]
  BY <1>1, <1>6, <1>8, ChainSuffix
<1> HIDE DEF n
<1>11. Chain(Stream)' /\ EndsWith(active)'
  BY <1>1, <1>2, <1>9, <1>10, Zenon DEF Chain, May, EndsWith
<1> QED
  BY <1>4, <1>11 DEF HostInv

(***************************************************************************)
(* Every byte the firmware writes is shown on the terminal it was written  *)
(* for, for every ring size and any number of terminals, although switches *)
(* are refused, text is trimmed or dropped and the host sees the stream in *)
(* arbitrary parts.                                                        *)
(***************************************************************************)
THEOREM BytesReachTheirTerminal == Spec => []ShownWhereWritten
<1>1. ASSUME Init PROVE HostInv
  <2>1. RingInv /\ Content = <<>> /\ Pending = <<>>
    BY <1>1, RingInit
  <2>2. shown = 0 /\ esc = FALSE /\ misrouted = FALSE /\ active = 0 /\ 0 \in Terminal
    BY <1>1, ConstantFacts DEF Init
  <2>3. Stream = <<0>>
    <3>1. Prev = 0
      BY <2>2 DEF Prev
    <3>2. <<>> \o <<>> = <<>> /\ <<0>> \o <<>> = <<0>>
      OBVIOUS
    <3> QED  BY <2>1, <3>1, <3>2, Zenon DEF Stream
  <2>4. Len(<<0>>) = 1 /\ <<0>>[1] = 0
    OBVIOUS
  <2>5. Chain(Stream) /\ EndsWith(active)
    BY <2>2, <2>3, <2>4 DEF Chain, EndsWith
  <2> QED  BY <2>2, <2>5 DEF HostInv
<1>2. ASSUME RingInv, HostInv, [Next]_vars PROVE HostInv'
  <2>1. CASE CallStarts
    BY <1>2, <2>1, HostAfterCall
  <2>2. CASE Quiet
    <3>1. UNCHANGED <<host, active>> /\ Content' = Content /\ Pending' = Pending
      BY <2>2 DEF Quiet
    <3>2. Prev' = Prev
      BY <3>1 DEF Prev, host
    <3>3. Stream' = Stream
      BY <3>1, <3>2, Zenon DEF Stream
    <3> QED  BY <1>2, <3>1, <3>3, HostSameStream
  <2>3. CASE Publish
    BY <1>2, <2>3, HostAfterPublish
  <2>4. CASE ReadDone
    BY <1>2, <2>4, HostAfterRead
  <2> QED
    BY <1>2, <2>1, <2>2, <2>3, <2>4, StepCases
<1>3. HostInv => ShownWhereWritten
  BY DEF HostInv, ShownWhereWritten
<1> QED
  BY <1>1, <1>2, <1>3, RingInvariant, PTL DEF Spec

=============================================================================
