------------------------------- MODULE Printf --------------------------------
(***************************************************************************)
(* Formatted printing, as SEGGER_RTT_printf.c does it into a channel and   *)
(* the copy of that code in SEGGER_SYSVIEW.c does it into packets.  A      *)
(* format is expanded directive by directive; the characters go through    *)
(* _StoreChar into a small buffer that is written when it is full, which   *)
(* may fail because the channel is full.                                   *)
(*                                                                         *)
(* A format is a sequence of directives: a literal character or a          *)
(* conversion with its flags, width, precision (-1: none), whether it has  *)
(* length modifiers, and argument (of %s the length of the string, -1 for  *)
(* NULL).  Characters are numbers: a digit is its value, the others are    *)
(* named below.                                                            *)
(***************************************************************************)
EXTENDS Integers, Sequences

CONSTANTS BufferSize,   \* SEGGER_RTT_PRINTF_BUFFER_SIZE, 64 in the code
          UWord,        \* 2^32 in the code: unsigned is modulo this
          Format,       \* bound: the formats that are printed
          StrayMax      \* bound: characters that nobody asked for

SPACE == 16
MINUS == 17
PLUS  == 18
LETTER == 19

Flag == {"LEFT_JUSTIFY", "PAD_ZERO", "PRINT_SIGN"}

Directive == [spec : STRING, flags : SUBSET Flag, width : Nat,
              precision : Nat \cup {-1}, long : BOOLEAN, arg : Int]

\* b^k.
Power(b, k) == LET p[i \in Nat] == IF i = 0 THEN 1 ELSE b * p[i - 1] IN p[k]

\* An argument is a word, and not the one negative number whose opposite is none.
\* A larger precision lets the weight of the first digit wrap around.
ASSUME PrintfAssumption ==
  /\ BufferSize \in Nat \ {0} /\ UWord \in Nat \ {0, 1} /\ StrayMax \in Nat
  /\ Format \subseteq Seq(Directive)
  /\ \A f \in Format : \A i \in 1 .. Len(f) :
       /\ f[i].spec = "d" => -UWord < 2 * f[i].arg /\ 2 * f[i].arg < UWord
       /\ f[i].precision > 0 /\ f[i].spec \in {"d", "u"} =>
            Power(10, f[i].precision - 1) < UWord
       /\ f[i].precision > 0 /\ f[i].spec = "x" =>
            Power(16, f[i].precision - 1) < UWord

Rep(c, n) == [i \in 1 .. (IF n < 0 THEN 0 ELSE n) |-> c]

-----------------------------------------------------------------------------
(* _PrintUnsigned and _PrintInt, each as the characters it stores: lead and *)
(* sign in front, digits, trailing spaces.                                  *)

Max2(a, b) == IF a > b THEN a ELSE b

\* The loop that counts the digits of v.
Width(v, base) ==
  LET w[n \in Nat] == IF n >= base THEN 1 + w[n \div base] ELSE 1 IN w[v]

\* The loop that finds the weight of the first digit: NumDigits rounds but one are
\* made before anything is checked.
FirstDigit(v, base, numDigits) ==
  LET loop[d \in Nat] == IF v \div d < base THEN d ELSE loop[(d * base) % UWord]
  IN loop[Power(base, Max2(numDigits, 1) - 1) % UWord]

Digits(v, base, numDigits) ==
  LET out[d \in Nat] ==
        [x \in Nat |-> IF d = 0 THEN <<>> ELSE <<x \div d>> \o out[d \div base][x % d]]
  IN out[FirstDigit(v, base, numDigits)][v]

_PrintUnsigned(v, base, numDigits, fieldWidth, flags) ==
  LET pad == fieldWidth - Max2(Width(v, base), numDigits)
  IN [lead   |-> IF "LEFT_JUSTIFY" \in flags THEN <<>>
                 ELSE Rep(IF "PAD_ZERO" \in flags /\ numDigits = 0 THEN 0 ELSE SPACE, pad),
      digits |-> Digits(v, base, numDigits),
      trail  |-> IF "LEFT_JUSTIFY" \in flags THEN Rep(SPACE, pad) ELSE <<>>]

\* Mutant: the sign is not counted in the field.
PrintIntWide(v, base, numDigits, fieldWidth, flags) ==
  LET a    == IF v < 0 THEN -v ELSE v
      sign == IF v < 0 THEN <<MINUS>> ELSE IF "PRINT_SIGN" \in flags THEN <<PLUS>> ELSE <<>>
      pad  == fieldWidth - Max2(Width(a, base), numDigits)
      zero == "PAD_ZERO" \in flags /\ numDigits = 0
      fw2  == IF "LEFT_JUSTIFY" \in flags THEN fieldWidth ELSE 0
      u    == _PrintUnsigned(a, base, numDigits, fw2, flags)
  IN [u EXCEPT !.lead =
        IF "LEFT_JUSTIFY" \in flags THEN sign
        ELSE IF zero THEN sign \o Rep(0, pad) ELSE Rep(SPACE, pad) \o sign]

\* The padding of _PrintInt leaves nothing to pad for _PrintUnsigned, except on
\* the right.
_PrintInt(v, base, numDigits, fieldWidth, flags) ==
  LET a    == IF v < 0 THEN -v ELSE v
      sign == IF v < 0 THEN <<MINUS>> ELSE IF "PRINT_SIGN" \in flags THEN <<PLUS>> ELSE <<>>
      w    == Max2(Width(a, base), numDigits)
      fw   == IF fieldWidth > 0 THEN fieldWidth - Len(sign) ELSE 0
      zero == "PAD_ZERO" \in flags /\ numDigits = 0
      fw2  == IF "LEFT_JUSTIFY" \in flags THEN fw ELSE IF fw > w THEN w ELSE fw
      u    == _PrintUnsigned(a, base, numDigits, fw2, flags)
  IN [u EXCEPT !.lead =
        IF "LEFT_JUSTIFY" \in flags THEN sign
        ELSE IF zero THEN sign \o Rep(0, fw - w) \o u.lead
        ELSE Rep(SPACE, fw - w) \o sign \o u.lead]

\* The copies in SEGGER_SYSVIEW.c: the same without the checks for an error.
PrintUnsignedTarget(v, base, numDigits, fieldWidth, flags) ==
  _PrintUnsigned(v, base, numDigits, fieldWidth, flags)
PrintIntTarget(v, base, numDigits, fieldWidth, flags) ==
  _PrintInt(v, base, numDigits, fieldWidth, flags)

Plain(s) == [lead |-> s, digits |-> <<>>, trail |-> <<>>]

\* 8 of a pointer of 32 bits.
PointerDigits == Width(UWord - 1, 16)

NumDigits(d) == IF d.precision = -1 THEN 0 ELSE d.precision

\* The switch of SEGGER_RTT_vprintf; an unknown specifier prints nothing, a
\* length modifier changes nothing.
Expand(d) ==
  IF d.spec = "d" THEN _PrintInt(d.arg, 10, NumDigits(d), d.width, d.flags)
  ELSE IF d.spec = "u" THEN _PrintUnsigned(d.arg % UWord, 10, NumDigits(d), d.width, d.flags)
  ELSE IF d.spec = "x" THEN _PrintUnsigned(d.arg % UWord, 16, NumDigits(d), d.width, d.flags)
  ELSE IF d.spec = "p" THEN _PrintUnsigned(d.arg % UWord, 16, PointerDigits, PointerDigits, {})
  ELSE IF d.spec = "s"
  THEN Plain(Rep(LETTER, IF d.arg = -1 THEN 6
                         ELSE IF d.precision # -1 /\ d.precision < d.arg THEN d.precision
                         ELSE d.arg))
  ELSE IF d.spec \in {"c", "%", "literal"} THEN Plain(<<LETTER>>)
  ELSE Plain(<<>>)

\* The switch of _VPrintTarget: a string is not cut.
ExpandTarget(d) ==
  IF d.spec = "d" THEN PrintIntTarget(d.arg, 10, NumDigits(d), d.width, d.flags)
  ELSE IF d.spec = "u" THEN PrintUnsignedTarget(d.arg % UWord, 10, NumDigits(d), d.width, d.flags)
  ELSE IF d.spec = "x" THEN PrintUnsignedTarget(d.arg % UWord, 16, NumDigits(d), d.width, d.flags)
  ELSE IF d.spec = "p"
  THEN PrintUnsignedTarget(d.arg % UWord, 16, PointerDigits, PointerDigits, {})
  ELSE IF d.spec = "s" THEN Plain(Rep(LETTER, IF d.arg = -1 THEN 6 ELSE d.arg))
  ELSE IF d.spec \in {"c", "%", "literal"} THEN Plain(<<LETTER>>)
  ELSE Plain(<<>>)

-----------------------------------------------------------------------------
VARIABLES dest,        \* "rtt" or "target"
          mode,        \* what the channel does when it is full
          format,      \* directives to come
          text,        \* what is left of the current one
          skip,        \* _VPrintTarget has stepped over the next character
          Cnt, pBuffer, ReturnValue,   \* BufferDesc
          printing,    \* "idle", "run", "retry", "end"
          full,        \* history: all characters the format stands for so far
          stored,      \* history: the characters that were stored for the host
          lost,        \* history: some were not
          retried,     \* history: a failed write was repeated
          strayed      \* history: skip was set

printVars == <<dest, mode, format, text, skip, Cnt, pBuffer, ReturnValue, printing,
               full, stored, lost, retried, strayed>>

Empty == Plain(<<>>)

PrintInit ==
  /\ dest = "rtt" /\ mode = "SKIP" /\ format = <<>> /\ text = Empty /\ skip = FALSE
  /\ Cnt = 0 /\ pBuffer = <<>> /\ ReturnValue = 0 /\ printing = "idle"
  /\ full = <<>> /\ stored = <<>> /\ lost = FALSE /\ retried = FALSE /\ strayed = FALSE

\* The start of SEGGER_RTT_printf or of SEGGER_SYSVIEW_PrintfTarget.
PrintStarts(to, m, f) ==
  /\ printing = "idle"
  /\ dest' = to
  /\ mode' = m
  /\ format' = f
  /\ text' = Empty /\ skip' = FALSE /\ Cnt' = 0 /\ pBuffer' = <<>> /\ ReturnValue' = 0
  /\ full' = <<>> /\ stored' = <<>> /\ lost' = FALSE /\ retried' = FALSE /\ strayed' = FALSE
  /\ printing' = "run"

\* The recorder writes its packets with SEGGER_RTT_WriteSkipNoLock.
SEGGER_RTT_printf(f) == \E m \in {"SKIP", "TRIM", "BLOCK"} : PrintStarts("rtt", m, f)
SEGGER_SYSVIEW_PrintfTarget(f) == PrintStarts("target", "SKIP", f)

Chars(x) == x.lead \o x.digits \o x.trail

\* All characters of the last directive are stored.
NextDirective == printing = "run" /\ Chars(text) = <<>>

\* The loops over the format: everything between two characters that are stored.
SEGGER_RTT_vprintf ==
  /\ dest = "rtt" /\ NextDirective /\ format # <<>>
  /\ text' = Expand(Head(format))
  /\ full' = full \o Chars(text')
  /\ format' = Tail(format)
  /\ UNCHANGED <<dest, mode, skip, Cnt, pBuffer, ReturnValue, printing, stored, lost,
                 retried, strayed>>

\* The loop over the length modifiers also steps over the specifier, and the end
\* of the conversion then over the character behind it.
_VPrintTarget ==
  /\ dest = "target" /\ NextDirective /\ ~skip /\ format # <<>>
  /\ text' = ExpandTarget(Head(format))
  /\ full' = full \o Chars(text')
  /\ format' = Tail(format)
  /\ skip' = Head(format).long
  /\ strayed' = (strayed \/ Head(format).long)
  /\ UNCHANGED <<dest, mode, Cnt, pBuffer, ReturnValue, printing, stored, lost, retried>>

NextIsLiteral == format # <<>> /\ Head(format).spec = "literal"

\* That character is lost,
SwallowLiteral ==
  /\ NextDirective /\ skip /\ NextIsLiteral
  /\ full' = full \o Chars(ExpandTarget(Head(format)))
  /\ format' = Tail(format)
  /\ skip' = FALSE
  /\ UNCHANGED <<dest, mode, text, Cnt, pBuffer, ReturnValue, printing, stored, lost,
                 retried, strayed>>

\* or it is the % of a conversion, which is then printed as it stands while the
\* arguments go to the wrong ones, or the NUL at the end, and memory is printed
\* up to the next NUL: any characters.
RunAstray ==
  /\ NextDirective /\ skip /\ ~NextIsLiteral
  /\ \E n \in 0 .. StrayMax : text' = Plain(Rep(LETTER, n))
  /\ format' = <<>>
  /\ skip' = FALSE
  /\ UNCHANGED <<dest, mode, Cnt, pBuffer, ReturnValue, printing, full, stored, lost,
                 retried, strayed>>

\* What is left after the first character.
Rest(x) ==
  IF x.lead # <<>> THEN [x EXCEPT !.lead = Tail(@)]
  ELSE IF x.digits # <<>> THEN [x EXCEPT !.digits = Tail(@)]
  ELSE [x EXCEPT !.trail = Tail(@)]

\* SEGGER_RTT_Write: how many of n characters are stored, by the mode of the channel.
Stores(n) == IF mode = "BLOCK" THEN {n} ELSE IF mode = "TRIM" THEN 0 .. n ELSE {0, n}

\* The first k characters are stored.
Written(chars, k) ==
  /\ k \in Stores(Len(chars))
  /\ stored' = stored \o SubSeq(chars, 1, k)
  /\ lost' = (lost \/ k < Len(chars))

Unwritten == UNCHANGED <<stored, lost>>

\* Mutant: a failed write is not noticed.
StoreCharBlind ==
  LET buf == Append(pBuffer, Head(Chars(text))) IN
  /\ dest = "rtt" /\ printing = "run" /\ Chars(text) # <<>>
  /\ text' = Rest(text)
  /\ ReturnValue' = ReturnValue + 1
  /\ IF Cnt + 1 = BufferSize
     THEN (\E k \in 0 .. BufferSize : Written(buf, k)) /\ pBuffer' = <<>> /\ Cnt' = 0
     ELSE pBuffer' = buf /\ Cnt' = Cnt + 1 /\ Unwritten
  /\ UNCHANGED <<dest, mode, format, skip, printing, full, retried, strayed>>

\* Every caller stops at an error, but the loop for trailing spaces calls once
\* more before it looks.
_StoreChar ==
  LET digit == text.lead = <<>> /\ text.digits # <<>>
      buf   == Append(pBuffer, Head(Chars(text)))
  IN
  /\ dest = "rtt" /\ printing = "run" /\ Chars(text) # <<>>
  /\ text' = Rest(text)
  /\ \/ /\ Cnt + 1 < BufferSize
        /\ pBuffer' = buf
        /\ Cnt' = Cnt + 1
        /\ ReturnValue' = ReturnValue + 1
        /\ Unwritten /\ UNCHANGED printing
     \/ /\ Cnt + 1 = BufferSize
        /\ Written(buf, BufferSize)
        /\ pBuffer' = <<>> /\ Cnt' = 0
        /\ ReturnValue' = ReturnValue + 1
        /\ UNCHANGED printing
     \/ /\ Cnt + 1 = BufferSize
        /\ \E k \in 0 .. BufferSize - 1 : Written(buf, k)
        /\ pBuffer' = buf /\ Cnt' = BufferSize
        /\ ReturnValue' = -1
        /\ printing' = IF digit /\ text.trail # <<>> THEN "retry" ELSE "end"
  /\ UNCHANGED <<dest, mode, format, skip, full, retried, strayed>>

\* _StoreChar with a full buffer: the character is not stored, the whole buffer is
\* written again, also if a part of it was stored before.
StoreRetry ==
  /\ printing = "retry"
  /\ \E k \in 0 .. BufferSize :
       /\ Written(pBuffer, k)
       /\ pBuffer' = IF k = BufferSize THEN <<>> ELSE pBuffer
       /\ Cnt' = IF k = BufferSize THEN 0 ELSE Cnt
  /\ printing' = "end"
  /\ retried' = TRUE
  /\ UNCHANGED <<dest, mode, format, text, skip, ReturnValue, full, strayed>>

\* Mutant: the character that fills the buffer is left out of the packet.
StoreTargetEarly ==
  LET buf == Append(pBuffer, Head(Chars(text))) IN
  /\ dest = "target" /\ printing = "run" /\ Chars(text) # <<>>
  /\ text' = Rest(text)
  /\ IF Cnt + 1 = BufferSize
     THEN (\E k \in 0 .. BufferSize : Written(pBuffer, k)) /\ pBuffer' = <<>> /\ Cnt' = 0
     ELSE pBuffer' = buf /\ Cnt' = Cnt + 1 /\ Unwritten
  /\ UNCHANGED <<dest, mode, format, skip, ReturnValue, printing, full, retried, strayed>>

\* _StoreChar of SEGGER_SYSVIEW.c: a full buffer becomes a packet, which
\* _SendPacket may drop.
StoreCharTarget ==
  LET buf == Append(pBuffer, Head(Chars(text))) IN
  /\ dest = "target" /\ printing = "run" /\ Chars(text) # <<>>
  /\ text' = Rest(text)
  /\ IF Cnt + 1 = BufferSize
     THEN (\E k \in 0 .. BufferSize : Written(buf, k)) /\ pBuffer' = <<>> /\ Cnt' = 0
     ELSE pBuffer' = buf /\ Cnt' = Cnt + 1 /\ Unwritten
  /\ UNCHANGED <<dest, mode, format, skip, ReturnValue, printing, full, retried, strayed>>

TextDone == \/ printing = "end"
            \/ NextDirective /\ format = <<>> /\ ~skip

\* The end of SEGGER_RTT_vprintf: the result of the last write is ignored, and
\* the characters of the last part are counted a second time.
PrintEnds ==
  /\ dest = "rtt" /\ TextDone
  /\ IF ReturnValue > 0 /\ Cnt # 0 THEN \E k \in 0 .. Cnt : Written(pBuffer, k) ELSE Unwritten
  /\ ReturnValue' = IF ReturnValue > 0 THEN ReturnValue + Cnt ELSE ReturnValue
  /\ printing' = "idle"
  /\ UNCHANGED <<dest, mode, format, text, skip, Cnt, pBuffer, full, retried, strayed>>

\* The end of _VPrintTarget.
TargetEnds ==
  /\ dest = "target" /\ TextDone
  /\ IF Cnt # 0 THEN \E k \in 0 .. Cnt : Written(pBuffer, k) ELSE Unwritten
  /\ printing' = "idle"
  /\ UNCHANGED <<dest, mode, format, text, skip, Cnt, pBuffer, ReturnValue, full, retried,
                 strayed>>

PrintStep ==
  \/ SEGGER_RTT_vprintf \/ _StoreChar \/ StoreRetry \/ PrintEnds
  \/ _VPrintTarget \/ SwallowLiteral \/ RunAstray \/ StoreCharTarget \/ TargetEnds

-----------------------------------------------------------------------------
(* What a conversion means, in C's words *)

CanonicalDigits(v, base) ==
  LET n == CHOOSE k \in 1 .. UWord : Power(base, k - 1) <= Max2(v, 1) /\ v < Power(base, k)
  IN [i \in 1 .. n |-> (v \div Power(base, n - i)) % base]

\* At least precision digits, none of 0 if the precision is 0; a field of at least
\* width characters, filled on the right, with zeros behind the sign unless there
\* is a precision, or with spaces in front of the sign.
Reference(v, base, precision, width, flags, signed) ==
  LET a    == IF v < 0 THEN -v ELSE v
      c    == IF a = 0 /\ precision = 0 THEN <<>> ELSE CanonicalDigits(a, base)
      body == Rep(0, precision - Len(c)) \o c
      sign == IF ~signed THEN <<>> ELSE IF v < 0 THEN <<MINUS>>
              ELSE IF "PRINT_SIGN" \in flags THEN <<PLUS>> ELSE <<>>
      pad  == width - Len(body) - Len(sign)
  IN IF "LEFT_JUSTIFY" \in flags THEN sign \o body \o Rep(SPACE, pad)
     ELSE IF "PAD_ZERO" \in flags /\ precision = -1 THEN sign \o Rep(0, pad) \o body
     ELSE Rep(SPACE, pad) \o sign \o body

(***************************************************************************)
(* A number comes out as C defines the conversion: sign, minimum digits,   *)
(* field width, zero and left justification in all their combinations, up  *)
(* to the largest unsigned, although the two functions share the padding.  *)
(* The exception is a precision of 0, which the code takes for none: the   *)
(* number 0 is printed where C prints no digit, and flag 0 pads where C,   *)
(* and the comment at SEGGER_RTT_printf.c:503, ignore it.  Any other       *)
(* number without that flag is right with precision 0, too.                *)
(***************************************************************************)
NumbersRight ==
  \A i \in DOMAIN format :
    LET d    == format[i]
        v    == IF d.spec = "d" THEN d.arg ELSE d.arg % UWord
        C(p) == Reference(v, IF d.spec = "x" THEN 16 ELSE 10, p, d.width, d.flags,
                          d.spec = "d")
    IN d.spec \in {"d", "u", "x"} =>
         /\ d.precision # 0 \/ (v # 0 /\ "PAD_ZERO" \notin d.flags)
              => Chars(Expand(d)) = C(d.precision)
         /\ d.precision = 0 => Chars(Expand(d)) = C(-1)

\* The host has the first n characters.
StoredIsPrefix == \E n \in 0 .. Len(full) : stored = SubSeq(full, 1, n)

\* It has the first n, and then some of one buffer's length for a second time.
StoredRepeats ==
  \E n \in 0 .. Len(full) : \E b \in 0 .. n : \E m \in b .. Len(full) :
    /\ n - b < BufferSize /\ m - b <= BufferSize
    /\ stored = SubSeq(full, 1, n) \o SubSeq(full, b + 1, m)

(***************************************************************************)
(* What SEGGER_RTT_printf stores for the host is a prefix of the text:     *)
(* after a write that failed nothing that comes later is stored, not even  *)
(* by the one call of _StoreChar that still happens.  Only on a channel in *)
(* mode TRIM that call may repeat characters, of one buffer.  What         *)
(* SEGGER_SYSVIEW_PrintfTarget stores is whole unless a packet was         *)
(* dropped, however the text falls on the packets, or a length modifier    *)
(* led it astray.  The buffer is full only after a failed write, and never *)
(* more than that.                                                         *)
(***************************************************************************)
HostTextRight ==
  /\ Cnt = Len(pBuffer) /\ Cnt <= BufferSize /\ (Cnt = BufferSize => ReturnValue = -1)
  /\ dest = "rtt" => StoredIsPrefix \/ (retried /\ mode = "TRIM" /\ StoredRepeats)
  /\ printing = "idle" /\ ~lost /\ ~strayed => stored = full

(***************************************************************************)
(* The result of SEGGER_RTT_printf.  After an error a part of the text is  *)
(* missing or the last write had to be repeated.  Without one the format   *)
(* was finished and at most the last part, less than a buffer, is missing; *)
(* the result is then not "Number of bytes which have been stored"         *)
(* (SEGGER_RTT_printf.c:318, 494) but more by the length of that part,     *)
(* which is counted twice, and by what of it was not stored: it is the     *)
(* number stored only if the text ends with a buffer.                      *)
(***************************************************************************)
ResultTells ==
  printing = "idle" /\ dest = "rtt" =>
    /\ ReturnValue < 0 => lost
    /\ ReturnValue >= 0 =>
         /\ format = <<>> /\ Cnt < BufferSize
         /\ ReturnValue = Len(full) + Cnt
         /\ Len(full) - Len(stored) \in 0 .. Cnt
         /\ lost <=> Len(full) # Len(stored)

=============================================================================
