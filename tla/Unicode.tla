------------------------------ MODULE Unicode -------------------------------
(***************************************************************************)
(* Code points, UTF-8 and UTF-16 (lib/util/unicode.cpp).  A code point is  *)
(* a number, an encoding a sequence of bytes or of 16-bit units; a         *)
(* function that decodes answers with the count its C++ original returns   *)
(* and the character.                                                      *)
(***************************************************************************)
EXTENDS Integers, Sequences

UTF8_CHAR_MAX == 6
UTF16_CHAR_MAX == 2
ReplacementChar == 65533

UcharIsvalid(c) == c < 1114112 /\ ~(c >= 55296 /\ c <= 57343)

Decoded(count, c) == [count |-> count, uchar |-> c]
Refused == Decoded(-1, 0)
Continues(byte) == byte \in 128..191

\* The first byte of a sequence: the bits that mark it, how many bytes follow, and the
\* smallest character that needs as many.
LeadOf(byte) ==
  CASE byte <= 127         -> [mark |-> 0, aux |-> 0, min |-> 0]
    [] byte \in 192..223   -> [mark |-> 192, aux |-> 1, min |-> 128]
    [] byte \in 224..239   -> [mark |-> 224, aux |-> 2, min |-> 2048]
    [] byte \in 240..247   -> [mark |-> 240, aux |-> 3, min |-> 65536]
    [] byte \in 248..251   -> [mark |-> 248, aux |-> 4, min |-> 2097152]
    [] byte \in {252, 253} -> [mark |-> 252, aux |-> 5, min |-> 67108864]
    [] OTHER               -> [mark |-> 0, aux |-> -1, min |-> 0]

\* Six bits more of each byte that follows.
Gathered(s, lead) ==
  LET more(c, byte) == c * 64 + (byte % 64)
      c0 == s[1] - lead.mark
      c1 == more(c0, s[2])
      c2 == more(c1, s[3])
      c3 == more(c2, s[4])
      c4 == more(c3, s[5])
  IN  CASE lead.aux = 0 -> c0 [] lead.aux = 1 -> c1 [] lead.aux = 2 -> c2
        [] lead.aux = 3 -> c3 [] lead.aux = 4 -> c4 [] lead.aux = 5 -> more(c4, s[6])
Accepted(c, lead) == IF c < lead.min THEN Refused ELSE Decoded(lead.aux + 1, c)
FromLead(s, lead) ==
  IF lead.aux = -1 \/ lead.aux > Len(s) - 1 \/ \E k \in 2..(lead.aux + 1) : ~Continues(s[k]) THEN Refused
  ELSE Accepted(Gathered(s, lead), lead)

\* Mutant: longer forms of a character are taken for it.
UcharFromUtf8_Overlong(s) == IF s = <<>> THEN Decoded(0, 0) ELSE FromLead(s, [LeadOf(s[1]) EXCEPT !.min = 0])
UcharFromUtf8(s) == IF s = <<>> THEN Decoded(0, 0) ELSE FromLead(s, LeadOf(s[1]))

HighSurrogate(unit) == unit >= 55296 /\ unit < 56320
LowSurrogate(unit) == unit >= 56320 /\ unit < 57344

\* The first unit of the buffer w is looked at even when count is 0.
UcharFromUtf16(w, count) ==
  IF HighSurrogate(w[1])
  THEN IF count > 1 /\ LowSurrogate(w[2]) THEN Decoded(2, 65536 + (w[1] % 1024) * 1024 + (w[2] % 1024))
       ELSE IF count = 0 THEN Decoded(0, 0) ELSE Refused
  ELSE IF ~LowSurrogate(w[1]) THEN Decoded(1, w[1])
  ELSE IF count = 0 THEN Decoded(0, 0) ELSE Refused

SwapUnit(unit) == (unit % 256) * 256 + unit \div 256
UcharFromUtf16f(w, count) ==
  UcharFromUtf16([k \in 1..2 |-> IF k <= count THEN SwapUnit(w[k]) ELSE 0], count)

\* A byte that begins no character becomes the replacement character.
UstrFromUtf8(s) ==
  LET rest(i) == SubSeq(s, i, Len(s))
      from[i \in 1..(Len(s) + 1)] ==
        IF i > Len(s) THEN <<>>
        ELSE LET d == UcharFromUtf8(rest(i)) IN
             IF d.count > 0 THEN <<d.uchar>> \o from[i + d.count] ELSE <<ReplacementChar>> \o from[i + 1]
  IN  from[1]

Encoded8(bytes, count) == IF count < Len(bytes) THEN <<>> ELSE bytes
Low6(c, shift) == 128 + ((c \div shift) % 64)

\* The empty sequence stands for the error.
Utf8FromUchar(count, c) ==
  CASE ~UcharIsvalid(c) -> <<>>
    [] c < 128 -> Encoded8(<<c>>, count)
    [] c >= 128 /\ c < 2048 -> Encoded8(<<192 + c \div 64, Low6(c, 1)>>, count)
    [] c >= 2048 /\ c < 65536 /\ UcharIsvalid(c) -> Encoded8(<<224 + c \div 4096, Low6(c, 64), Low6(c, 1)>>, count)
    [] c >= 65536 /\ UcharIsvalid(c) -> Encoded8(<<240 + c \div 262144, Low6(c, 4096), Low6(c, 64), Low6(c, 1)>>, count)

\* Mutant: the low surrogate has the high bits.
Utf16FromUchar_Swapped(count, c) ==
  IF c < 65536 THEN <<c>> ELSE <<55296 + ((c - 65536) % 1024), 56320 + (c - 65536) \div 1024>>
Utf16FromUchar(count, c) ==
  CASE UcharIsvalid(c) /\ c < 65536 /\ count >= 1 -> <<c>>
    [] c >= 65536 /\ c < 1048576 /\ count >= 2 -> <<55296 + (c - 65536) \div 1024, 56320 + ((c - 65536) % 1024)>>
    [] OTHER -> <<>>
Utf16fFromUchar(count, c) == LET w == Utf16FromUchar(count, c) IN [k \in DOMAIN w |-> SwapUnit(w[k])]

\* The start of the character before place p of s.
Utf8PreviousChar(s, p) == CHOOSE k \in 1..(p - 1) : ~Continues(s[k]) /\ \A j \in (k + 1)..(p - 1) : Continues(s[j])

\* A C string: no character of it is NUL.
Utf8IsValidString(s) ==
  LET valid[i \in 1..(Len(s) + 1)] ==
        \/ i > Len(s)
        \/ LET d == UcharFromUtf8(SubSeq(s, i, Len(s))) IN
           d.count > 0 /\ d.uchar # 0 /\ UcharIsvalid(d.uchar) /\ valid[i + d.count]
  IN  valid[1]
=============================================================================
