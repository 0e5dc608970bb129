-------------------------------- MODULE Text --------------------------------
(***************************************************************************)
(* core_text_file (lib/util/corefile.cpp): characters and lines of a file  *)
(* in one of six encodings.  t is the file and what the object keeps: the  *)
(* position, the encoding and the ring of bytes put back.                  *)
(***************************************************************************)
EXTENDS Unicode

CONSTANT ConvBuf    \* bytes in the buffer of puts (1024)

EOF == -1
TextFile(data) == [data |-> data, pos |-> 0, type |-> "OSD", chars |-> [k \in 0..(UTF8_CHAR_MAX - 1) |-> 0], head |-> 0, tail |-> 0]

LOCAL Smaller(m, n) == IF m < n THEN m ELSE n
LOCAL Ahead(t, n) == SubSeq(t.data, t.pos + 1, Smaller(t.pos + n, Len(t.data)))

-----------------------------------------------------------------------------
(* Reading *)

\* The byte order mark, looked for at the start of a file of four bytes or more.
ByteOrderMark(b) ==
  CASE b[1] = 239 /\ b[2] = 187 /\ b[3] = 191 -> <<"UTF8", 3>>
    [] b = <<0, 0, 254, 255>> -> <<"UTF32BE", 4>>
    [] b = <<255, 254, 0, 0>> -> <<"UTF32LE", 4>>
    [] b[1] = 254 /\ b[2] = 255 -> <<"UTF16BE", 2>>
    [] b[1] = 255 /\ b[2] = 254 /\ <<b[3], b[4]>> # <<0, 0>> -> <<"UTF16LE", 2>>
    [] OTHER -> <<"OSD", 0>>
DetectType(t) ==
  IF t.pos # 0 \/ Len(t.data) < 4 THEN t
  ELSE LET m == ByteOrderMark(SubSeq(t.data, 1, 4)) IN [t EXCEPT !.type = m[1], !.pos = m[2]]

\* mbstowcs in the locale a C program starts in: a byte of ASCII is itself, another one
\* no character.
Mbstowcs(s) == IF s[1] < 128 THEN s[1] ELSE -1
OsdUcharFromOsdchar(s) ==
  IF s[1] = 0 THEN [count |-> 1, uchar |-> 0]
  ELSE IF Mbstowcs(s) >= 0 THEN [count |-> 1, uchar |-> Mbstowcs(s)] ELSE [count |-> -1, uchar |-> 0]

\* Two units as a little-endian machine reads them.
LOCAL Units(b) == [k \in 1..2 |-> IF 2 * k <= Len(b) THEN b[2 * k] * 256 + b[2 * k - 1] ELSE 0]

\* The next character and where the position is left: behind it, or one unit back when
\* it could not be decoded (behind all that was read, if that is before the start).
LOCAL Taken(t, d, unit, ahead, initial) ==
  <<[t EXCEPT !.pos = IF @ + d.count * unit < 0 THEN @ + ahead ELSE @ + d.count * unit],
    IF d.count > 0 THEN d.uchar ELSE initial>>
LOCAL Whole(t, b, c) == <<[t EXCEPT !.pos = @ + Len(b)], c>>
LOCAL Word(b) == ((b[1] * 256 + b[2]) * 256 + b[3]) * 256 + b[4]
NextUchar(t) ==
  CASE Ahead(t, 1) = <<>> -> <<t, EOF>>
    [] Ahead(t, 1) # <<>> /\ t.type = "OSD" -> Taken(t, OsdUcharFromOsdchar(Ahead(t, 16)), 1, Len(Ahead(t, 16)), 0)
    [] Ahead(t, 1) # <<>> /\ t.type = "UTF8" -> Taken(t, UcharFromUtf8(Ahead(t, UTF8_CHAR_MAX)), 1, Len(Ahead(t, UTF8_CHAR_MAX)), EOF)
    [] Ahead(t, 1) # <<>> /\ t.type = "UTF16BE" ->
         Taken(t, UcharFromUtf16f(Units(Ahead(t, 4)), Len(Ahead(t, 4)) \div 2), 2, Len(Ahead(t, 4)), EOF)
    [] Ahead(t, 1) # <<>> /\ t.type = "UTF16LE" ->
         Taken(t, UcharFromUtf16(Units(Ahead(t, 4)), Len(Ahead(t, 4)) \div 2), 2, Len(Ahead(t, 4)), EOF)
    [] Ahead(t, 1) # <<>> /\ t.type = "UTF32BE" -> Whole(t, Ahead(t, 4), Word(Ahead(t, 4)))
    [] Ahead(t, 1) # <<>> /\ t.type = "UTF32LE" ->
         LET b == Ahead(t, 4) IN Whole(t, b, Word(<<b[4], b[3], b[2], b[1]>>))

\* The bytes of the character in UTF-8 go into the ring.
LOCAL InRing(t, bytes) ==
  [t EXCEPT !.head = 0, !.tail = IF bytes = <<>> THEN -1 ELSE Len(bytes),
            !.chars = [k \in DOMAIN @ |-> IF k < Len(bytes) THEN bytes[k + 1] ELSE @[k]]]
LOCAL Refilled(x) == IF x[2] = EOF THEN x[1] ELSE InRing(x[1], Utf8FromUchar(UTF8_CHAR_MAX, x[2]))
Refresh(t) == IF t.head # t.tail THEN t ELSE Refilled(NextUchar(DetectType(t)))

\* A byte is a signed char: 255 reads as EOF.
LOCAL Popped(t) ==
  IF t.head = t.tail THEN <<t, EOF>>
  ELSE <<[t EXCEPT !.head = (@ + 1) % UTF8_CHAR_MAX], IF t.chars[t.head] = 255 THEN EOF ELSE t.chars[t.head]>>
Getc(t) == Popped(Refresh(t))
Ungetc(t, c) ==
  [t EXCEPT !.chars[t.tail] = IF c = EOF THEN 255 ELSE c, !.tail = (@ + 1) % UTF8_CHAR_MAX]

LOCAL AfterCr(x) == IF x[2] = 10 THEN x[1] ELSE Ungetc(x[1], x[2])
\* Up to n bytes of a line; its end, in whatever form, is one CR.
RECURSIVE Gets(_, _, _)
Gets(t, n, cur) ==
  IF n = 0 THEN <<t, cur>>
  ELSE LET x == Getc(t) IN
       CASE x[2] = EOF -> <<x[1], cur>>
         [] x[2] = 13 -> <<AfterCr(Getc(x[1])), Append(cur, 13)>>
         [] x[2] = 10 -> <<x[1], Append(cur, 13)>>
         [] OTHER -> Gets(x[1], n - 1, Append(cur, x[2]))

-----------------------------------------------------------------------------
(* Writing *)

\* The buffer and what was written of it; a line feed stays one outside Windows.
LOCAL Spill(c, threshold) ==
  IF Len(c.buf) >= threshold THEN [out |-> c.out \o c.buf, buf |-> <<>>] ELSE c
\* Mutant: the last part of a long line is not written.
Puts_NoFlush(data, s, nobom) ==
  LET c[k \in 0..Len(s)] ==
        IF k = 0 THEN [out |-> data, buf |-> IF ~nobom /\ data = <<>> THEN <<239, 187, 191>> ELSE <<>>]
        ELSE Spill([c[k - 1] EXCEPT !.buf = Append(@, s[k])], ConvBuf - 10)
  IN  c[Len(s)].out
Puts(data, s, nobom) ==
  LET c[k \in 0..Len(s)] ==
        IF k = 0 THEN [out |-> data, buf |-> IF ~nobom /\ data = <<>> THEN <<239, 187, 191>> ELSE <<>>]
        ELSE Spill([c[k - 1] EXCEPT !.buf = Append(@, s[k])], ConvBuf - 10)
  IN  c[Len(s)].out \o c[Len(s)].buf
=============================================================================
