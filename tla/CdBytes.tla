------------------------------- MODULE CdBytes -------------------------------
(***************************************************************************)
(* What cdrom_file does byte by byte (lib/util/cdrom.cpp and cdrom.h): the *)
(* error correction codes of a sector, times, the tokens of a sheet.       *)
(* A sector is a function from its 2352 offsets to bytes.                  *)
(***************************************************************************)
EXTENDS Integers, Sequences

SYNC_NUM_BYTES == 12
MODE_OFFSET == 15
ECC_P_OFFSET == 2076
ECC_P_NUM_BYTES == 86
ECC_P_COMP == 24
ECC_Q_OFFSET == ECC_P_OFFSET + 2 * ECC_P_NUM_BYTES
ECC_Q_NUM_BYTES == 52
ECC_Q_COMP == 43

LOCAL NibbleXor ==
  LET bit(x, k) == (x \div 2^k) % 2
      one(x, y, k) == IF bit(x, k) # bit(y, k) THEN 2^k ELSE 0
  IN  [x \in 0..15 |-> [y \in 0..15 |-> one(x, y, 0) + one(x, y, 1) + one(x, y, 2) + one(x, y, 3)]]
ByteXor(a, b) == 16 * NibbleXor[a \div 16][b \div 16] + NibbleXor[a % 16][b % 16]

\* ecclow doubles in the field GF(256) of x^8 + x^4 + x^3 + x^2 + 1, ecchigh divides by 3.
EccLow == [x \in 0..255 |-> IF x < 128 THEN 2 * x ELSE ByteXor(2 * x - 256, 29)]
EccHigh ==
  LET triple == [x \in 0..255 |-> ByteXor(EccLow[x], x)] IN
  [y \in 0..255 |-> CHOOSE x \in 0..255 : triple[x] = y]

\* P runs down the columns of the sector, Q along its diagonals.
POffsets == [byte \in 0..(ECC_P_NUM_BYTES - 1) |-> [c \in 0..(ECC_P_COMP - 1) |-> byte + 86 * c]]
QOffsets == [byte \in 0..(ECC_Q_NUM_BYTES - 1) |-> [c \in 0..(ECC_Q_COMP - 1) |-> ((byte \div 2) * 86 + (byte % 2) + 88 * c) % 2236]]

\* The header of a mode 2 sector counts as zeros.
EccSourceByte(sector, offset) ==
  IF sector[MODE_OFFSET] = 2 /\ offset < 4 THEN 0 ELSE sector[SYNC_NUM_BYTES + offset]

\* The two codes of a row of n bytes.
CodesOf(bytes, n) ==
  LET step(v, b) == <<EccLow[ByteXor(v[1], b)], ByteXor(v[2], b)>>
      sum[k \in 0..n] == IF k = 0 THEN <<0, 0>> ELSE step(sum[k - 1], bytes[k - 1])
      final(v) == LET high == EccHigh[ByteXor(EccLow[v[1]], v[2])] IN <<high, ByteXor(v[2], high)>>
  IN  final(sum[n])
EccComputeBytes(sector, row, rowlen) == CodesOf([k \in 0..(rowlen - 1) |-> EccSourceByte(sector, row[k])], rowlen)

RowCodes(sector, at, num, offsets, rowlen) ==
  LET code == [byte \in 0..(num - 1) |-> EccComputeBytes(sector, offsets[byte], rowlen)] IN
  [k \in at..(at + 2 * num - 1) |-> IF k < at + num THEN code[k - at][1] ELSE code[k - at - num][2]]
PCodes(sector) == RowCodes(sector, ECC_P_OFFSET, ECC_P_NUM_BYTES, POffsets, ECC_P_COMP)
QCodes(sector) == RowCodes(sector, ECC_Q_OFFSET, ECC_Q_NUM_BYTES, QOffsets, ECC_Q_COMP)
WithCodes(sector, codes) == [k \in DOMAIN sector |-> IF k \in DOMAIN codes THEN codes[k] ELSE sector[k]]
Holds(sector, codes) == \A k \in DOMAIN codes : sector[k] = codes[k]

EccVerify2352(sector) == Holds(sector, PCodes(sector)) /\ Holds(sector, QCodes(sector))

\* Q covers the P codes: it comes second.
EccGenerate2352_QFirst(sector) ==
  LET withP(s) == WithCodes(s, PCodes(s)) IN withP(WithCodes(sector, QCodes(sector)))
EccGenerate2352(sector) ==
  LET withQ(s) == WithCodes(s, QCodes(s)) IN withQ(WithCodes(sector, PCodes(sector)))
EccClear2352(sector) ==
  [k \in DOMAIN sector |-> IF k \in ECC_P_OFFSET..(ECC_Q_OFFSET + 2 * ECC_Q_NUM_BYTES - 1) THEN 0 ELSE sector[k]]

-----------------------------------------------------------------------------
(* Times: msf_to_lba, lba_to_msf (decimal digits in nibbles) and lba_to_msf_alt *)

MsfToLba(msf) == ((msf \div 65536) % 256) * 60 * 75 + ((msf \div 256) % 256) * 75 + (msf % 256)

\* The minutes are kept in a byte, the rest is what they leave.
LbaToMsf_LongSecond(lba) ==
  LET m == (lba \div 4500) % 256
      rest == lba - m * 4500
      bcd(x) == (x \div 10) * 16 + (x % 10)
  IN  bcd(m) * 65536 + bcd((rest \div 76) % 256) * 256 + bcd(rest % 76)
LbaToMsf(lba) ==
  LET m == (lba \div 4500) % 256
      rest == lba - m * 4500
      bcd(x) == (x \div 10) * 16 + (x % 10)
  IN  bcd(m) * 65536 + bcd((rest \div 75) % 256) * 256 + bcd(rest % 75)
LbaToMsfAlt(lba) == ((lba \div 4500) % 256) * 65536 + ((lba \div 75) % 60) * 256 + (lba % 75)

-----------------------------------------------------------------------------
(* tokenize: the next token of a line of characters, and where it ended *)

LOCAL Space == " "
LOCAL DoubleQuote == "\""
LOCAL SingleQuote == "'"

\* t is [i, token, single, double, done].
TokenStep_Greedy(line, t) ==
  LET c == line[t.i] IN
  CASE t.done -> t
    [] ~t.done /\ c = DoubleQuote -> [t EXCEPT !.double = ~@, !.i = @ + 1]
    [] ~t.done /\ ~t.double /\ c = SingleQuote -> [t EXCEPT !.single = ~@, !.i = @ + 1]
    [] ~t.done /\ ~t.single /\ ~t.double /\ c = Space -> [t EXCEPT !.done = TRUE]
    [] OTHER -> [t EXCEPT !.token = Append(@, c), !.i = @ + 1]
TokenStep(line, t) ==
  LET c == line[t.i] IN
  CASE t.done -> t
    [] ~t.done /\ ~t.single /\ c = DoubleQuote -> [t EXCEPT !.double = ~@, !.i = @ + 1]
    [] ~t.done /\ ~t.double /\ c = SingleQuote -> [t EXCEPT !.single = ~@, !.i = @ + 1]
    [] ~t.done /\ ~t.single /\ ~t.double /\ c = Space -> [t EXCEPT !.done = TRUE]
    [] OTHER -> [t EXCEPT !.token = Append(@, c), !.i = @ + 1]

Tokenize(line, from) ==
  LET rest == {k \in from..Len(line) : line[k] # Space}
      start == IF rest = {} THEN Len(line) + 1 ELSE CHOOSE k \in rest : \A j \in rest : k <= j
      walk[k \in (start - 1)..Len(line)] ==
        IF k = start - 1 THEN [i |-> start, token |-> <<>>, single |-> FALSE, double |-> FALSE, done |-> FALSE]
        ELSE TokenStep(line, walk[k - 1])
  IN  walk[Len(line)]

\* TOKENIZE until the line has nothing left.
Tokens(line, n) ==
  LET all[k \in 0..n] == IF k = 0 THEN <<1, <<>>>>
                         ELSE LET t == Tokenize(line, all[k - 1][1]) IN <<t.i, Append(all[k - 1][2], t.token)>>
  IN  all[n][2]
=============================================================================
