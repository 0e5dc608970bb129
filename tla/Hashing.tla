------------------------------- MODULE Hashing ------------------------------
(***************************************************************************)
(* The digests and check values of lib/util/hashing.cpp and md5.cpp: how   *)
(* data of any length is cut into blocks and padded, the rounds of SHA-1   *)
(* and MD5, the CRC-16 that guards every hunk, and hashes as text.         *)
(*                                                                         *)
(* A byte is a number; a word is the pair of its halves, the upper one     *)
(* first.                                                                  *)
(***************************************************************************)
EXTENDS Integers, Sequences

CONSTANT CounterBits    \* bits of a counter of MD5 (32)

BlockBytes == 64

-----------------------------------------------------------------------------
(* The rounds of SHA-1 *)

LOCAL Xor16(a, b) ==
  LET bit(v, k) == (v \div 2^k) % 2
      sum[k \in 0..16] == IF k = 0 THEN 0 ELSE sum[k - 1] + (IF bit(a, k - 1) # bit(b, k - 1) THEN 2^(k - 1) ELSE 0)
  IN  sum[16]
LOCAL XorW(a, b) == <<Xor16(a[1], b[1]), Xor16(a[2], b[2])>>
LOCAL AndW(a, b) == LET x == XorW(a, b) IN <<(a[1] + b[1] - x[1]) \div 2, (a[2] + b[2] - x[2]) \div 2>>
LOCAL OrW(a, b) == LET x == XorW(a, b) IN <<(a[1] + b[1] + x[1]) \div 2, (a[2] + b[2] + x[2]) \div 2>>
LOCAL NotW(a) == <<65535 - a[1], 65535 - a[2]>>
LOCAL AddW(a, b) == <<(a[1] + b[1] + (a[2] + b[2]) \div 65536) % 65536, (a[2] + b[2]) % 65536>>
LOCAL Rotl16(a, n) == <<((a[1] * 2^n) % 65536) + a[2] \div 2^(16 - n), ((a[2] * 2^n) % 65536) + a[1] \div 2^(16 - n)>>
Rotl32(a, n) == IF n < 16 THEN Rotl16(a, n) ELSE Rotl16(<<a[2], a[1]>>, n - 16)

LOCAL Constant(i) == CASE i < 20 -> <<23170, 31129>> [] i \in 20..39 -> <<28377, 60321>>
                       [] i \in 40..59 -> <<36635, 48348>> [] OTHER -> <<51810, 49622>>

\* The words of the block are kept in a ring of 16 and replaced as they are used.
Sha1B(data, i) ==
  LET at(k) == data[((i + k) % 16) + 1] IN Rotl32(XorW(XorW(at(13), at(8)), XorW(at(2), at(0))), 1)
\* The five words of the state are not moved; the places they are taken from are.
Sha1F(x, y, z, i) ==
  CASE i < 20 -> XorW(AndW(x, XorW(y, z)), z)
    [] i \in 20..39 -> XorW(XorW(x, y), z)
    [] i \in 40..59 -> OrW(AndW(OrW(x, y), z), AndW(x, y))
    [] OTHER -> XorW(XorW(x, y), z)
Sha1R(d, i, w) ==
  LET at(k) == ((i + k) % 5) + 1 IN
  [d EXCEPT ![at(0)] = AddW(AddW(AddW(@, Sha1F(d[at(3)], d[at(2)], d[at(1)], i)), AddW(w, Constant(i))), Rotl32(d[at(4)], 5)),
            ![at(3)] = Rotl32(@, 30)]
LOCAL Scheduled(data, i) == IF i < 16 THEN data ELSE [data EXCEPT ![(i % 16) + 1] = Sha1B(data, i)]
LOCAL Round(p, data) == [p EXCEPT !.i = @ + 1, !.data = data, !.d = Sha1R(@, p.i, data[(p.i % 16) + 1])]
LOCAL Sum(st, d) == <<>> \o [k \in 1..5 |-> AddW(st[k], d[k])]
\* A block in progress: p.i rounds are done.
Sha1Block(st, data) == [st |-> st, d |-> st, data |-> data, i |-> 0]
\* Mutant: the words of the block serve for one round more.
Sha1Process_Late(p) ==
  IF p.i < 80 THEN Round(p, IF p.i = 16 THEN p.data ELSE Scheduled(p.data, p.i)) ELSE [p EXCEPT !.st = Sum(@, p.d), !.i = 81]
Sha1Process(p) ==
  IF p.i < 80 THEN Round(p, Scheduled(p.data, p.i)) ELSE [p EXCEPT !.st = Sum(@, p.d), !.i = 81]
Sha1Reset == <<<<50130, 57840>>, <<4146, 21622>>, <<39098, 56574>>, <<61389, 43913>>, <<26437, 8961>>>>

\* The rounds as FIPS 180 has them: eighty words, and five variables that move.
LOCAL FipsWord(w, t) ==
  IF t < 16 THEN w[t + 1] ELSE Rotl32(XorW(XorW(w[t - 2], w[t - 7]), XorW(w[t - 13], w[t - 15])), 1)
LOCAL FipsF(t, b, c, d) ==
  CASE t < 20 -> XorW(AndW(b, c), AndW(NotW(b), d))
    [] t \in 40..59 -> XorW(XorW(AndW(b, c), AndW(b, d)), AndW(c, d))
    [] OTHER -> XorW(XorW(b, c), d)
LOCAL FipsStep(v, t, w) ==
  <<AddW(AddW(AddW(Rotl32(v[1], 5), FipsF(t, v[2], v[3], v[4])), v[5]), AddW(Constant(t), w)), v[1], Rotl32(v[2], 30), v[3], v[4]>>
LOCAL FipsRound(p, w) == [p EXCEPT !.i = @ + 1, !.w = IF p.i < 16 THEN @ ELSE Append(@, w), !.v = FipsStep(@, p.i, w)]
FipsBlock(h, data) == [h |-> h, v |-> h, w |-> data, i |-> 0]
FipsProcess(p) == IF p.i < 80 THEN FipsRound(p, FipsWord(p.w, p.i)) ELSE [p EXCEPT !.h = Sum(@, p.v), !.i = 81]

-----------------------------------------------------------------------------
(* The rounds of MD5 *)

LOCAL Md5Constants == <<
    <<55146, 42104>>, <<59591, 46934>>, <<9248, 28891>>, <<49597, 52974>>, <<62844, 4015>>, <<18311, 50730>>, <<43056, 17939>>, <<64838, 38145>>,
    <<27008, 39128>>, <<35652, 63407>>, <<65535, 23473>>, <<35164, 55230>>, <<27536, 4386>>, <<64920, 29075>>, <<42617, 17294>>, <<18868, 2081>>,
    <<63006, 9570>>, <<49216, 45888>>, <<9822, 23121>>, <<59830, 51114>>, <<54831, 4189>>, <<580, 5203>>, <<55457, 59009>>, <<59347, 64456>>,
    <<8673, 52710>>, <<49975, 2006>>, <<62677, 3463>>, <<17754, 5357>>, <<43491, 59653>>, <<64751, 41976>>, <<26479, 729>>, <<36138, 19594>>,
    <<65530, 14658>>, <<34673, 63105>>, <<28061, 24866>>, <<64997, 14348>>, <<42174, 59972>>, <<19422, 53161>>, <<63163, 19296>>, <<48831, 48240>>,
    <<10395, 32454>>, <<60065, 10234>>, <<54511, 12421>>, <<1160, 7429>>, <<55764, 53305>>, <<59099, 39397>>, <<8098, 31992>>, <<50348, 22117>>,
    <<62505, 8772>>, <<17194, 65431>>, <<43924, 9127>>, <<64659, 41017>>, <<25947, 22979>>, <<36620, 52370>>, <<65519, 62589>>, <<34180, 24017>>,
    <<28584, 32335>>, <<65068, 59104>>, <<41729, 17172>>, <<19976, 4513>>, <<63315, 32386>>, <<48442, 62005>>, <<10967, 53947>>, <<60294, 54161>>>>
\* Mutant: every pass takes the words in order.
MD5Word_InOrder(i) == i % 16
\* The word of the block that each step takes, pass by pass.
MD5Word(i) == <<
    0, 1, 2, 3, 4, 5, 6, 7, 8, 9, 10, 11, 12, 13, 14, 15,
    1, 6, 11, 0, 5, 10, 15, 4, 9, 14, 3, 8, 13, 2, 7, 12,
    5, 8, 11, 14, 1, 4, 7, 10, 13, 0, 3, 6, 9, 12, 15, 2,
    0, 7, 14, 5, 12, 3, 10, 1, 8, 15, 6, 13, 4, 11, 2, 9>>[i + 1]
LOCAL MD5Shift(i) == (<<<<7, 12, 17, 22>>, <<5, 9, 14, 20>>, <<4, 11, 16, 23>>, <<6, 10, 15, 21>>>>[(i \div 16) + 1])[(i % 4) + 1]
LOCAL F1(x, y, z) == XorW(z, AndW(x, XorW(y, z)))
\* F1, F2, F3 and F4
MD5F(i, x, y, z) ==
  CASE i < 16 -> F1(x, y, z) [] i \in 16..31 -> F1(z, x, y) [] i \in 32..47 -> XorW(XorW(x, y), z)
    [] OTHER -> XorW(y, OrW(x, NotW(z)))
\* MD5STEP: the four words keep their places, the roles go round.
MD5Step(d, i, word) ==
  LET w == (4 - (i % 4)) % 4
      at(k) == ((w + k) % 4) + 1
      sum == AddW(AddW(d[at(0)], MD5F(i, d[at(1)], d[at(2)], d[at(3)])), AddW(word, Md5Constants[i + 1]))
  IN  [d EXCEPT ![at(0)] = AddW(Rotl32(sum, MD5Shift(i)), d[at(1)])]
MD5Init == <<<<26437, 8961>>, <<61389, 43913>>, <<39098, 56574>>, <<4146, 21622>>>>
MD5Block(buf, in) == [buf |-> buf, d |-> buf, in |-> in, i |-> 0]
LOCAL Added(buf, d) == <<>> \o [k \in 1..4 |-> AddW(buf[k], d[k])]
MD5Transform(p) ==
  IF p.i < 64 THEN [p EXCEPT !.d = MD5Step(@, p.i, p.in[MD5Word(p.i) + 1]), !.i = @ + 1]
  ELSE [p EXCEPT !.buf = Added(@, p.d), !.i = 65]

\* The rounds as RFC 1321 has them: the variables move, and the words go by a rule.
LOCAL RfcF(i, b, c, d) ==
  CASE i < 16 -> OrW(AndW(b, c), AndW(NotW(b), d)) [] i \in 16..31 -> OrW(AndW(b, d), AndW(c, NotW(d)))
    [] i \in 32..47 -> XorW(XorW(b, c), d) [] OTHER -> XorW(c, OrW(b, NotW(d)))
LOCAL RfcWord(i) ==
  CASE i < 16 -> i [] i \in 16..31 -> (5 * i + 1) % 16 [] i \in 32..47 -> (3 * i + 5) % 16 [] OTHER -> (7 * i) % 16
LOCAL RfcSum(v, i, word) == AddW(AddW(v[1], RfcF(i, v[2], v[3], v[4])), AddW(word, Md5Constants[i + 1]))
LOCAL RfcStep(v, i, word) == <<v[4], AddW(v[2], Rotl32(RfcSum(v, i, word), MD5Shift(i))), v[2], v[3]>>
RfcTransform(p) ==
  IF p.i < 64 THEN [p EXCEPT !.d = RfcStep(@, p.i, p.in[RfcWord(p.i) + 1]), !.i = @ + 1]
  ELSE [p EXCEPT !.buf = Added(@, p.d), !.i = 65]

-----------------------------------------------------------------------------
(* Cutting and padding: done is the list of blocks that were processed *)

Digest == [count |-> 0, carry |-> 0, buf |-> [k \in 0..(BlockBytes - 1) |-> 0], done |-> <<>>]
LOCAL Put(c, at, bytes) == [c EXCEPT !.buf = [k \in DOMAIN @ |-> IF k >= at /\ k < at + Len(bytes) THEN bytes[k - at + 1] ELSE @[k]]]
LOCAL Processed(c) == [c EXCEPT !.done = Append(@, c.buf)]

RECURSIVE WholeBlocks(_, _)
WholeBlocks(c, data) ==
  IF Len(data) >= BlockBytes
  THEN WholeBlocks(Processed(Put(c, 0, SubSeq(data, 1, BlockBytes))), SubSeq(data, BlockBytes + 1, Len(data)))
  ELSE Put(c, 0, data)

\* Mutant: the bytes that completed the first block are taken again.
Sha1Append_Again(c, data) ==
  LET residual == (c.count \div 8) % BlockBytes
      counted  == [c EXCEPT !.count = @ + 8 * Len(data)]
  IN  IF Len(data) < BlockBytes - residual THEN Put(counted, residual, data)
      ELSE IF residual = 0 THEN WholeBlocks(counted, data)
      ELSE WholeBlocks(Processed(Put(counted, residual, SubSeq(data, 1, BlockBytes - residual))), data)
Sha1Append(c, data) ==
  LET residual == (c.count \div 8) % BlockBytes
      counted  == [c EXCEPT !.count = @ + 8 * Len(data)]
  IN  IF Len(data) < BlockBytes - residual THEN Put(counted, residual, data)
      ELSE IF residual = 0 THEN WholeBlocks(counted, data)
      ELSE WholeBlocks(Processed(Put(counted, residual, SubSeq(data, 1, BlockBytes - residual))),
                       SubSeq(data, BlockBytes - residual + 1, Len(data)))

LOCAL Pad(n) == [k \in 1..n |-> IF k = 1 THEN 128 ELSE 0]
ByteOf(v, k) == IF k > 3 THEN 0 ELSE (v \div 256^k) % 256
Sha1Finish(c) ==
  Sha1Append(Sha1Append(c, Pad(BlockBytes - ((c.count \div 8 + 8) % BlockBytes))), [i \in 1..8 |-> ByteOf(c.count, 8 - i)])

\* MD5 counts bytes in two counters.
MD5Update(c, data) ==
  LET low     == (c.count + Len(data)) % 2^CounterBits
      counted == [c EXCEPT !.count = low, !.carry = IF low < c.count THEN @ + 1 ELSE @]
      t       == BlockBytes - (c.count % BlockBytes)
  IN  IF t > Len(data) THEN Put(counted, BlockBytes - t, data)
      ELSE WholeBlocks(Processed(Put(counted, BlockBytes - t, SubSeq(data, 1, t))), SubSeq(data, t + 1, Len(data)))

LOCAL ZeroFrom(c, at, n) == Put(c, at, [k \in 1..n |-> 0])
LOCAL LengthWords(c) ==
  <<(c.count * 8) % 2^CounterBits, ((c.carry * 8) % 2^CounterBits) + c.count \div 2^(CounterBits - 3)>>
\* The last block has the two words of the length behind its first 56 bytes.
LOCAL Closed(c) == [c EXCEPT !.done = Append(@, [bytes |-> [k \in 0..55 |-> c.buf[k]], length |-> LengthWords(c)])]
MD5Final(c) ==
  LET count  == c.count % BlockBytes
      marked == Put(c, count, <<128>>)
  IN  IF count > 55 THEN Closed(ZeroFrom(Processed(ZeroFrom(marked, count + 1, 63 - count)), 0, 56))
      ELSE Closed(ZeroFrom(marked, count + 1, 55 - count))

\* A message fed in pieces.
InPieces(Feed(_, _), pieces) ==
  LET c[k \in 0..Len(pieces)] == IF k = 0 THEN Digest ELSE Feed(c[k - 1], pieces[k]) IN c[Len(pieces)]

-----------------------------------------------------------------------------
(* Check values *)

LOCAL Shifted(crc) == IF crc >= 32768 THEN Xor16((crc * 2) % 65536, 4129) ELSE crc * 2
\* s_table: the polynomial x^16 + x^12 + x^5 + 1.
Crc16Table == [b \in 0..255 |-> LET s[k \in 0..8] == IF k = 0 THEN b * 256 ELSE Shifted(s[k - 1]) IN s[8]]
LOCAL Crc16Byte(crc, byte) == Xor16((crc * 256) % 65536, Crc16Table[Xor16(crc \div 256, byte)])
\* Mutant: the table is indexed with the low byte.
Crc16Append_Low(crc, data) ==
  LET c[k \in 0..Len(data)] == IF k = 0 THEN crc ELSE Xor16((c[k - 1] * 256) % 65536, Crc16Table[Xor16(c[k - 1] % 256, data[k])])
  IN  c[Len(data)]
Crc16Append(crc, data) ==
  LET c[k \in 0..Len(data)] == IF k = 0 THEN crc ELSE Crc16Byte(c[k - 1], data[k]) IN c[Len(data)]

-----------------------------------------------------------------------------
(* Text *)

LOCAL Digits == <<"0", "1", "2", "3", "4", "5", "6", "7", "8", "9", "a", "b", "c", "d", "e", "f">>
LOCAL Capitals == <<"A", "B", "C", "D", "E", "F">>
\* Mutant: capitals are not digits.
CharToHex_Lower(c) == IF \E d \in 0..15 : Digits[d + 1] = c THEN CHOOSE d \in 0..15 : Digits[d + 1] = c ELSE -1
CharToHex(c) == IF \E d \in 0..15 : Digits[d + 1] = c THEN CHOOSE d \in 0..15 : Digits[d + 1] = c
                ELSE IF \E d \in 1..6 : Capitals[d] = c THEN 9 + (CHOOSE d \in 1..6 : Capitals[d] = c) ELSE -1

AsString(raw) == [k \in 1..(2 * Len(raw)) |-> Digits[1 + (IF k % 2 = 1 THEN raw[(k + 1) \div 2] \div 16 ELSE raw[k \div 2] % 16)]]

\* What is left in the hash after a digit that is none: the bytes before it, zeros behind.
FromString(size, s) ==
  LET bad(k) == CharToHex(s[2 * k - 1]) = -1 \/ CharToHex(s[2 * k]) = -1 IN
  IF Len(s) < 2 * size THEN [ok |-> FALSE, raw |-> [k \in 1..size |-> 0]]
  ELSE [ok |-> \A k \in 1..size : ~bad(k),
        raw |-> [k \in 1..size |-> IF \E j \in 1..k : bad(j) THEN 0 ELSE CharToHex(s[2 * k - 1]) * 16 + CharToHex(s[2 * k])]]

\* The check values are one number; a digit that is none leaves those before it.
NumberFromString(size, s) ==
  LET good == {k \in 0..(2 * size) : \A j \in 1..k : CharToHex(s[j]) # -1}
      n    == CHOOSE k \in good : \A j \in good : j <= k
      v[k \in 0..n] == IF k = 0 THEN 0 ELSE v[k - 1] * 16 + CharToHex(s[k])
  IN  IF Len(s) < 2 * size THEN [ok |-> FALSE, raw |-> 0] ELSE [ok |-> n = 2 * size, raw |-> v[n]]
=============================================================================
