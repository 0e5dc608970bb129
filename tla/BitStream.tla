----------------------------- MODULE BitStream -----------------------------
(***************************************************************************)
(* bitstream_in and bitstream_out (lib/util/bitstream.h): bits go through  *)
(* a 32-bit accumulator to and from a buffer of bytes.                     *)
(*                                                                         *)
(* Data and values are sequences of bits, first bit first.  m_buffer is    *)
(* the sequence of its m_bits valid bits.                                  *)
(***************************************************************************)
LOCAL INSTANCE Integers
LOCAL INSTANCE Sequences

Acc == 32    \* bits in m_buffer
Byte == 8

Zeros(n) == [k \in 1..n |-> 0]
ToBits(v, n) == [k \in 1..n |-> (v \div 2^(n - k)) % 2]
FromBits(b) ==
  LET f[k \in 0..Len(b)] == IF k = 0 THEN 0 ELSE 2 * f[k - 1] + b[k] IN f[Len(b)]
Fold(op(_, _), base, seq) ==
  LET f[k \in 0..Len(seq)] == IF k = 0 THEN base ELSE op(f[k - 1], seq[k]) IN f[Len(seq)]
\* A loop: n steps from base.  A step that has nothing left to do changes nothing.
Iterate(step(_), base, n) ==
  LET f[k \in 0..n] == IF k = 0 THEN base ELSE step(f[k - 1]) IN f[n]
Least(m, n) == IF m < n THEN m ELSE n

-----------------------------------------------------------------------------
(* bitstream_out *)

\* data is all that was ever output; only the first dlength bytes reach the buffer.
BitstreamOut(dlength) == [buffer |-> <<>>, data |-> <<>>, dlength |-> dlength]

OutOverflow(o) == Len(o.data) > o.dlength * Byte
Output(o) == SubSeq(o.data, 1, Least(Len(o.data), o.dlength * Byte))

Drain(o) == LET n == (Len(o.buffer) \div Byte) * Byte IN
                  [o EXCEPT !.data = @ \o SubSeq(o.buffer, 1, n),
                            !.buffer = SubSeq(@, n + 1, Len(@))]

\* Empty the accumulator of whole bytes whenever the new bits would fill it, and
\* take as many of them as it then holds.
Room(m, n) == IF m + n >= Acc THEN Least(Acc - m, n) ELSE 0
Pour(s) ==
  LET rem == Room(Len(s.out.buffer) % Byte, Len(s.bits)) IN
  IF s.bits = <<>> \/ Len(s.out.buffer) + Len(s.bits) < Acc THEN s
  ELSE [out |-> [Drain(s.out) EXCEPT !.buffer = @ \o SubSeq(s.bits, 1, rem)],
        bits |-> SubSeq(s.bits, rem + 1, Len(s.bits))]
WriteBits(o, bits) ==
  LET poured == Iterate(Pour, [out |-> o, bits |-> bits], Len(bits) \div (Acc - Byte) + 2) IN
  [poured.out EXCEPT !.buffer = @ \o poured.bits]

Write(o, v, n) == WriteBits(o, ToBits(v, n))

\* Mutant: drop the bits of an unfinished byte.
FlushOut_Truncates(o) == [o EXCEPT !.data = Drain(o).data, !.buffer = <<>>]

\* The last byte is filled up with zeros.
FlushOut(o) == [o EXCEPT !.data = @ \o o.buffer \o Zeros((Byte - (Len(o.buffer) % Byte)) % Byte),
                         !.buffer = <<>>]

-----------------------------------------------------------------------------
(* bitstream_in *)

BitstreamIn(data) ==
  [buffer |-> <<>>, doffset |-> 0, dbitoffs |-> 0, data |-> data, dlength |-> Len(data) \div Byte]

\* The byte at m_doffset with the bits already taken shifted out; zeros past the end.
NewBits(i) ==
  IF i.doffset < i.dlength
  THEN SubSeq(i.data, i.doffset * Byte + 1 + i.dbitoffs, (i.doffset + 1) * Byte) \o Zeros(i.dbitoffs)
  ELSE Zeros(Byte)

\* Fill the accumulator to 32 bits; the last byte may go in only in part.
FetchByte(i) ==
  LET m == Len(i.buffer)
      part == m + Byte > Acc
  IN  IF m >= Acc THEN i
      ELSE [i EXCEPT !.dbitoffs = IF part THEN Acc - m ELSE 0,
                     !.doffset = IF part THEN @ ELSE @ + 1,
                     !.buffer = @ \o SubSeq(NewBits(i), 1, IF part THEN Acc - m ELSE Byte - i.dbitoffs)]
Fetch(i) == Iterate(FetchByte, i, Acc \div Byte + 1)

\* peek, as the stream it leaves; the bits peeked are the first ones of its buffer.
Peeked(i, n) == IF n > Len(i.buffer) THEN Fetch(i) ELSE i
RemoveBits(i, n) == [i EXCEPT !.buffer = SubSeq(@, n + 1, Len(@))]

\* read: the value and the stream after it.
Taken(p, n) == <<FromBits(SubSeq(p.buffer, 1, n)), RemoveBits(p, n)>>
Read(i, n) == Taken(Peeked(i, n), n)

InOverflow(i) == i.doffset - (Len(i.buffer) \div Byte) > i.dlength

ReadOffset(i) == i.doffset - (Len(i.buffer) \div Byte)
                 + (IF i.dbitoffs > (Len(i.buffer) % Byte) THEN 1 ELSE 0)

\* Back to the nearest byte.
FlushIn(i) == [i EXCEPT !.doffset = ReadOffset(i), !.buffer = <<>>, !.dbitoffs = 0]
=============================================================================
