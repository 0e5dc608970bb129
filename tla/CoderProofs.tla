---------------------------- MODULE CoderProofs ----------------------------
(***************************************************************************)
(* Theorems about the coders that ChdFile's maps go through: bits that are *)
(* written are read back, and so are codes, of any tree that a histogram   *)
(* gives.                                                                  *)
(***************************************************************************)
EXTENDS V5Map, FiniteSetTheorems, FunctionTheorems, SequenceTheorems, WellFoundedInduction, TLAPS

Bits == {0, 1}
Words == Seq(Bits)

-----------------------------------------------------------------------------
(* Loops *)

\* A set of numbers that is not empty has a least one.
LEMMA LeastNumber ==
  ASSUME NEW T \in SUBSET Nat, T # {}
  PROVE  \E k \in T : \A j \in T : k <= j
<1> DEFINE less == {p \in Nat \X Nat : p[1] < p[2]}
<1>1. OpToRel(<, Nat) = less
  BY Zenon DEF OpToRel
<1>2. IsWellFoundedOn(less, Nat)
  BY <1>1, NatLessThanWellFounded, Zenon
<1> HIDE DEF less
<1>3. PICK k \in T : \A j \in T : ~(<<j, k>> \in less)
  BY <1>2, WFMin
<1>4. ASSUME NEW j \in T PROVE k <= j
  <2>1. j \in Nat /\ k \in Nat /\ <<j, k>> \notin less
    BY <1>3
  <2>2. ~(j < k)
    <3>1. <<j, k>> \in Nat \X Nat /\ <<j, k>>[1] = j /\ <<j, k>>[2] = k
      BY <2>1
    <3> QED
      BY <2>1, <3>1 DEF less
  <2> QED
    BY <2>1, <2>2
<1> QED
  BY <1>4

\* Everything true of 0 and of the next number is true of all of them.
LEMMA Counting ==
  ASSUME NEW T \in SUBSET Nat, 0 \in T, \A k \in T : k + 1 \in T
  PROVE  T = Nat
<1>1. ASSUME T # Nat PROVE FALSE
  <2>1. PICK k \in Nat \ T : \A j \in Nat \ T : k <= j
    BY <1>1, LeastNumber
  <2>2. k # 0 /\ k - 1 \in Nat /\ (k - 1) + 1 = k
    BY <2>1
  <2>3. k - 1 \in T
    BY <2>1, <2>2
  <2> QED
    BY <2>1, <2>2, <2>3
<1> QED
  BY <1>1

\* A loop whose step keeps to a set of states goes through such states.
Ran(V, g, b, n, f) == f \in [0..n -> V] /\ f[0] = b /\ \A k \in 1..n : f[k] = g[<<k, f[k - 1]>>]
LEMMA Recursion ==
  ASSUME NEW V, NEW g \in [Nat \X V -> V], NEW b \in V, NEW n \in Nat
  PROVE  \E f : Ran(V, g, b, n, f)
<1> DEFINE Upto(m) == \E f \in [0..m -> V] : f[0] = b /\ \A k \in 1..m : f[k] = g[<<k, f[k - 1]>>]
           T == {m \in Nat : Upto(m)}
<1>1. 0 \in T
  <2>1. [k \in 0..0 |-> b] \in [0..0 -> V] /\ [k \in 0..0 |-> b][0] = b /\ 1..0 = {}
    OBVIOUS
  <2>2. Upto(0)
    BY <2>1
  <2> QED
    BY <2>2
<1>2. ASSUME NEW m \in T PROVE m + 1 \in T
  <2>1. PICK f \in [0..m -> V] : f[0] = b /\ \A k \in 1..m : f[k] = g[<<k, f[k - 1]>>]
    OBVIOUS
  <2> DEFINE h == [k \in 0..(m + 1) |-> IF k <= m THEN f[k] ELSE g[<<m + 1, f[m]>>]]
  <2>2. m \in Nat /\ m \in 0..m
    OBVIOUS
  <2>3. g[<<m + 1, f[m]>>] \in V
    BY <2>2
  <2>4. h \in [0..(m + 1) -> V] /\ h[0] = b
    <3>1. \A k \in 0..(m + 1) : (IF k <= m THEN f[k] ELSE g[<<m + 1, f[m]>>]) \in V
      BY <2>1, <2>2, <2>3
    <3>2. 0 \in 0..(m + 1) /\ 0 <= m
      BY <2>2
    <3> QED
      BY <2>1, <3>1, <3>2
  <2>5. ASSUME NEW k \in 1..(m + 1) PROVE h[k] = g[<<k, h[k - 1]>>]
    <3>1. h[k - 1] = f[k - 1]
      BY <2>2
    <3>2. CASE k <= m
      BY <2>1, <2>2, <3>1, <3>2
    <3>3. CASE k = m + 1
      <4>1. k - 1 = m /\ ~(k <= m) /\ k \in 0..(m + 1)
        BY <2>2, <3>3
      <4>2. h[k] = g[<<m + 1, f[m]>>]
        BY <4>1
      <4> HIDE DEF h
      <4> QED
        BY <3>1, <3>3, <4>1, <4>2
    <3> QED
      BY <2>2, <3>2, <3>3
  <2>6. Upto(m + 1)
    BY <2>4, <2>5
  <2> QED
    BY <2>2, <2>6
<1>3. T = Nat
  <2> HIDE DEF T
  <2>1. T \in SUBSET Nat
    BY DEF T
  <2> QED
    BY <1>1, <1>2, <2>1, Counting
<1> QED
  BY <1>3 DEF Ran

-----------------------------------------------------------------------------
(* Words of bits *)

LEMMA WordLen ==
  ASSUME NEW s \in Words
  PROVE  Len(s) \in Nat /\ DOMAIN s = 1..Len(s) /\ \A k \in 1..Len(s) : s[k] \in Bits
BY DEF Words

LEMMA NoBits == <<>> \in Words /\ Len(<<>>) = 0 /\ \A s \in Words : Len(s) = 0 => s = <<>>
<1>1. \A s \in Words : s # <<>> => Len(s) \in Nat \ {0}
  BY EmptySeq DEF Words
<1> QED
  BY <1>1, EmptySeq DEF Words

LEMMA Joined ==
  ASSUME NEW s \in Words, NEW t \in Words
  PROVE  /\ s \o t \in Words /\ Len(s \o t) = Len(s) + Len(t)
         /\ \A k \in 1..Len(s) : (s \o t)[k] = s[k]
         /\ \A k \in 1..Len(t) : (s \o t)[Len(s) + k] = t[k]
<1>1. Len(s) \in Nat /\ Len(t) \in Nat
  BY WordLen
<1>2. /\ s \o t \in Seq(Bits) /\ Len(s \o t) = Len(s) + Len(t)
      /\ \A i \in 1..(Len(s) + Len(t)) : (s \o t)[i] = IF i <= Len(s) THEN s[i] ELSE t[i - Len(s)]
  BY ConcatProperties DEF Words
<1>3. \A k \in 1..Len(s) : (s \o t)[k] = s[k]
  BY <1>1, <1>2
<1>4. ASSUME NEW k \in 1..Len(t) PROVE (s \o t)[Len(s) + k] = t[k]
  <2>1. Len(s) + k \in 1..(Len(s) + Len(t)) /\ ~(Len(s) + k <= Len(s)) /\ (Len(s) + k) - Len(s) = k
    BY <1>1
  <2> QED
    BY <1>2, <2>1
<1> QED
  BY <1>2, <1>3, <1>4 DEF Words

Associates(s, t, u) == (s \o t) \o u = s \o (t \o u)
LEMMA JoinedTwice ==
  ASSUME NEW s \in Words, NEW t \in Words, NEW u \in Words
  PROVE  Associates(s, t, u)
BY ConcatAssociative DEF Words, Associates

LEMMA JoinedNothing ==
  ASSUME NEW s \in Words
  PROVE  s \o <<>> = s /\ <<>> \o s = s
BY ConcatEmptySeq DEF Words

\* The first n bits, and the others.
LEMMA Divided ==
  ASSUME NEW s \in Words, NEW n \in Nat, n <= Len(s)
  PROVE  /\ SubSeq(s, 1, n) \in Words /\ Len(SubSeq(s, 1, n)) = n
         /\ SubSeq(s, n + 1, Len(s)) \in Words /\ Len(SubSeq(s, n + 1, Len(s))) = Len(s) - n
         /\ SubSeq(s, 1, n) \o SubSeq(s, n + 1, Len(s)) = s
         /\ \A k \in 1..n : SubSeq(s, 1, n)[k] = s[k]
         /\ \A k \in 1..(Len(s) - n) : SubSeq(s, n + 1, Len(s))[k] = s[n + k]
<1> DEFINE L == Len(s)
<1>1. L \in Nat /\ n <= L /\ \A k \in 1..L : s[k] \in Bits
  BY WordLen
<1> HIDE DEF L
<1>2. /\ SubSeq(s, 1, n) \in Seq(Bits) /\ Len(SubSeq(s, 1, n)) = (IF 1 <= n THEN n - 1 + 1 ELSE 0)
      /\ \A i \in 1..(n - 1 + 1) : SubSeq(s, 1, n)[i] = s[1 + i - 1]
  <2>1. \A i \in 1..n : s[i] \in Bits
    BY <1>1
  <2> QED
    BY <2>1, SubSeqProperties
<1>3. /\ SubSeq(s, n + 1, L) \in Seq(Bits) /\ Len(SubSeq(s, n + 1, L)) = (IF n + 1 <= L THEN L - (n + 1) + 1 ELSE 0)
      /\ \A i \in 1..(L - (n + 1) + 1) : SubSeq(s, n + 1, L)[i] = s[(n + 1) + i - 1]
  <2>1. \A i \in (n + 1)..L : s[i] \in Bits
    BY <1>1
  <2>2. n + 1 \in Int /\ L \in Int
    BY <1>1
  <2> QED
    BY <2>1, <2>2, SubSeqProperties
<1>4. SubSeq(s, 1, n) \o SubSeq(s, n + 1, L) = s
  <2>1. 1 \in 1..(Len(s) + 1) /\ n \in (1 - 1)..Len(s) /\ Len(s) \in n..Len(s) /\ s \in Seq(Bits)
    BY <1>1 DEF L, Words
  <2>2. SubSeq(s, 1, n) \o SubSeq(s, n + 1, Len(s)) = SubSeq(s, 1, Len(s))
    BY <2>1, ConcatAdjacentSubSeq
  <2>3. SubSeq(s, 1, Len(s)) = s
    BY <2>1, SubSeqFull
  <2> QED
    BY <2>2, <2>3 DEF L
<1>5. Len(SubSeq(s, 1, n)) = n /\ \A k \in 1..n : SubSeq(s, 1, n)[k] = s[k]
  BY <1>2
<1>6. Len(SubSeq(s, n + 1, L)) = L - n
  BY <1>1, <1>3
<1>7. ASSUME NEW k \in 1..(L - n) PROVE SubSeq(s, n + 1, L)[k] = s[n + k]
  <2>1. k \in 1..(L - (n + 1) + 1) /\ (n + 1) + k - 1 = n + k
    BY <1>1
  <2> QED
    BY <1>3, <2>1
<1> QED
  BY <1>2, <1>3, <1>4, <1>5, <1>6, <1>7 DEF L, Words

-----------------------------------------------------------------------------
(* Bits that are written *)

OutStreams == [buffer : Words, data : Words, dlength : Nat]
GoodOut == {o \in OutStreams : Len(o.buffer) <= 32 /\ Len(o.data) % 8 = 0}
BitsOf(o) == o.data \o o.buffer

OutParts(o) ==
  /\ o.buffer \in Words /\ o.data \in Words /\ o.dlength \in Nat
  /\ Len(o.buffer) \in Nat /\ Len(o.buffer) <= 32 /\ Len(o.data) \in Nat /\ Len(o.data) % 8 = 0
LEMMA GoodOutParts ==
  ASSUME NEW o \in GoodOut
  PROVE  OutParts(o)
<1>1. o.buffer \in Words /\ o.data \in Words /\ o \in OutStreams
  BY DEF GoodOut, OutStreams
<1>2. Len(o.buffer) \in Nat /\ Len(o.data) \in Nat
  BY <1>1, WordLen
<1> QED
  BY <1>1, <1>2 DEF GoodOut, OutStreams, OutParts

\* A stream from its parts.
LEMMA OutOf ==
  ASSUME NEW b \in Words, NEW d \in Words, NEW l \in Nat, Len(b) <= 32, Len(d) % 8 = 0
  PROVE  [buffer |-> b, data |-> d, dlength |-> l] \in GoodOut
BY DEF GoodOut, OutStreams

LEMMA OutChanged ==
  ASSUME NEW o \in GoodOut, NEW b, NEW d
  PROVE  /\ [o EXCEPT !.data = d, !.buffer = b] = [buffer |-> b, data |-> d, dlength |-> o.dlength]
         /\ [o EXCEPT !.buffer = b] = [buffer |-> b, data |-> o.data, dlength |-> o.dlength]
<1>1. o \in OutStreams
  BY DEF GoodOut
<1>2. o = [buffer |-> o.buffer, data |-> o.data, dlength |-> o.dlength]
  BY <1>1 DEF OutStreams
<1>3. [o EXCEPT !.buffer = b] = [buffer |-> b, data |-> o.data, dlength |-> o.dlength]
  BY <1>2
<1> DEFINE p == [o EXCEPT !.data = d]
<1>4. [p EXCEPT !.buffer = b] = [buffer |-> b, data |-> d, dlength |-> o.dlength]
  <2>1. p = [buffer |-> o.buffer, data |-> d, dlength |-> o.dlength]
    BY <1>2
  <2> HIDE DEF p
  <2>2. p.buffer = o.buffer /\ p.data = d /\ p.dlength = o.dlength
    BY <2>1
  <2> QED
    BY <2>1, <2>2
<1> QED
  BY <1>3, <1>4

LEMMA Eights ==
  \A x \in Nat : /\ (x \div 8) * 8 \in Nat /\ (x \div 8) * 8 <= x /\ ((x \div 8) * 8) % 8 = 0
                 /\ x - (x \div 8) * 8 = x % 8 /\ x % 8 \in Nat /\ x % 8 < 8 /\ x % 8 <= x
OBVIOUS

\* Whole bytes leave the accumulator.
Drained(o) ==
  /\ Drain(o) \in GoodOut /\ BitsOf(Drain(o)) = BitsOf(o) /\ Drain(o).dlength = o.dlength
  /\ Len(Drain(o).buffer) = Len(o.buffer) % 8
LEMMA DrainKeeps ==
  ASSUME NEW o \in GoodOut
  PROVE  Drained(o)
<1> DEFINE L == Len(o.buffer)
           n == (L \div 8) * 8
           b == SubSeq(o.buffer, 1, n)
           c == SubSeq(o.buffer, n + 1, L)
<1>0. OutParts(o)
  BY GoodOutParts
<1>1. L \in Nat /\ n \in Nat /\ n <= L /\ n % 8 = 0 /\ L - n = L % 8 /\ L - n <= 32
  <2>1. L \in Nat /\ L <= 32
    BY <1>0 DEF OutParts
  <2>2. n \in Nat /\ n <= L /\ n % 8 = 0 /\ L - n = L % 8 /\ L % 8 <= L
    BY <2>1, Eights, Zenon
  <2> HIDE DEF n, L
  <2> QED
    BY <2>1, <2>2
<1>2. Drain(o) = [buffer |-> c, data |-> o.data \o b, dlength |-> o.dlength]
  <2>1. Drain(o) = [o EXCEPT !.data = o.data \o b, !.buffer = c]
    BY DEF Drain, Byte
  <2> QED
    BY <2>1, OutChanged, Zenon
<1>3. b \in Words /\ c \in Words /\ Len(b) = n /\ Len(c) = L - n /\ b \o c = o.buffer
  <2>1. o.buffer \in Words
    BY <1>0 DEF OutParts
  <2> QED
    BY <1>1, <2>1, Divided
<1> HIDE DEF n, b, c
<1>d. o.data \in Words
  BY <1>0 DEF OutParts
<1>4. (o.data \o b) \o c = o.data \o o.buffer
  <2>1. Associates(o.data, b, c)
    BY <1>d, <1>3, JoinedTwice
  <2> QED
    BY <1>3, <2>1, Zenon DEF Associates
<1>5. o.data \o b \in Words /\ Len(o.data \o b) = Len(o.data) + n
  BY <1>d, <1>3, Joined, Zenon
<1>6. Len(o.data \o b) % 8 = 0 /\ Len(c) <= 32
  <2>1. Len(o.data) \in Nat /\ Len(o.data) % 8 = 0
    BY <1>0 DEF OutParts
  <2>2. \A x, y \in Nat : x % 8 = 0 /\ y % 8 = 0 => (x + y) % 8 = 0
    OBVIOUS
  <2>3. Len(o.data \o b) % 8 = 0
    BY <1>1, <1>5, <2>1, <2>2, Zenon
  <2>4. Len(c) <= 32
    BY <1>1, <1>3, Zenon
  <2> QED
    BY <2>3, <2>4
<1>7. Drain(o) \in GoodOut
  <2>1. o.dlength \in Nat
    BY <1>0 DEF OutParts
  <2> QED
    BY <1>2, <1>3, <1>5, <1>6, <2>1, OutOf, Zenon
<1> DEFINE r == [buffer |-> c, data |-> o.data \o b, dlength |-> o.dlength]
<1>8. r.buffer = c /\ r.data = o.data \o b /\ r.dlength = o.dlength
  OBVIOUS
<1>9. Drain(o) = r
  BY <1>2
<1> HIDE DEF r, L
<1> QED
  BY <1>1, <1>3, <1>4, <1>7, <1>8, <1>9, Zenon DEF Drained, BitsOf, L

PourStates == [out : GoodOut, bits : Words]
Poured(s) == s.bits = <<>> \/ Len(s.out.buffer) + Len(s.bits) < 32

\* How much of n bits goes in behind m.
LEMMA RoomLeft ==
  ASSUME NEW m \in Nat, m < 8, NEW n \in Nat
  PROVE  /\ Room(m, n) \in Nat /\ Room(m, n) <= n /\ m + Room(m, n) <= 32
         /\ Room(m, n) = n \/ m + n < 32 \/ Room(m, n) >= 25
BY DEF Room, Least, Acc

\* One turn of the loop moves at least 25 bits, unless it is the last one.
PouredOnce(s) ==
  /\ Pour(s) \in PourStates
  /\ BitsOf(Pour(s).out) \o Pour(s).bits = BitsOf(s.out) \o s.bits
  /\ Pour(s).out.dlength = s.out.dlength
  /\ Poured(s) => Pour(s) = s
  /\ Poured(Pour(s)) \/ Len(Pour(s).bits) + 25 <= Len(s.bits)
LEMMA PourStep ==
  ASSUME NEW s \in PourStates
  PROVE  PouredOnce(s)
<1>1. s.out \in GoodOut /\ s.bits \in Words
  BY DEF PourStates
<1>2. OutParts(s.out) /\ Len(s.bits) \in Nat
  BY <1>1, GoodOutParts, WordLen
<1>3. CASE Poured(s)
  <2>1. Pour(s) = s
    BY <1>3, Zenon DEF Pour, Poured, Acc
  <2> QED
    BY <1>3, <2>1, Zenon DEF PouredOnce
<1>4. CASE ~Poured(s)
  <2> DEFINE d == Drain(s.out)
             m == Len(s.out.buffer) % 8
             L == Len(s.bits)
             rem == Room(m, L)
             a == SubSeq(s.bits, 1, rem)
             z == SubSeq(s.bits, rem + 1, L)
             e == [d EXCEPT !.buffer = @ \o a]
  <2>1. d \in GoodOut /\ BitsOf(d) = BitsOf(s.out) /\ d.dlength = s.out.dlength /\ Len(d.buffer) = m
    BY <1>1, DrainKeeps, Zenon DEF Drained
  <2>2. m \in Nat /\ m < 8 /\ L \in Nat
    <3>1. Len(s.out.buffer) \in Nat
      BY <1>2 DEF OutParts
    <3> QED
      BY <1>2, <3>1, Eights, Zenon
  <2>4. Pour(s) = [out |-> e, bits |-> z]
    BY <1>4, Zenon DEF Pour, Poured, Acc, Byte
  <2> HIDE DEF d, m, L
  <2>3. rem \in Nat /\ rem <= L /\ m + rem <= 32 /\ (rem = L \/ m + L < 32 \/ rem >= 25)
    BY <2>2, RoomLeft
  <2> HIDE DEF rem
  <2>5. a \in Words /\ z \in Words /\ Len(a) = rem /\ Len(z) = L - rem /\ a \o z = s.bits
    BY <1>1, <2>3, Divided DEF L
  <2>8. e = [buffer |-> d.buffer \o a, data |-> d.data, dlength |-> d.dlength]
    BY <2>1, OutChanged, Zenon
  <2> HIDE DEF a, z, e
  <2>6. OutParts(d) /\ d.buffer \in Words /\ d.data \in Words /\ d.dlength \in Nat /\ Len(d.data) % 8 = 0
    BY <2>1, GoodOutParts DEF OutParts
  <2>7. d.buffer \o a \in Words /\ Len(d.buffer \o a) = m + rem
    BY <2>1, <2>5, <2>6, Joined, Zenon
  <2>9. e \in GoodOut
    <3>1. Len(d.buffer \o a) <= 32
      BY <2>3, <2>7
    <3> QED
      BY <2>6, <2>7, <2>8, <3>1, OutOf, Zenon
  <2>14. e.buffer = d.buffer \o a /\ e.data = d.data /\ e.dlength = d.dlength
    BY <2>8
  <2>10. BitsOf(e) \o z = BitsOf(s.out) \o s.bits
    <3>1. BitsOf(e) = d.data \o (d.buffer \o a)
      BY <2>14, Zenon DEF BitsOf
    <3>2. d.data \o d.buffer \in Words
      BY <2>6, Joined
    <3>3. Associates(d.data, d.buffer, a) /\ Associates(d.data \o d.buffer, a, z)
      BY <2>5, <2>6, <3>2, JoinedTwice
    <3> QED
      BY <2>1, <2>5, <3>1, <3>3, Zenon DEF BitsOf, Associates
  <2>11. Pour(s) \in PourStates /\ Pour(s).out = e /\ Pour(s).bits = z
    BY <2>4, <2>5, <2>9 DEF PourStates
  <2>12. Poured(Pour(s)) \/ Len(z) + 25 <= L
    <3>1. Len(Pour(s).out.buffer) = m + rem
      BY <2>7, <2>11, <2>14, Zenon
    <3>2. CASE rem # L /\ m + L < 32
      <4>1. (m + rem) + (L - rem) < 32
        BY <2>2, <2>3, <3>2
      <4> QED
        BY <2>5, <2>11, <3>1, <4>1, Zenon DEF Poured
    <3>3. CASE rem # L /\ rem >= 25
      BY <2>2, <2>3, <2>5, <3>3
    <3>4. CASE rem = L
      <4>1. Len(z) = 0
        BY <2>2, <2>3, <2>5, <3>4
      <4> QED
        BY <2>5, <2>11, <4>1, NoBits, Zenon DEF Poured
    <3> QED
      BY <2>2, <2>3, <3>2, <3>3, <3>4
  <2>13. e.dlength = s.out.dlength
    BY <2>1, <2>14, Zenon
  <2> QED
    BY <1>4, <2>10, <2>11, <2>12, <2>13, Zenon DEF PouredOnce, L
<1> QED
  BY <1>3, <1>4

-----------------------------------------------------------------------------
(* write *)

\* The loop goes through states of its own.
PourRun(s, n, f) ==
  /\ f \in [0..n -> PourStates] /\ f[0] = s /\ \A k \in 1..n : f[k] = Pour(f[k - 1])
  /\ Iterate(Pour, s, n) = f[n]
LEMMA PourLoop ==
  ASSUME NEW s \in PourStates, NEW n \in Nat
  PROVE  \E f : PourRun(s, n, f)
<1> DEFINE Rec(f) == f = [k \in 0..n |-> IF k = 0 THEN s ELSE Pour(f[k - 1])]
           g == [p \in Nat \X PourStates |-> Pour(p[2])]
<1>1. \A t \in PourStates : Pour(t) \in PourStates
  BY PourStep DEF PouredOnce
<1>2. g \in [Nat \X PourStates -> PourStates]
  BY <1>1
<1>3. PICK e \in [0..n -> PourStates] : e[0] = s /\ \A k \in 1..n : e[k] = g[<<k, e[k - 1]>>]
  <2> HIDE DEF g
  <2>1. \E e : Ran(PourStates, g, s, n, e)
    BY <1>2, Recursion
  <2> QED
    BY <2>1 DEF Ran
<1>4. \A k \in 1..n : e[k] = Pour(e[k - 1])
  <2> TAKE k \in 1..n
  <2>1. k \in Nat /\ e[k - 1] \in PourStates /\ <<k, e[k - 1]>> \in Nat \X PourStates /\ <<k, e[k - 1]>>[2] = e[k - 1]
    OBVIOUS
  <2> QED
    BY <1>3, <2>1
<1>5. Rec(e)
  BY <1>3, <1>4
<1> DEFINE f == CHOOSE h : Rec(h)
<1>6. Rec(f)
  BY <1>5, Zenon
<1>7. Iterate(Pour, s, n) = f[n]
  BY Zenon DEF Iterate
<1> HIDE DEF f, g
<1>8. f[0] = s /\ \A k \in 1..n : f[k] = Pour(f[k - 1])
  BY <1>6
<1>9. \A k \in Nat : k <= n => f[k] \in PourStates
  <2> DEFINE T == {k \in Nat : k <= n => f[k] \in PourStates}
  <2>1. 0 \in T
    BY <1>8
  <2>2. ASSUME NEW k \in T PROVE k + 1 \in T
    <3>1. k + 1 <= n => k + 1 \in 1..n /\ (k + 1) - 1 = k /\ f[k] \in PourStates
      OBVIOUS
    <3> QED
      BY <1>1, <1>8, <3>1
  <2> HIDE DEF T
  <2>3. T \in SUBSET Nat
    BY DEF T
  <2>4. T = Nat
    BY <2>1, <2>2, <2>3, Counting
  <2> QED
    BY <2>4 DEF T
<1>10. f \in [0..n -> PourStates]
  BY <1>6, <1>9
<1> QED
  BY <1>7, <1>8, <1>10, Zenon DEF PourRun

\* What has been said of the bits when k turns are over.
PouredSoFar(s, t, k) ==
  /\ t \in PourStates /\ BitsOf(t.out) \o t.bits = BitsOf(s.out) \o s.bits
  /\ t.out.dlength = s.out.dlength
  /\ Poured(t) \/ Len(t.bits) + 25 * k <= Len(s.bits)

LEMMA PourTurn ==
  ASSUME NEW s \in PourStates, NEW t, NEW k \in Nat, PouredSoFar(s, t, k)
  PROVE  PouredSoFar(s, Pour(t), k + 1)
<1>1. t \in PourStates /\ PouredOnce(t)
  BY PourStep DEF PouredSoFar
<1>2. Pour(t) \in PourStates /\ BitsOf(Pour(t).out) \o Pour(t).bits = BitsOf(s.out) \o s.bits
      /\ Pour(t).out.dlength = s.out.dlength
  BY <1>1, Zenon DEF PouredSoFar, PouredOnce
<1>3. Poured(Pour(t)) \/ Len(Pour(t).bits) + 25 * (k + 1) <= Len(s.bits)
  <2>1. CASE Poured(t)
    BY <1>1, <2>1, Zenon DEF PouredOnce
  <2>2. CASE ~Poured(t)
    <3>1. Len(t.bits) + 25 * k <= Len(s.bits)
      BY <2>2, Zenon DEF PouredSoFar
    <3>2. Poured(Pour(t)) \/ Len(Pour(t).bits) + 25 <= Len(t.bits)
      BY <1>1, Zenon DEF PouredOnce
    <3>3. Len(t.bits) \in Nat /\ Len(s.bits) \in Nat /\ Len(Pour(t).bits) \in Nat
      <4>1. t.bits \in Words /\ s.bits \in Words /\ Pour(t).bits \in Words
        BY <1>1, <1>2 DEF PourStates
      <4> QED
        BY <4>1, WordLen
    <3>4. \A x, y, z, j \in Nat : y + 25 * j <= z /\ x + 25 <= y => x + 25 * (j + 1) <= z
      OBVIOUS
    <3> QED
      BY <3>1, <3>2, <3>3, <3>4, Zenon
  <2> QED
    BY <2>1, <2>2
<1> QED
  BY <1>2, <1>3, Zenon DEF PouredSoFar

LEMMA PouredOut ==
  ASSUME NEW s \in PourStates, NEW n \in Nat, 25 * n > Len(s.bits)
  PROVE  PouredSoFar(s, Iterate(Pour, s, n), n) /\ Poured(Iterate(Pour, s, n))
<1>1. PICK f : PourRun(s, n, f)
  BY PourLoop
<1> DEFINE T == {k \in Nat : k <= n => PouredSoFar(s, f[k], k)}
<1>2. s.bits \in Words /\ Len(s.bits) \in Nat
  BY WordLen DEF PourStates
<1>3. 0 \in T
  <2>1. f[0] = s /\ Len(s.bits) + 25 * 0 <= Len(s.bits)
    BY <1>1, <1>2 DEF PourRun
  <2>2. PouredSoFar(s, f[0], 0)
    BY <2>1, Zenon DEF PouredSoFar
  <2> QED
    BY <2>2
<1>4. ASSUME NEW k \in T PROVE k + 1 \in T
  <2>1. CASE k + 1 <= n
    <3>1. k \in Nat /\ k <= n /\ k + 1 \in 1..n /\ (k + 1) - 1 = k
      BY <2>1
    <3>2. PouredSoFar(s, f[k], k)
      BY <3>1
    <3>3. f[k + 1] = Pour(f[k])
      BY <1>1, <3>1 DEF PourRun
    <3>4. PouredSoFar(s, f[k + 1], k + 1)
      BY <3>1, <3>2, <3>3, PourTurn
    <3> QED
      BY <3>1, <3>4
  <2>2. CASE ~(k + 1 <= n)
    BY <2>2
  <2> QED
    BY <2>1, <2>2
<1> HIDE DEF T
<1>5. T = Nat
  <2>1. T \in SUBSET Nat
    BY DEF T
  <2> QED
    BY <1>3, <1>4, <2>1, Counting
<1>6. PouredSoFar(s, f[n], n)
  BY <1>5 DEF T
<1>7. f[n].bits \in Words /\ Len(f[n].bits) \in Nat
  BY <1>6, WordLen DEF PouredSoFar, PourStates
<1>8. ~(Len(f[n].bits) + 25 * n <= Len(s.bits))
  BY <1>2, <1>7
<1>9. Poured(f[n])
  BY <1>6, <1>8, Zenon DEF PouredSoFar
<1>10. Iterate(Pour, s, n) = f[n]
  BY <1>1, Zenon DEF PourRun
<1> QED
  BY <1>6, <1>9, <1>10, Zenon

\* The bits go behind those that were written before them.
Appended(o, bits, w) == w \in GoodOut /\ BitsOf(w) = BitsOf(o) \o bits /\ w.dlength = o.dlength
LEMMA WriteAppends ==
  ASSUME NEW o \in GoodOut, NEW bits \in Words
  PROVE  Appended(o, bits, WriteBits(o, bits))
<1> DEFINE s == [out |-> o, bits |-> bits]
           n == Len(bits) \div 24 + 2
           t == Iterate(Pour, s, n)
           w == WriteBits(o, bits)
<1>1. s \in PourStates /\ s.out = o /\ s.bits = bits
  BY DEF PourStates
<1>2. Len(bits) \in Nat /\ n \in Nat /\ 25 * n > Len(bits)
  <2>1. Len(bits) \in Nat
    BY WordLen
  <2>2. \A x \in Nat : x \div 24 + 2 \in Nat /\ 25 * (x \div 24 + 2) > x
    OBVIOUS
  <2> QED
    BY <2>1, <2>2, Zenon
<1>3. w = [t.out EXCEPT !.buffer = @ \o t.bits]
  <2>1. 32 - 8 = 24
    OBVIOUS
  <2> QED
    BY <2>1, Zenon DEF WriteBits, Acc, Byte
<1> HIDE DEF s, n, w
<1>4. PouredSoFar(s, t, n) /\ Poured(t)
  BY <1>1, <1>2, PouredOut
<1> HIDE DEF t
<1>5. t.out \in GoodOut /\ t.bits \in Words /\ BitsOf(t.out) \o t.bits = BitsOf(o) \o bits /\ t.out.dlength = o.dlength
  BY <1>1, <1>4 DEF PouredSoFar, PourStates
<1>6. OutParts(t.out) /\ t.out.buffer \in Words /\ t.out.data \in Words /\ t.out.dlength \in Nat /\ Len(t.out.data) % 8 = 0
  BY <1>5, GoodOutParts DEF OutParts
<1>7. w = [buffer |-> t.out.buffer \o t.bits, data |-> t.out.data, dlength |-> t.out.dlength]
  BY <1>3, <1>5, OutChanged, Zenon
<1>8. t.out.buffer \o t.bits \in Words /\ Len(t.out.buffer \o t.bits) = Len(t.out.buffer) + Len(t.bits)
  BY <1>5, <1>6, Joined, Zenon
<1>9. Len(t.out.buffer \o t.bits) <= 32
  <2>1. CASE t.bits = <<>>
    <3>1. Len(t.out.buffer) <= 32 /\ Len(t.out.buffer) \in Nat
      BY <1>6, Zenon DEF OutParts
    <3>2. t.out.buffer \o t.bits = t.out.buffer
      BY <1>6, <2>1, JoinedNothing
    <3> QED
      BY <3>1, <3>2, Zenon
  <2>2. CASE Len(t.out.buffer) + Len(t.bits) < 32
    <3>1. Len(t.out.buffer) \in Nat /\ Len(t.bits) \in Nat
      BY <1>5, <1>6, WordLen
    <3>2. \A x, y \in Nat : x + y < 32 => x + y <= 32
      OBVIOUS
    <3> QED
      BY <1>8, <2>2, <3>1, <3>2, Zenon
  <2> QED
    BY <1>4, <2>1, <2>2, Zenon DEF Poured
<1>10. w \in GoodOut
  BY <1>6, <1>7, <1>8, <1>9, OutOf, Zenon
<1>11. w.buffer = t.out.buffer \o t.bits /\ w.data = t.out.data /\ w.dlength = t.out.dlength
  BY <1>7
<1>12. BitsOf(w) = BitsOf(o) \o bits
  <2>1. Associates(t.out.data, t.out.buffer, t.bits)
    BY <1>5, <1>6, JoinedTwice
  <2> QED
    BY <1>5, <1>11, <2>1, Zenon DEF BitsOf, Associates
<1> QED
  BY <1>5, <1>10, <1>11, <1>12, Zenon DEF Appended, w

\* The last byte is filled up.
LEMMA ZeroBits ==
  ASSUME NEW n \in Nat
  PROVE  Zeros(n) \in Words /\ Len(Zeros(n)) = n
<1>1. Zeros(n) = [k \in 1..n |-> 0] /\ 0 \in Bits
  BY Zenon DEF Zeros, Bits
<1> QED
  BY <1>1 DEF Words

Flushed(o, d) ==
  /\ d \in Words /\ Len(d) % 8 = 0 /\ Len(d) >= Len(BitsOf(o)) /\ Len(d) \in Nat /\ Len(BitsOf(o)) \in Nat
  /\ \A k \in 1..Len(BitsOf(o)) : d[k] = BitsOf(o)[k]
LEMMA FlushFills ==
  ASSUME NEW o \in GoodOut
  PROVE  Flushed(o, FlushOut(o).data) /\ FlushOut(o).dlength = o.dlength
<1> DEFINE L == Len(o.buffer)
           n == (8 - (L % 8)) % 8
           d == FlushOut(o).data
<1>1. OutParts(o) /\ o.buffer \in Words /\ o.data \in Words /\ L \in Nat /\ Len(o.data) \in Nat /\ Len(o.data) % 8 = 0
  BY GoodOutParts DEF OutParts
<1>2. n \in Nat /\ (L + n) % 8 = 0
  <2>1. \A x \in Nat : (8 - (x % 8)) % 8 \in Nat /\ (x + ((8 - (x % 8)) % 8)) % 8 = 0
    OBVIOUS
  <2> QED
    BY <1>1, <2>1, Zenon
<1>3. d = BitsOf(o) \o Zeros(n) /\ FlushOut(o).dlength = o.dlength
  <2> DEFINE x == o.data \o o.buffer \o Zeros(n)
  <2>1. FlushOut(o) = [o EXCEPT !.data = x, !.buffer = <<>>]
    BY Zenon DEF FlushOut, Byte
  <2> HIDE DEF x
  <2>2. FlushOut(o) = [buffer |-> <<>>, data |-> x, dlength |-> o.dlength]
    BY <2>1, OutChanged, Zenon
  <2>3. d = x /\ FlushOut(o).dlength = o.dlength
    BY <2>2
  <2> QED
    BY <2>3, Zenon DEF BitsOf, x
<1> HIDE DEF d, n, L
<1>4. BitsOf(o) \in Words /\ Len(BitsOf(o)) = Len(o.data) + L
  BY <1>1, Joined, Zenon DEF BitsOf, L
<1>5. Zeros(n) \in Words /\ Len(Zeros(n)) = n
  BY <1>2, ZeroBits
<1>6. d \in Words /\ Len(d) = Len(BitsOf(o)) + n /\ \A k \in 1..Len(BitsOf(o)) : d[k] = BitsOf(o)[k]
  BY <1>3, <1>4, <1>5, Joined, Zenon
<1>7. \A x, y, z \in Nat : x % 8 = 0 /\ (y + z) % 8 = 0 => ((x + y) + z) % 8 = 0 /\ (x + y) + z >= x + y /\ (x + y) + z \in Nat /\ x + y \in Nat
  OBVIOUS
<1>8. Len(d) % 8 = 0 /\ Len(d) >= Len(BitsOf(o)) /\ Len(d) \in Nat /\ Len(BitsOf(o)) \in Nat
  <2>1. /\ ((Len(o.data) + L) + n) % 8 = 0 /\ (Len(o.data) + L) + n >= Len(o.data) + L
        /\ (Len(o.data) + L) + n \in Nat /\ Len(o.data) + L \in Nat
    BY <1>1, <1>2, <1>7, Zenon
  <2>2. Len(d) = (Len(o.data) + L) + n
    BY <1>4, <1>6, Zenon
  <2> QED
    BY <1>4, <2>1, <2>2, Zenon
<1> QED
  BY <1>3, <1>6, <1>8, Zenon DEF Flushed, d

\* What did not overflow is all there.
LEMMA OutputAll ==
  ASSUME NEW o, o.data \in Words, o.dlength \in Nat, ~OutOverflow(o)
  PROVE  Output(o) = o.data
<1>1. Len(o.data) \in Nat /\ o.data \in Seq(Bits)
  BY WordLen DEF Words
<1>2. Least(Len(o.data), o.dlength * Byte) = Len(o.data)
  BY <1>1 DEF OutOverflow, Least, Byte
<1>3. SubSeq(o.data, 1, Len(o.data)) = o.data
  BY <1>1, SubSeqFull
<1> QED
  BY <1>2, <1>3, Zenon DEF Output

-----------------------------------------------------------------------------
(* Bits that are read *)

InStreams == [buffer : Words, doffset : Nat, dbitoffs : Nat, data : Words, dlength : Nat]

\* The bit at a place; zeros past the end.
BitAt(d, p) == IF p <= Len(d) THEN d[p] ELSE 0
Window(d, p, n) == [k \in 1..n |-> BitAt(d, p + k)]

\* The stream i has read the first p bits of d: those that follow are in the
\* accumulator, and behind them at the place of the next byte.
ReadingAt(i, d, p) ==
  /\ i \in InStreams /\ i.data = d /\ i.dlength * 8 = Len(d)
  /\ i.dbitoffs < 8 /\ Len(i.buffer) <= 32
  /\ i.doffset * 8 + i.dbitoffs = p + Len(i.buffer)
  /\ i.buffer = Window(d, p, Len(i.buffer))

LEMMA Windows ==
  ASSUME NEW d \in Words, NEW p \in Nat, NEW n \in Nat
  PROVE  /\ Window(d, p, n) \in Words /\ Len(Window(d, p, n)) = n
         /\ \A k \in 1..n : Window(d, p, n)[k] = BitAt(d, p + k)
<1>1. \A k \in 1..n : BitAt(d, p + k) \in Bits
  <2>1. Len(d) \in Nat /\ (\A k \in 1..Len(d) : d[k] \in Bits) /\ 0 \in Bits
    BY WordLen DEF Bits
  <2> TAKE k \in 1..n
  <2>2. p + k <= Len(d) => p + k \in 1..Len(d)
    BY <2>1
  <2> QED
    BY <2>1, <2>2 DEF BitAt
<1> DEFINE w == Window(d, p, n)
<1>2. w = [k \in 1..n |-> BitAt(d, p + k)]
  BY Zenon DEF Window
<1> HIDE DEF w
<1>3. w \in Seq(Bits) /\ Len(w) = n
  BY <1>1, <1>2
<1> QED
  BY <1>2, <1>3 DEF w, Words

\* Two words with the same bits are the same.
LEMMA SameWord ==
  ASSUME NEW s \in Words, NEW t \in Words, Len(s) = Len(t), \A k \in 1..Len(s) : s[k] = t[k]
  PROVE  s = t
BY SeqEqual DEF Words

LEMMA WindowsJoin ==
  ASSUME NEW d \in Words, NEW p \in Nat, NEW m \in Nat, NEW n \in Nat
  PROVE  Window(d, p, m) \o Window(d, p + m, n) = Window(d, p, m + n)
<1> DEFINE a == Window(d, p, m)
           b == Window(d, p + m, n)
           c == Window(d, p, m + n)
<1>1. a \in Words /\ Len(a) = m /\ \A k \in 1..m : a[k] = BitAt(d, p + k)
  BY Windows
<1>2. b \in Words /\ Len(b) = n /\ \A k \in 1..n : b[k] = BitAt(d, (p + m) + k)
  <2>1. p + m \in Nat
    OBVIOUS
  <2> QED
    BY <2>1, Windows
<1>3. c \in Words /\ Len(c) = m + n /\ \A k \in 1..(m + n) : c[k] = BitAt(d, p + k)
  BY Windows
<1> HIDE DEF a, b, c
<1>4. /\ a \o b \in Words /\ Len(a \o b) = m + n
      /\ \A k \in 1..m : (a \o b)[k] = a[k]
      /\ \A k \in 1..n : (a \o b)[m + k] = b[k]
  BY <1>1, <1>2, Joined, Zenon
<1>5. ASSUME NEW k \in 1..(m + n) PROVE (a \o b)[k] = c[k]
  <2>1. CASE k <= m
    BY <1>1, <1>3, <1>4, <2>1
  <2>2. CASE k > m
    <3>1. k - m \in 1..n /\ m + (k - m) = k /\ (p + m) + (k - m) = p + k
      BY <2>2
    <3>2. (a \o b)[k] = b[k - m] /\ b[k - m] = BitAt(d, p + k)
      BY <1>2, <1>4, <3>1, Zenon
    <3> QED
      BY <1>3, <3>2, Zenon
  <2>3. k <= m \/ k > m
    <3>1. k \in Nat
      OBVIOUS
    <3> QED
      BY <3>1
  <2> QED
    BY <2>1, <2>2, <2>3, Zenon
<1>6. a \o b = c
  BY <1>3, <1>4, <1>5, SameWord
<1> QED
  BY <1>6 DEF a, b, c

\* A window's first bits, and those behind them.
DividesAt(d, p, m, n) ==
  /\ SubSeq(Window(d, p, m), 1, n) = Window(d, p, n)
  /\ SubSeq(Window(d, p, m), n + 1, m) = Window(d, p + n, m - n)
LEMMA WindowsDivide ==
  ASSUME NEW d \in Words, NEW p \in Nat, NEW m \in Nat, NEW n \in Nat, n <= m
  PROVE  DividesAt(d, p, m, n)
<1> DEFINE w == Window(d, p, m)
           a == SubSeq(w, 1, n)
           b == SubSeq(w, n + 1, m)
<1>0. m - n \in Nat /\ p + n \in Nat
  OBVIOUS
<1>1. w \in Words /\ Len(w) = m /\ \A k \in 1..m : w[k] = BitAt(d, p + k)
  BY Windows
<1> HIDE DEF w
<1>2. /\ a \in Words /\ Len(a) = n /\ \A k \in 1..n : a[k] = w[k]
      /\ b \in Words /\ Len(b) = m - n /\ \A k \in 1..(m - n) : b[k] = w[n + k]
  BY <1>1, Divided
<1> HIDE DEF a, b
<1>3. a = Window(d, p, n)
  <2>1. Window(d, p, n) \in Words /\ Len(Window(d, p, n)) = n /\ \A k \in 1..n : Window(d, p, n)[k] = BitAt(d, p + k)
    BY Windows
  <2>2. \A k \in 1..n : a[k] = Window(d, p, n)[k]
    BY <1>1, <1>2, <2>1
  <2> QED
    BY <1>2, <2>1, <2>2, SameWord
<1>4. b = Window(d, p + n, m - n)
  <2> DEFINE v == Window(d, p + n, m - n)
  <2>1. v \in Words /\ Len(v) = m - n /\ \A k \in 1..(m - n) : v[k] = BitAt(d, (p + n) + k)
    BY <1>0, Windows
  <2> HIDE DEF v
  <2>2. ASSUME NEW k \in 1..(m - n) PROVE b[k] = v[k]
    <3>1. n + k \in 1..m /\ p + (n + k) = (p + n) + k
      BY <1>0
    <3>2. b[k] = w[n + k] /\ w[n + k] = BitAt(d, p + (n + k)) /\ v[k] = BitAt(d, (p + n) + k)
      BY <1>1, <1>2, <2>1, <3>1, Zenon
    <3> QED
      BY <3>1, <3>2, Zenon
  <2>3. b = v
    BY <1>2, <2>1, <2>2, SameWord
  <2> QED
    BY <2>3 DEF v
<1> QED
  BY <1>3, <1>4 DEF a, b, w, DividesAt

\* The byte at the place where the stream is.
LEMMA NextByte ==
  ASSUME NEW d \in Words, NEW p \in Nat, NEW i, ReadingAt(i, d, p),
         NEW t \in Nat, t <= 8 - i.dbitoffs
  PROVE  SubSeq(NewBits(i), 1, t) = Window(d, p + Len(i.buffer), t)
<1> DEFINE s == i.dbitoffs
           o == i.doffset
           q == p + Len(i.buffer)
           b == NewBits(i)
<1>1. /\ i.data = d /\ s \in Nat /\ s < 8 /\ o \in Nat /\ i.dlength \in Nat /\ i.dlength * 8 = Len(d)
      /\ i.buffer \in Words /\ o * 8 + s = q
  BY DEF ReadingAt, InStreams
<1>2. Len(i.buffer) \in Nat /\ Len(d) \in Nat /\ d \in Seq(Bits) /\ \A k \in 1..Len(d) : d[k] \in Bits
  BY <1>1, WordLen DEF Words
<1>3. q \in Nat
  BY <1>2
<1>4. b = IF o < i.dlength THEN SubSeq(d, o * 8 + 1 + s, (o + 1) * 8) \o Zeros(s) ELSE Zeros(8)
  BY <1>1, Zenon DEF NewBits, Byte
<1> HIDE DEF b, q
<1>5. b \in Words /\ Len(b) = 8 /\ \A k \in 1..(8 - s) : b[k] = BitAt(d, q + k)
  <2>1. CASE o < i.dlength
    <3> DEFINE m == o * 8 + 1 + s
               n == (o + 1) * 8
               a == SubSeq(d, m, n)
    <3>1. m \in Nat /\ n \in Nat /\ m = q + 1 /\ n <= Len(d) /\ m >= 1 /\ n - m + 1 = 8 - s /\ m <= n
      <4> HIDE DEF s, o
      <4> QED
        BY <1>1, <2>1
    <3> HIDE DEF m, n
    <3>2. a \in Seq(Bits) /\ Len(a) = n - m + 1 /\ \A k \in 1..(n - m + 1) : a[k] = d[m + k - 1]
      <4>1. \A k \in m..n : d[k] \in Bits
        BY <1>2, <3>1
      <4>2. m \in Int /\ n \in Int /\ d \in Seq(Bits)
        BY <1>2, <3>1
      <4>3. /\ a \in Seq(Bits) /\ Len(a) = (IF m <= n THEN n - m + 1 ELSE 0)
            /\ \A k \in 1..(n - m + 1) : a[k] = d[m + k - 1]
        BY <4>1, <4>2, SubSeqProperties
      <4> QED
        BY <3>1, <4>3
    <3> HIDE DEF a
    <3>3. a \in Words /\ Len(a) = 8 - s
      BY <3>1, <3>2 DEF Words
    <3>4. Zeros(s) \in Words /\ Len(Zeros(s)) = s
      BY <1>1, ZeroBits
    <3>5. b = a \o Zeros(s)
      BY <1>4, <2>1, Zenon DEF a, m, n
    <3>6. b \in Words /\ Len(b) = (8 - s) + s /\ \A k \in 1..(8 - s) : b[k] = a[k]
      <4> DEFINE z == Zeros(s)
      <4>1. z \in Words /\ Len(z) = s /\ b = a \o z
        BY <3>4, <3>5
      <4> HIDE DEF z
      <4>2. a \o z \in Words /\ Len(a \o z) = Len(a) + Len(z) /\ \A k \in 1..Len(a) : (a \o z)[k] = a[k]
        BY <3>3, <4>1, Joined, Zenon
      <4> QED
        BY <3>3, <4>1, <4>2, Zenon
    <3>7. ASSUME NEW k \in 1..(8 - s) PROVE b[k] = BitAt(d, q + k)
      <4> HIDE DEF s, o
      <4>1. k \in 1..(n - m + 1) /\ m + k - 1 = q + k /\ q + k <= Len(d)
        BY <1>1, <1>2, <1>3, <3>1
      <4>2. a[k] = d[q + k]
        BY <3>2, <4>1
      <4> QED
        BY <3>6, <4>1, <4>2, Zenon DEF BitAt
    <3>8. (8 - s) + s = 8
      BY <1>1
    <3> QED
      BY <3>6, <3>7, <3>8
  <2>2. CASE ~(o < i.dlength)
    <3>1. b = Zeros(8) /\ b = [k \in 1..8 |-> 0]
      BY <1>4, <2>2, Zenon DEF Zeros
    <3>2. b \in Words /\ Len(b) = 8
      BY <3>1, ZeroBits
    <3>3. ASSUME NEW k \in 1..(8 - s) PROVE b[k] = BitAt(d, q + k)
      <4>1. k \in 1..8 /\ ~(q + k <= Len(d))
        <5> HIDE DEF s, o
        <5> QED
          BY <1>1, <1>3, <2>2
      <4> QED
        BY <3>1, <4>1 DEF BitAt
    <3> QED
      BY <3>2, <3>3
  <2> QED
    BY <2>1, <2>2
<1> HIDE DEF s, o
<1> DEFINE c == SubSeq(b, 1, t)
           w == Window(d, q, t)
<1>6. t <= Len(b) /\ \A k \in 1..t : k \in 1..(8 - s)
  BY <1>1, <1>5 DEF s
<1>7. c \in Words /\ Len(c) = t /\ \A k \in 1..t : c[k] = b[k]
  BY <1>5, <1>6, Divided
<1>8. w \in Words /\ Len(w) = t /\ \A k \in 1..t : w[k] = BitAt(d, q + k)
  BY <1>3, Windows
<1> HIDE DEF c, w
<1>9. \A k \in 1..Len(c) : c[k] = w[k]
  BY <1>5, <1>6, <1>7, <1>8, Zenon
<1>10. c = w
  BY <1>7, <1>8, <1>9, SameWord
<1> QED
  BY <1>10 DEF c, w, q, b

\* A stream from its parts.
InOf(b, o, s, d, l) == [buffer |-> b, doffset |-> o, dbitoffs |-> s, data |-> d, dlength |-> l]
Changes(i, b, o, s) ==
  /\ [i EXCEPT !.dbitoffs = s, !.doffset = o, !.buffer = b] = InOf(b, o, s, i.data, i.dlength)
  /\ [i EXCEPT !.buffer = b] = InOf(b, i.doffset, i.dbitoffs, i.data, i.dlength)
LEMMA InChanged ==
  ASSUME NEW i \in InStreams, NEW b, NEW o, NEW s
  PROVE  Changes(i, b, o, s)
<1>1. i = [buffer |-> i.buffer, doffset |-> i.doffset, dbitoffs |-> i.dbitoffs, data |-> i.data, dlength |-> i.dlength]
  BY DEF InStreams
<1>2. [i EXCEPT !.buffer = b] = InOf(b, i.doffset, i.dbitoffs, i.data, i.dlength)
  BY <1>1 DEF InOf
<1> DEFINE x == [i EXCEPT !.dbitoffs = s]
           y == [x EXCEPT !.doffset = o]
<1>3. x = [buffer |-> i.buffer, doffset |-> i.doffset, dbitoffs |-> s, data |-> i.data, dlength |-> i.dlength]
  BY <1>1
<1> HIDE DEF x
<1>4. y = [buffer |-> i.buffer, doffset |-> o, dbitoffs |-> s, data |-> i.data, dlength |-> i.dlength]
  BY <1>3
<1> HIDE DEF y
<1>5. [y EXCEPT !.buffer = b] = InOf(b, o, s, i.data, i.dlength)
  BY <1>4 DEF InOf
<1> QED
  BY <1>2, <1>5, Zenon DEF x, y, Changes

HasParts(i, b, o, s, d, l) ==
  i \in InStreams /\ i.buffer = b /\ i.doffset = o /\ i.dbitoffs = s /\ i.data = d /\ i.dlength = l
LEMMA InParts ==
  ASSUME NEW b \in Words, NEW o \in Nat, NEW s \in Nat, NEW d \in Words, NEW l \in Nat
  PROVE  HasParts(InOf(b, o, s, d, l), b, o, s, d, l)
BY DEF InOf, InStreams, HasParts

\* The accumulator after one byte: full, or up to the next byte.
Fetched(i, j) ==
  /\ Len(i.buffer) = 32 => j = i
  /\ Len(i.buffer) # 32 /\ Len(i.buffer) > 24 => Len(j.buffer) = 32
  /\ Len(i.buffer) <= 24 => j.dbitoffs = 0 /\ Len(j.buffer) = Len(i.buffer) + (8 - i.dbitoffs)
LEMMA FetchStep ==
  ASSUME NEW d \in Words, NEW p \in Nat, NEW i, ReadingAt(i, d, p),
         Len(i.buffer) <= 24 \/ i.dbitoffs = 0 \/ Len(i.buffer) = 32
  PROVE  ReadingAt(FetchByte(i), d, p) /\ Fetched(i, FetchByte(i))
<1> DEFINE m == Len(i.buffer)
           s == i.dbitoffs
           o == i.doffset
           full == m + 8 > 32
           t == IF full THEN 32 - m ELSE 8 - s
           b == i.buffer \o SubSeq(NewBits(i), 1, t)
           o2 == IF full THEN o ELSE o + 1
           s2 == IF full THEN 32 - m ELSE 0
           j == FetchByte(i)
<1>1. /\ i \in InStreams /\ i.data = d /\ s \in Nat /\ s < 8 /\ o \in Nat /\ i.dlength \in Nat /\ i.dlength * 8 = Len(d)
      /\ i.buffer \in Words /\ o * 8 + s = p + m /\ m <= 32 /\ i.buffer = Window(d, p, m)
  BY DEF ReadingAt, InStreams
<1>2. m \in Nat
  BY <1>1, WordLen
<1>3. CASE m >= 32
  <2>1. j = i
    BY <1>3, Zenon DEF FetchByte, Acc
  <2>2. m = 32 /\ ~(m <= 24)
    <3> HIDE DEF m
    <3> QED
      BY <1>1, <1>2, <1>3
  <2> QED
    BY <2>1, <2>2, Zenon DEF Fetched
<1>4. CASE ~(m >= 32)
  <2>1. j = [i EXCEPT !.dbitoffs = s2, !.doffset = o2, !.buffer = b]
    BY <1>4 DEF FetchByte, Acc, Byte
  <2> HIDE DEF j, b, m, s, o
  <2>2. t \in Nat /\ t <= 8 - s /\ s2 \in Nat /\ s2 < 8 /\ o2 \in Nat /\ m + t <= 32 /\ o2 * 8 + s2 = p + (m + t)
    <3>1. s \in Nat /\ s < 8 /\ o \in Nat /\ o * 8 + s = p + m /\ m <= 32
      BY <1>1, Zenon
    <3>2. m <= 24 \/ s = 0 \/ m = 32
      BY DEF m, s
    <3> QED
      BY <1>2, <1>4, <3>1, <3>2
  <2>3. (m > 24 => m + t = 32) /\ (m <= 24 => s2 = 0 /\ m + t = m + (8 - s))
    BY <1>2
  <2> HIDE DEF t, o2, s2
  <2>4. SubSeq(NewBits(i), 1, t) = Window(d, p + m, t)
    BY <2>2, NextByte DEF m, s
  <2>5. b = Window(d, p, m + t)
    <3>1. b = Window(d, p, m) \o Window(d, p + m, t)
      BY <1>1, <2>4, Zenon DEF b
    <3> QED
      BY <1>2, <2>2, <3>1, WindowsJoin, ZenonT(60)
  <2>6. b \in Words /\ Len(b) = m + t
    <3>1. m + t \in Nat
      BY <1>2, <2>2
    <3> QED
      BY <2>5, <3>1, Windows
  <2>7. j = InOf(b, o2, s2, d, i.dlength)
    <3>1. Changes(i, b, o2, s2)
      BY <1>1, InChanged
    <3> QED
      BY <1>1, <2>1, <3>1, Zenon DEF Changes
  <2>8. j \in InStreams /\ j.buffer = b /\ j.doffset = o2 /\ j.dbitoffs = s2 /\ j.data = d /\ j.dlength = i.dlength
    <3>1. HasParts(InOf(b, o2, s2, d, i.dlength), b, o2, s2, d, i.dlength)
      BY <1>1, <2>2, <2>6, InParts
    <3> QED
      BY <2>7, <3>1, Zenon DEF HasParts
  <2>9. ReadingAt(j, d, p)
    BY <1>1, <2>2, <2>5, <2>6, <2>8, Zenon DEF ReadingAt
  <2>10. Fetched(i, j)
    <3>1. m # 32
      BY <1>2, <1>4
    <3> QED
      BY <2>3, <2>6, <2>8, <3>1, Zenon DEF Fetched, m, s
  <2> QED
    BY <2>9, <2>10 DEF j
<1> QED
  BY <1>3, <1>4 DEF j

\* What starts alike and goes on alike is alike.
Alike(n, e, f) == e[0] = f[0] /\ \A k \in 1..n : e[k - 1] = f[k - 1] => e[k] = f[k]
LEMMA Agree ==
  ASSUME NEW n \in Nat, NEW e, NEW f, Alike(n, e, f)
  PROVE  \A k \in 0..n : e[k] = f[k]
<1>0. e[0] = f[0] /\ \A k \in 1..n : e[k - 1] = f[k - 1] => e[k] = f[k]
  BY DEF Alike
<1> DEFINE T == {k \in Nat : k <= n => e[k] = f[k]}
<1>1. 0 \in T
  BY <1>0
<1>2. ASSUME NEW k \in T PROVE k + 1 \in T
  <2>1. k + 1 <= n => k + 1 \in 1..n /\ (k + 1) - 1 = k /\ e[k] = f[k]
    OBVIOUS
  <2>2. k + 1 <= n => e[k + 1] = f[k + 1]
    BY <1>0, <2>1
  <2> QED
    BY <2>2
<1> HIDE DEF T
<1>3. T \in SUBSET Nat
  BY DEF T
<1>4. T = Nat
  BY <1>1, <1>2, <1>3, Counting
<1> QED
  BY <1>4 DEF T

\* The streams that read d at p and can be filled.
Fillable(d, p) ==
  {i \in InStreams : /\ ReadingAt(i, d, p)
                     /\ Len(i.buffer) <= 24 \/ i.dbitoffs = 0 \/ Len(i.buffer) = 32}
LEMMA FetchStays ==
  ASSUME NEW d \in Words, NEW p \in Nat, NEW i \in Fillable(d, p)
  PROVE  FetchByte(i) \in Fillable(d, p) /\ Fetched(i, FetchByte(i))
<1>1. ReadingAt(FetchByte(i), d, p) /\ Fetched(i, FetchByte(i))
  BY FetchStep DEF Fillable
<1>2. FetchByte(i) \in InStreams
  BY <1>1, Zenon DEF ReadingAt
<1>3. Len(FetchByte(i).buffer) <= 24 \/ FetchByte(i).dbitoffs = 0 \/ Len(FetchByte(i).buffer) = 32
  <2>1. CASE Len(i.buffer) = 32
    BY <1>1, <2>1, Zenon DEF Fetched
  <2>2. CASE Len(i.buffer) # 32 /\ Len(i.buffer) > 24
    BY <1>1, <2>2, Zenon DEF Fetched
  <2>3. CASE Len(i.buffer) <= 24
    BY <1>1, <2>3, Zenon DEF Fetched
  <2>4. Len(i.buffer) \in Nat
    <3>1. i.buffer \in Words
      BY DEF Fillable, InStreams
    <3> QED
      BY <3>1, WordLen
  <2>5. Len(i.buffer) = 32 \/ Len(i.buffer) > 24 \/ Len(i.buffer) <= 24
    BY <2>4
  <2> QED
    BY <2>1, <2>2, <2>3, <2>5, Zenon
<1> QED
  BY <1>1, <1>2, <1>3, Zenon DEF Fillable

FetchRun(V, i, n, f) ==
  f \in [0..n -> V] /\ f[0] = i /\ (\A k \in 1..n : f[k] = FetchByte(f[k - 1])) /\ Iterate(FetchByte, i, n) = f[n]
LEMMA FetchLoop ==
  ASSUME NEW V, \A j \in V : FetchByte(j) \in V, NEW i \in V, NEW n \in Nat
  PROVE  \E f : FetchRun(V, i, n, f)
<1> DEFINE Rec(f) == f = [k \in 0..n |-> IF k = 0 THEN i ELSE FetchByte(f[k - 1])]
           g == [q \in Nat \X V |-> FetchByte(q[2])]
<1>1. g \in [Nat \X V -> V]
  OBVIOUS
<1>2. PICK e : Ran(V, g, i, n, e)
  <2> HIDE DEF g
  <2> QED
    BY <1>1, Recursion
<1>3. e \in [0..n -> V] /\ e[0] = i /\ \A k \in 1..n : e[k] = FetchByte(e[k - 1])
  <2>1. e \in [0..n -> V] /\ e[0] = i /\ \A k \in 1..n : e[k] = g[<<k, e[k - 1]>>]
    BY <1>2, Zenon DEF Ran
  <2>2. ASSUME NEW k \in 1..n PROVE e[k] = FetchByte(e[k - 1])
    <3>1. k \in Nat /\ e[k - 1] \in V /\ <<k, e[k - 1]>> \in Nat \X V /\ <<k, e[k - 1]>>[2] = e[k - 1]
      BY <2>1
    <3> QED
      BY <2>1, <3>1
  <2> QED
    BY <2>1, <2>2
<1>4. Rec(e)
  BY <1>3
<1> DEFINE f == CHOOSE h : Rec(h)
<1>5. Rec(f)
  BY <1>4, Zenon
<1>6. Iterate(FetchByte, i, n) = f[n]
  BY Zenon DEF Iterate
<1> HIDE DEF f, g
<1>7. f[0] = i /\ \A k \in 1..n : f[k] = FetchByte(f[k - 1])
  BY <1>5
<1>8. \A k \in 0..n : e[k] = f[k]
  <2>1. Alike(n, e, f)
    BY <1>3, <1>7, Zenon DEF Alike
  <2> QED
    BY <2>1, Agree
<1>9. f[n] = e[n]
  BY <1>8
<1> QED
  BY <1>3, <1>6, <1>9, Zenon DEF FetchRun

\* Five bytes fill the accumulator.
Filled(j, k) == Len(j.buffer) = 32 \/ (j.dbitoffs = 0 /\ Len(j.buffer) >= 8 * k - 7)
LEMMA Filling ==
  ASSUME NEW d \in Words, NEW p \in Nat, NEW j \in Fillable(d, p), NEW k \in Nat,
         (k = 0 /\ Len(j.buffer) <= 24) \/ Filled(j, k)
  PROVE  FetchByte(j) \in Fillable(d, p) /\ Filled(FetchByte(j), k + 1)
<1> DEFINE m == Len(j.buffer)
           s == j.dbitoffs
           h == FetchByte(j)
           L == Len(h.buffer)
<1>1. m \in Nat /\ m <= 32 /\ s \in Nat /\ s < 8
  <2>1. j \in InStreams /\ ReadingAt(j, d, p)
    BY DEF Fillable
  <2>2. j.buffer \in Words /\ s \in Nat /\ s < 8 /\ m <= 32
    BY <2>1 DEF InStreams, ReadingAt
  <2> QED
    BY <2>2, WordLen
<1>2. h \in Fillable(d, p) /\ (m = 32 => h = j) /\ (m # 32 /\ m > 24 => L = 32)
      /\ (m <= 24 => h.dbitoffs = 0 /\ L = m + (8 - s))
  BY FetchStays, Zenon DEF Fetched
<1>3. (k = 0 /\ m <= 24) \/ m = 32 \/ (s = 0 /\ m >= 8 * k - 7)
  BY Zenon DEF Filled
<1>4. (m = 32 => L = 32)
  BY <1>2, Zenon
<1> HIDE DEF m, s, L
<1>5. L = 32 \/ (h.dbitoffs = 0 /\ L >= 8 * (k + 1) - 7)
  <2>1. CASE m > 24
    BY <1>1, <1>2, <1>4, <2>1
  <2>2. CASE m <= 24
    <3>1. h.dbitoffs = 0 /\ L = m + (8 - s)
      BY <1>2, <2>2, Zenon
    <3>2. m + (8 - s) >= 8 * (k + 1) - 7
      BY <1>1, <1>3, <2>2
    <3> QED
      BY <3>1, <3>2, Zenon
  <2> QED
    BY <1>1, <2>1, <2>2
<1> QED
  BY <1>2, <1>5, Zenon DEF Filled, L

LEMMA FetchFills ==
  ASSUME NEW d \in Words, NEW p \in Nat, NEW i, ReadingAt(i, d, p), Len(i.buffer) <= 24
  PROVE  ReadingAt(Fetch(i), d, p) /\ Len(Fetch(i).buffer) = 32
<1> DEFINE V == Fillable(d, p)
<1>1. i \in V
  BY DEF Fillable, ReadingAt
<1>2. \A j \in V : FetchByte(j) \in V
  BY FetchStays
<1> HIDE DEF V
<1>3. PICK f : FetchRun(V, i, 5, f)
  <2>1. 5 \in Nat
    OBVIOUS
  <2> QED
    BY <1>1, <1>2, <2>1, FetchLoop
<1>4. f[0] = i /\ f[1] = FetchByte(f[0]) /\ f[2] = FetchByte(f[1]) /\ f[3] = FetchByte(f[2])
      /\ f[4] = FetchByte(f[3]) /\ f[5] = FetchByte(f[4]) /\ Iterate(FetchByte, i, 5) = f[5]
  <2>1. f[0] = i /\ (\A k \in 1..5 : f[k] = FetchByte(f[k - 1])) /\ Iterate(FetchByte, i, 5) = f[5]
    BY <1>3, Zenon DEF FetchRun
  <2>2. 1 - 1 = 0 /\ 2 - 1 = 1 /\ 3 - 1 = 2 /\ 4 - 1 = 3 /\ 5 - 1 = 4
        /\ 1 \in 1..5 /\ 2 \in 1..5 /\ 3 \in 1..5 /\ 4 \in 1..5 /\ 5 \in 1..5
    OBVIOUS
  <2> QED
    BY <2>1, <2>2, Zenon
<1>5. Fetch(i) = f[5]
  <2>1. 32 \div 8 + 1 = 5
    OBVIOUS
  <2>2. Fetch(i) = Iterate(FetchByte, i, 5)
    BY <2>1, Zenon DEF Fetch, Acc, Byte
  <2> QED
    BY <1>4, <2>2, Zenon
<1> DEFINE Good(k) == f[k] \in Fillable(d, p) /\ Filled(f[k], k)
<1>6. ASSUME NEW k \in Nat, NEW l \in Nat, l = k + 1, f[l] = FetchByte(f[k]), Good(k) PROVE Good(l)
  BY <1>6, Filling
<1>7. Good(1)
  <2>1. 0 \in Nat /\ 0 + 1 = 1 /\ i \in Fillable(d, p)
    BY <1>1 DEF V
  <2>2. FetchByte(i) \in Fillable(d, p) /\ Filled(FetchByte(i), 0 + 1)
    BY <2>1, Filling
  <2> QED
    BY <1>4, <2>1, <2>2
<1> HIDE DEF Good
<1>8. Good(2)
  <2>1. 1 \in Nat /\ 2 \in Nat /\ 2 = 1 + 1
    OBVIOUS
  <2> QED
    BY <1>4, <1>6, <1>7, <2>1
<1>9. Good(3)
  <2>1. 2 \in Nat /\ 3 \in Nat /\ 3 = 2 + 1
    OBVIOUS
  <2> QED
    BY <1>4, <1>6, <1>8, <2>1
<1>10. Good(4)
  <2>1. 3 \in Nat /\ 4 \in Nat /\ 4 = 3 + 1
    OBVIOUS
  <2> QED
    BY <1>4, <1>6, <1>9, <2>1
<1>11. Good(5)
  <2>1. 4 \in Nat /\ 5 \in Nat /\ 5 = 4 + 1
    OBVIOUS
  <2> QED
    BY <1>4, <1>6, <1>10, <2>1
<1>12. f[5] \in Fillable(d, p) /\ Filled(f[5], 5)
  BY <1>11 DEF Good
<1>13. ReadingAt(f[5], d, p)
  BY <1>12 DEF Fillable
<1>14. Len(f[5].buffer) = 32
  <2>1. f[5].buffer \in Words /\ Len(f[5].buffer) <= 32
    BY <1>13, Zenon DEF ReadingAt, InStreams
  <2>2. Len(f[5].buffer) \in Nat
    BY <2>1, WordLen
  <2>3. \A x \in Nat : x <= 32 /\ x >= 8 * 5 - 7 => x = 32
    OBVIOUS
  <2> QED
    BY <1>12, <2>1, <2>2, <2>3, Zenon DEF Filled
<1> QED
  BY <1>5, <1>13, <1>14, Zenon

\* Up to 25 bits can be looked at.
LEMMA PeekFills ==
  ASSUME NEW d \in Words, NEW p \in Nat, NEW i, ReadingAt(i, d, p), NEW n \in Nat, n <= 25
  PROVE  ReadingAt(Peeked(i, n), d, p) /\ n <= Len(Peeked(i, n).buffer)
<1>1. Len(i.buffer) \in Nat
  <2>1. i.buffer \in Words
    BY DEF ReadingAt, InStreams
  <2> QED
    BY <2>1, WordLen
<1>2. CASE n > Len(i.buffer)
  <2>1. Len(i.buffer) <= 24
    BY <1>1, <1>2
  <2>2. ReadingAt(Fetch(i), d, p) /\ Len(Fetch(i).buffer) = 32
    BY <2>1, FetchFills
  <2>3. n <= 32
    OBVIOUS
  <2> QED
    BY <1>2, <2>2, <2>3, Zenon DEF Peeked
<1>3. CASE ~(n > Len(i.buffer))
  <2>1. n <= Len(i.buffer)
    BY <1>1, <1>3
  <2> QED
    BY <1>3, <2>1, Zenon DEF Peeked
<1> QED
  BY <1>2, <1>3

\* What is in the accumulator can be taken.
LEMMA RemoveMoves ==
  ASSUME NEW d \in Words, NEW p \in Nat, NEW i, ReadingAt(i, d, p), NEW n \in Nat, n <= Len(i.buffer)
  PROVE  ReadingAt(RemoveBits(i, n), d, p + n) /\ SubSeq(i.buffer, 1, n) = Window(d, p, n)
<1> DEFINE m == Len(i.buffer)
           b == SubSeq(i.buffer, n + 1, m)
           j == RemoveBits(i, n)
<1>1. /\ i \in InStreams /\ i.data = d /\ i.dbitoffs < 8 /\ m <= 32 /\ i.dlength * 8 = Len(d)
      /\ i.doffset * 8 + i.dbitoffs = p + m /\ i.buffer = Window(d, p, m)
      /\ i.buffer \in Words /\ i.dlength \in Nat /\ i.doffset \in Nat /\ i.dbitoffs \in Nat
  BY DEF ReadingAt, InStreams
<1>2. m \in Nat /\ m - n \in Nat /\ p + n \in Nat /\ m - n <= 32 /\ (p + n) + (m - n) = p + m
  <2>1. m \in Nat
    BY <1>1, WordLen
  <2>2. n <= m /\ m <= 32
    BY <1>1
  <2> HIDE DEF m
  <2> QED
    BY <2>1, <2>2
<1>3. SubSeq(i.buffer, 1, n) = Window(d, p, n) /\ b = Window(d, p + n, m - n)
  <2>1. DividesAt(d, p, m, n)
    <3>1. n <= m
      OBVIOUS
    <3> HIDE DEF m
    <3> QED
      BY <1>2, <3>1, WindowsDivide
  <2> DEFINE w == Window(d, p, m)
  <2>2. i.buffer = w /\ SubSeq(w, 1, n) = Window(d, p, n) /\ SubSeq(w, n + 1, m) = Window(d, p + n, m - n)
    BY <1>1, <2>1, Zenon DEF DividesAt
  <2> HIDE DEF m, w
  <2> QED
    BY <2>2
<1> HIDE DEF m
<1>4. b \in Words /\ Len(b) = m - n
  <2>1. Window(d, p + n, m - n) \in Words /\ Len(Window(d, p + n, m - n)) = m - n
    BY <1>2, Windows
  <2>2. b = Window(d, p + n, m - n)
    BY <1>3
  <2> HIDE DEF b
  <2> QED
    BY <2>1, <2>2, Zenon
<1>5. j = [i EXCEPT !.buffer = b]
  BY Zenon DEF RemoveBits, m
<1> HIDE DEF b, j
<1>6. j = InOf(b, i.doffset, i.dbitoffs, d, i.dlength)
  <2>1. Changes(i, b, 0, 0)
    BY <1>1, InChanged
  <2> QED
    BY <1>1, <1>5, <2>1, Zenon DEF Changes
<1>7. HasParts(j, b, i.doffset, i.dbitoffs, d, i.dlength)
  <2>1. HasParts(InOf(b, i.doffset, i.dbitoffs, d, i.dlength), b, i.doffset, i.dbitoffs, d, i.dlength)
    BY <1>1, <1>4, InParts
  <2> QED
    BY <1>6, <2>1, Zenon
<1>8. j \in InStreams /\ j.buffer = b /\ j.doffset = i.doffset /\ j.dbitoffs = i.dbitoffs /\ j.data = d /\ j.dlength = i.dlength
  BY <1>7, Zenon DEF HasParts
<1>9. ReadingAt(j, d, p + n)
  BY <1>1, <1>2, <1>3, <1>4, <1>8, Zenon DEF ReadingAt
<1> QED
  BY <1>3, <1>9 DEF j

\* read gives the next n bits.
LEMMA ReadTakes ==
  ASSUME NEW d \in Words, NEW p \in Nat, NEW i, ReadingAt(i, d, p), NEW n \in Nat, n <= 25
  PROVE  Read(i, n)[1] = FromBits(Window(d, p, n)) /\ ReadingAt(Read(i, n)[2], d, p + n)
<1> DEFINE j == Peeked(i, n)
<1>1. ReadingAt(j, d, p) /\ n <= Len(j.buffer)
  BY PeekFills
<1> HIDE DEF j
<1>2. ReadingAt(RemoveBits(j, n), d, p + n) /\ SubSeq(j.buffer, 1, n) = Window(d, p, n)
  BY <1>1, RemoveMoves
<1>3. Read(i, n) = <<FromBits(SubSeq(j.buffer, 1, n)), RemoveBits(j, n)>>
  BY Zenon DEF Read, Taken, j
<1>4. Read(i, n)[1] = FromBits(SubSeq(j.buffer, 1, n)) /\ Read(i, n)[2] = RemoveBits(j, n)
  BY <1>3
<1> QED
  BY <1>2, <1>4, Zenon

LEMMA StartsReading ==
  ASSUME NEW d \in Words, Len(d) % 8 = 0
  PROVE  ReadingAt(BitstreamIn(d), d, 0)
<1> DEFINE l == Len(d) \div 8
           i == BitstreamIn(d)
<1>1. l \in Nat /\ l * 8 = Len(d)
  <2>1. Len(d) \in Nat
    BY WordLen
  <2>2. \A x \in Nat : x % 8 = 0 => x \div 8 \in Nat /\ (x \div 8) * 8 = x
    OBVIOUS
  <2> QED
    BY <2>1, <2>2, Zenon
<1>2. i = InOf(<<>>, 0, 0, d, l)
  BY Zenon DEF BitstreamIn, InOf, Byte
<1> HIDE DEF i, l
<1>3. HasParts(InOf(<<>>, 0, 0, d, l), <<>>, 0, 0, d, l)
  <2>1. <<>> \in Words /\ 0 \in Nat
    BY NoBits
  <2> QED
    BY <1>1, <2>1, InParts
<1>4. i \in InStreams /\ i.buffer = <<>> /\ i.doffset = 0 /\ i.dbitoffs = 0 /\ i.data = d /\ i.dlength = l
  BY <1>2, <1>3, Zenon DEF HasParts
<1>5. <<>> = Window(d, 0, 0) /\ Len(<<>>) = 0
  <2>1. Window(d, 0, 0) \in Words /\ Len(Window(d, 0, 0)) = 0
    BY Windows
  <2> QED
    BY <2>1, NoBits, Zenon
<1>6. 0 < 8 /\ 0 <= 32 /\ 0 * 8 + 0 = 0 + 0
  OBVIOUS
<1>7. ReadingAt(i, d, 0)
  BY <1>1, <1>4, <1>5, <1>6, Zenon DEF ReadingAt
<1> QED
  BY <1>7 DEF i

-----------------------------------------------------------------------------
(* Numbers as bits *)

LEMMA Products ==
  ASSUME NEW b \in Nat, NEW x \in Nat, NEW y \in Nat, x < y
  PROVE  b * x + b <= b * y
<1>1. b * x + b = b * (x + 1)
  OBVIOUS
<1>2. x + 1 <= y /\ y - (x + 1) \in Nat /\ y = (x + 1) + (y - (x + 1))
  OBVIOUS
<1>3. b * (y - (x + 1)) >= 0
  BY <1>2
<1>4. b * y = b * (x + 1) + b * (y - (x + 1))
  BY <1>2
<1> QED
  BY <1>1, <1>3, <1>4

LEMMA Quotient ==
  ASSUME NEW a \in Nat, NEW b \in Nat, b > 0
  PROVE  a \div b \in Nat /\ b * (a \div b) <= a /\ a < b * (a \div b) + b
BY Z3

LEMMA QuotientIs ==
  ASSUME NEW a \in Nat, NEW b \in Nat, NEW q \in Nat, b > 0, b * q <= a, a < b * q + b
  PROVE  a \div b = q
<1> DEFINE r == a \div b
<1>1. r \in Nat /\ b * r <= a /\ a < b * r + b
  BY Quotient
<1> HIDE DEF r
<1>2. b * r \in Nat /\ b * q \in Nat
  BY <1>1
<1>3. ~(r < q)
  <2>1. ASSUME r < q PROVE b * r + b <= b * q
    BY <1>1, <2>1, Products
  <2> QED
    BY <1>1, <1>2, <2>1
<1>4. ~(q < r)
  <2>1. ASSUME q < r PROVE b * q + b <= b * r
    BY <1>1, <2>1, Products
  <2> QED
    BY <1>1, <1>2, <2>1
<1>5. r = q
  BY <1>1, <1>3, <1>4
<1> QED
  BY <1>5 DEF r

LEMMA QuotientHalf ==
  ASSUME NEW a \in Nat, NEW b \in Nat, b > 0
  PROVE  a \div (2 * b) = (a \div b) \div 2
<1> DEFINE r == a \div b
           q == r \div 2
<1>1. r \in Nat /\ b * r <= a /\ a < b * r + b
  BY Quotient
<1> HIDE DEF r
<1>2. q \in Nat /\ 2 * q <= r /\ r <= 2 * q + 1
  BY <1>1
<1> HIDE DEF q
<1>3. (2 * b) * q = b * (2 * q) /\ b * (2 * q + 1) = b * (2 * q) + b
  BY <1>2
<1>4. b * (2 * q) <= b * r
  BY <1>1, <1>2
<1>5. b * r <= b * (2 * q + 1)
  BY <1>1, <1>2
<1>6. b * r \in Nat /\ b * (2 * q) \in Nat /\ 2 * b \in Nat /\ 2 * b > 0 /\ (2 * b) * q \in Nat
  BY <1>1, <1>2
<1>7. (2 * b) * q <= a /\ a < (2 * b) * q + 2 * b
  BY <1>1, <1>3, <1>4, <1>5, <1>6
<1>8. a \div (2 * b) = q
  BY <1>2, <1>6, <1>7, QuotientIs
<1> QED
  BY <1>8 DEF q, r

\* The powers of two the streams know of.
LEMMA Powers ==
  ASSUME NEW n \in 0..31
  PROVE  2^n \in Nat /\ 2^n > 0 /\ 2^(n + 1) = 2 * 2^n /\ 2^0 = 1
<1> DEFINE f == [k \in 0..32 |-> 2^k]
<1>1. /\ f[0] = 1 /\ f[1] = 2 /\ f[2] = 4 /\ f[3] = 8 /\ f[4] = 16 /\ f[5] = 32 /\ f[6] = 64
      /\ f[7] = 128 /\ f[8] = 256 /\ f[9] = 512 /\ f[10] = 1024 /\ f[11] = 2048 /\ f[12] = 4096
      /\ f[13] = 8192 /\ f[14] = 16384 /\ f[15] = 32768 /\ f[16] = 65536 /\ f[17] = 131072
      /\ f[18] = 262144 /\ f[19] = 524288 /\ f[20] = 1048576 /\ f[21] = 2097152 /\ f[22] = 4194304
      /\ f[23] = 8388608 /\ f[24] = 16777216 /\ f[25] = 33554432 /\ f[26] = 67108864
      /\ f[27] = 134217728 /\ f[28] = 268435456 /\ f[29] = 536870912 /\ f[30] = 1073741824
      /\ f[31] = 2147483648 /\ f[32] = 4294967296
  OBVIOUS
<1>2. n \in 0..32 /\ n + 1 \in 0..32 /\ 0 \in 0..32
  OBVIOUS
<1>3. f[n] = 2^n /\ f[n + 1] = 2^(n + 1) /\ f[0] = 2^0
  BY <1>2, Zenon
<1>4. \/ n = 0 \/ n = 1 \/ n = 2 \/ n = 3 \/ n = 4 \/ n = 5 \/ n = 6 \/ n = 7 \/ n = 8 \/ n = 9
      \/ n = 10 \/ n = 11 \/ n = 12 \/ n = 13 \/ n = 14 \/ n = 15 \/ n = 16 \/ n = 17 \/ n = 18
      \/ n = 19 \/ n = 20 \/ n = 21 \/ n = 22 \/ n = 23 \/ n = 24 \/ n = 25 \/ n = 26 \/ n = 27
      \/ n = 28 \/ n = 29 \/ n = 30 \/ n = 31
  OBVIOUS
<1> HIDE DEF f
<1>5. f[n] \in Nat /\ f[n] > 0 /\ f[n + 1] = 2 * f[n] /\ f[0] = 1
  BY <1>1, <1>4
<1> QED
  BY <1>3, <1>5, Zenon

\* The value of bits, from the first to the last.
Valued(b, f) ==
  f \in [0..Len(b) -> Nat] /\ f[0] = 0 /\ (\A k \in 1..Len(b) : f[k] = 2 * f[k - 1] + b[k]) /\ FromBits(b) = f[Len(b)]
LEMMA FromBitsIs ==
  ASSUME NEW b \in Words
  PROVE  \E f : Valued(b, f)
<1> DEFINE n == Len(b)
           Rec(f) == f = [k \in 0..n |-> IF k = 0 THEN 0 ELSE 2 * f[k - 1] + b[k]]
           g == [q \in Nat \X Nat |-> IF q[1] \in 1..n THEN 2 * q[2] + b[q[1]] ELSE 0]
<1>0. n \in Nat /\ \A k \in 1..n : b[k] \in Nat
  BY WordLen DEF Bits
<1> HIDE DEF n
<1>1. g \in [Nat \X Nat -> Nat]
  <2>1. ASSUME NEW q \in Nat \X Nat PROVE (IF q[1] \in 1..n THEN 2 * q[2] + b[q[1]] ELSE 0) \in Nat
    <3>1. q[2] \in Nat
      OBVIOUS
    <3>2. CASE q[1] \in 1..n
      <4>1. b[q[1]] \in Nat
        BY <1>0, <3>2, Zenon
      <4> QED
        BY <3>1, <3>2, <4>1
    <3>3. CASE q[1] \notin 1..n
      BY <3>3
    <3> QED
      BY <3>2, <3>3
  <2> QED
    BY <2>1
<1>2. PICK e : Ran(Nat, g, 0, n, e)
  <2> HIDE DEF g
  <2> QED
    BY <1>0, <1>1, Recursion
<1>3. e \in [0..n -> Nat] /\ e[0] = 0 /\ \A k \in 1..n : e[k] = 2 * e[k - 1] + b[k]
  <2>1. e \in [0..n -> Nat] /\ e[0] = 0 /\ \A k \in 1..n : e[k] = g[<<k, e[k - 1]>>]
    BY <1>2, Zenon DEF Ran
  <2>2. ASSUME NEW k \in 1..n PROVE e[k] = 2 * e[k - 1] + b[k]
    <3>1. k \in Nat /\ e[k - 1] \in Nat /\ <<k, e[k - 1]>> \in Nat \X Nat
          /\ <<k, e[k - 1]>>[2] = e[k - 1] /\ <<k, e[k - 1]>>[1] = k
      <4>1. e \in [0..n -> Nat] /\ k \in Nat /\ k - 1 \in 0..n
        BY <1>0, <2>1
      <4>2. e[k - 1] \in Nat
        BY <4>1
      <4> QED
        BY <4>1, <4>2
    <3>2. g[<<k, e[k - 1]>>] = 2 * e[k - 1] + b[k]
      BY <3>1
    <3> QED
      BY <2>1, <3>2
  <2> QED
    BY <2>1, <2>2
<1>4. Rec(e)
  BY <1>3
<1> DEFINE f == CHOOSE h : Rec(h)
<1>5. Rec(f)
  BY <1>4, Zenon
<1>6. FromBits(b) = f[n]
  BY Zenon DEF FromBits, n
<1> HIDE DEF f, g
<1>7. f[0] = 0 /\ \A k \in 1..n : f[k] = 2 * f[k - 1] + b[k]
  BY <1>0, <1>5
<1>8. \A k \in 0..n : e[k] = f[k]
  <2>1. Alike(n, e, f)
    BY <1>3, <1>7, Zenon DEF Alike
  <2> QED
    BY <1>0, <2>1, Agree
<1>9. f[n] = e[n]
  BY <1>0, <1>8
<1> QED
  BY <1>3, <1>6, <1>9, Zenon DEF Valued, n

\* A number that fits comes back from its bits.
LEMMA NumbersComeBack ==
  ASSUME NEW n \in 0..32, NEW v \in Nat, v < 2^n
  PROVE  ToBits(v, n) \in Words /\ Len(ToBits(v, n)) = n /\ FromBits(ToBits(v, n)) = v
<1> DEFINE b == ToBits(v, n)
           e == [k \in 0..n |-> v \div 2^(n - k)]
<1>0. n \in Nat
  OBVIOUS
<1>1. \A m \in 0..32 : 2^m \in Nat /\ 2^m > 0
  <2> TAKE m \in 0..32
  <2>1. CASE m = 32
    BY <2>1
  <2>2. CASE m # 32
    <3>1. m \in 0..31
      BY <2>2
    <3> QED
      BY <3>1, Powers
  <2> QED
    BY <2>1, <2>2
<1>2. \A k \in 0..n : e[k] = v \div 2^(n - k) /\ e[k] \in Nat
  <2> TAKE k \in 0..n
  <2>1. n - k \in 0..32
    OBVIOUS
  <2>2. 2^(n - k) \in Nat /\ 2^(n - k) > 0
    BY <1>1, <2>1, Zenon
  <2>3. v \div 2^(n - k) \in Nat
    BY <2>2, Quotient
  <2> QED
    BY <2>3, Zenon
<1>3. ASSUME NEW k \in 1..n PROVE e[k - 1] = e[k] \div 2
  <2> DEFINE m == n - k
  <2>1. m \in 0..31 /\ n - (k - 1) = m + 1 /\ k - 1 \in 0..n /\ k \in 0..n
    BY <1>0
  <2> HIDE DEF m, e
  <2>2. 2^m \in Nat /\ 2^m > 0 /\ 2^(m + 1) = 2 * 2^m
    BY <2>1, Powers
  <2>3. v \div (2 * 2^m) = (v \div 2^m) \div 2
    <3> DEFINE c == 2^m
    <3>1. c \in Nat /\ c > 0
      BY <2>2
    <3> HIDE DEF c
    <3>2. v \div (2 * c) = (v \div c) \div 2
      BY <3>1, QuotientHalf
    <3> QED
      BY <3>2 DEF c
  <2>4. e[k - 1] = v \div 2^(m + 1)
    BY <1>2, <2>1, Zenon
  <2>5. e[k] = v \div 2^m
    BY <1>2, <2>1, Zenon DEF m
  <2> QED
    BY <2>2, <2>3, <2>4, <2>5, Zenon
<1>4. e[0] = 0
  <2>1. n - 0 = n /\ 0 \in 0..n /\ 2^n \in Nat /\ 2^n > 0
    BY <1>0, <1>1
  <2>2. v \div 2^n = 0
    <3> DEFINE c == 2^n
    <3>1. c \in Nat /\ c > 0 /\ v < c
      BY <2>1
    <3> HIDE DEF c
    <3>2. 0 \in Nat /\ c * 0 <= v /\ v < c * 0 + c
      BY <3>1
    <3>3. v \div c = 0
      BY <3>1, <3>2, QuotientIs
    <3> QED
      BY <3>3 DEF c
  <2> HIDE DEF e
  <2>3. e[0] = v \div 2^(n - 0)
    BY <1>2, <2>1, Zenon
  <2> QED
    BY <2>1, <2>2, <2>3, Zenon
<1>5. e[n] = v
  <2>1. n - n = 0 /\ n \in 0..n /\ 2^0 = 1 /\ v \div 1 = v
    BY <1>0
  <2> HIDE DEF e
  <2>2. e[n] = v \div 2^(n - n)
    BY <1>2, <2>1, Zenon
  <2> QED
    BY <2>1, <2>2, Zenon
<1>6. b = [k \in 1..n |-> e[k] % 2]
  <2>1. \A k \in 1..n : k \in 0..n
    BY <1>0
  <2> QED
    BY <2>1, Zenon DEF ToBits
<1> HIDE DEF e, b
<1>7. b \in Words /\ Len(b) = n /\ \A k \in 1..n : b[k] = e[k] % 2
  <2>1. \A k \in 1..n : e[k] % 2 \in Bits
    <3> TAKE k \in 1..n
    <3>1. e[k] \in Nat
      BY <1>0, <1>2
    <3> QED
      BY <3>1 DEF Bits
  <2>2. b \in Seq(Bits) /\ Len(b) = n
    BY <1>0, <1>6, <2>1
  <2> QED
    BY <1>6, <2>2 DEF Words
<1>8. PICK f : Valued(b, f)
  BY <1>7, FromBitsIs
<1>9. f[0] = 0 /\ (\A k \in 1..n : f[k] = 2 * f[k - 1] + b[k]) /\ FromBits(b) = f[n]
  BY <1>7, <1>8, Zenon DEF Valued
<1>10. \A k \in 0..n : e[k] = f[k]
  <2>1. ASSUME NEW k \in 1..n, e[k - 1] = f[k - 1] PROVE e[k] = f[k]
    <3>1. k \in 0..n /\ e[k] \in Nat
      BY <1>0, <1>2
    <3>2. e[k] = 2 * (e[k] \div 2) + (e[k] % 2)
      BY <3>1
    <3>3. f[k] = 2 * f[k - 1] + b[k] /\ b[k] = e[k] % 2 /\ f[k - 1] = e[k] \div 2
      BY <1>3, <1>7, <1>9, <2>1, Zenon
    <3> QED
      BY <3>2, <3>3, Zenon
  <2>2. Alike(n, e, f)
    BY <1>4, <1>9, <2>1, Zenon DEF Alike
  <2> QED
    BY <1>0, <2>2, Agree
<1>11. n \in 0..n
  BY <1>0
<1> QED
  BY <1>5, <1>7, <1>9, <1>10, <1>11, Zenon DEF b

-----------------------------------------------------------------------------
(* What is written is read *)

\* Words written one behind the other.
WriteRun(o, words, f) ==
  /\ f \in [0..Len(words) -> GoodOut] /\ f[0] = o
  /\ \A k \in 1..Len(words) : f[k] = WriteBits(f[k - 1], words[k])

LEMMA WriteRunExists ==
  ASSUME NEW o \in GoodOut, NEW words \in Seq(Words)
  PROVE  \E f : WriteRun(o, words, f)
<1> DEFINE m == Len(words)
           g == [q \in Nat \X GoodOut |-> IF q[1] \in 1..m THEN WriteBits(q[2], words[q[1]]) ELSE o]
<1>0. m \in Nat /\ \A k \in 1..m : words[k] \in Words
  OBVIOUS
<1> HIDE DEF m
<1>1. g \in [Nat \X GoodOut -> GoodOut]
  <2>1. ASSUME NEW q \in Nat \X GoodOut PROVE (IF q[1] \in 1..m THEN WriteBits(q[2], words[q[1]]) ELSE o) \in GoodOut
    <3>1. q[2] \in GoodOut
      OBVIOUS
    <3>2. CASE q[1] \in 1..m
      <4>1. words[q[1]] \in Words
        BY <1>0, <3>2, Zenon
      <4>2. Appended(q[2], words[q[1]], WriteBits(q[2], words[q[1]]))
        BY <3>1, <4>1, WriteAppends
      <4> QED
        BY <3>2, <4>2, Zenon DEF Appended
    <3>3. CASE q[1] \notin 1..m
      BY <3>3
    <3> QED
      BY <3>2, <3>3
  <2> QED
    BY <2>1
<1>2. PICK e : Ran(GoodOut, g, o, m, e)
  <2> HIDE DEF g
  <2> QED
    BY <1>0, <1>1, Recursion
<1>3. e \in [0..m -> GoodOut] /\ e[0] = o /\ \A k \in 1..m : e[k] = g[<<k, e[k - 1]>>]
  BY <1>2, Zenon DEF Ran
<1>4. ASSUME NEW k \in 1..m PROVE e[k] = WriteBits(e[k - 1], words[k])
  <2>1. k \in Nat /\ k - 1 \in 0..m
    BY <1>0
  <2>2. e[k - 1] \in GoodOut
    BY <1>3, <2>1
  <2>3. <<k, e[k - 1]>> \in Nat \X GoodOut /\ <<k, e[k - 1]>>[2] = e[k - 1] /\ <<k, e[k - 1]>>[1] = k
    BY <2>1, <2>2
  <2>4. g[<<k, e[k - 1]>>] = WriteBits(e[k - 1], words[k])
    BY <2>3
  <2> QED
    BY <1>3, <2>4, Zenon
<1> QED
  BY <1>3, <1>4, Zenon DEF WriteRun, m

\* All that was written stays where it is.
Before(a, b) == /\ Len(BitsOf(a)) <= Len(BitsOf(b)) /\ \A k \in 1..Len(BitsOf(a)) : BitsOf(b)[k] = BitsOf(a)[k]
Follows(a, bits, b) ==
  /\ BitsOf(a) \in Words /\ bits \in Words /\ BitsOf(b) = BitsOf(a) \o bits /\ b.dlength = a.dlength
  /\ Len(BitsOf(a)) \in Nat /\ Len(bits) \in Nat /\ Len(BitsOf(b)) = Len(BitsOf(a)) + Len(bits)
  /\ \A k \in 1..Len(BitsOf(a)) : BitsOf(b)[k] = BitsOf(a)[k]
  /\ \A k \in 1..Len(bits) : BitsOf(b)[Len(BitsOf(a)) + k] = bits[k]
LEMMA WriteFollows ==
  ASSUME NEW o \in GoodOut, NEW bits \in Words
  PROVE  Follows(o, bits, WriteBits(o, bits))
<1>1. Appended(o, bits, WriteBits(o, bits))
  BY WriteAppends
<1>2. BitsOf(o) \in Words
  <2>1. OutParts(o)
    BY GoodOutParts
  <2>2. o.data \in Words /\ o.buffer \in Words
    BY <2>1, Zenon DEF OutParts
  <2>3. o.data \o o.buffer \in Words
    BY <2>2, Joined
  <2> QED
    BY <2>3, Zenon DEF BitsOf
<1>3. Len(BitsOf(o)) \in Nat /\ Len(bits) \in Nat
  BY <1>2, WordLen
<1> DEFINE a == BitsOf(o)
           b == BitsOf(WriteBits(o, bits))
<1>4. b = a \o bits /\ WriteBits(o, bits).dlength = o.dlength
  BY <1>1, Zenon DEF Appended
<1> HIDE DEF a, b
<1>5. Len(a \o bits) = Len(a) + Len(bits) /\ (\A k \in 1..Len(a) : (a \o bits)[k] = a[k])
      /\ (\A k \in 1..Len(bits) : (a \o bits)[Len(a) + k] = bits[k])
  BY <1>2, Joined DEF a
<1> QED
  BY <1>2, <1>3, <1>4, <1>5, Zenon DEF Follows, a, b

LEMMA RunFollows ==
  ASSUME NEW o, NEW words \in Seq(Words), NEW f, WriteRun(o, words, f), NEW j \in 1..Len(words)
  PROVE  Follows(f[j - 1], words[j], f[j])
<1>1. Len(words) \in Nat /\ words[j] \in Words /\ j - 1 \in 0..Len(words)
  OBVIOUS
<1>2. f[j - 1] \in GoodOut /\ f[j] = WriteBits(f[j - 1], words[j])
  BY <1>1 DEF WriteRun
<1>3. Follows(f[j - 1], words[j], WriteBits(f[j - 1], words[j]))
  BY <1>1, <1>2, WriteFollows
<1> QED
  BY <1>2, <1>3, Zenon

LEMMA RunBits ==
  ASSUME NEW o, NEW words \in Seq(Words), NEW f, WriteRun(o, words, f), NEW j \in 0..Len(words)
  PROVE  Before(f[j], f[Len(words)]) /\ f[j].dlength = o.dlength
<1> DEFINE m == Len(words)
           T == {k \in Nat : j + k <= m => Before(f[j], f[j + k])}
           U == {k \in Nat : k <= m => f[k].dlength = o.dlength}
<1>0. m \in Nat /\ j \in Nat /\ j <= m
  OBVIOUS
<1>1. \A k \in 1..m : Follows(f[k - 1], words[k], f[k])
  BY RunFollows
<1> HIDE DEF m
<1>2. 0 \in T
  <2>1. j + 0 = j /\ Before(f[j], f[j])
    <3>1. f[j] \in GoodOut
      BY <1>0 DEF WriteRun, m
    <3>2. OutParts(f[j])
      BY <3>1, GoodOutParts
    <3>3. f[j].data \in Words /\ f[j].buffer \in Words
      BY <3>2, Zenon DEF OutParts
    <3>4. f[j].data \o f[j].buffer \in Words
      BY <3>3, Joined
    <3>5. Len(BitsOf(f[j])) \in Nat
      BY <3>4, WordLen DEF BitsOf
    <3>6. Len(BitsOf(f[j])) <= Len(BitsOf(f[j]))
      BY <3>5
    <3> QED
      BY <1>0, <3>6 DEF Before
  <2> QED
    BY <2>1
<1>3. ASSUME NEW k \in T PROVE k + 1 \in T
  <2>1. k \in Nat
    OBVIOUS
  <2>2. ASSUME j + (k + 1) <= m PROVE Before(f[j], f[j + (k + 1)])
    <3>1. j + k <= m /\ j + (k + 1) \in 1..m /\ (j + (k + 1)) - 1 = j + k
      BY <1>0, <2>1, <2>2
    <3> DEFINE a == f[j]
               b == f[j + k]
               c == f[j + (k + 1)]
    <3>2. Before(a, b)
      BY <3>1
    <3>3. Follows(b, words[j + (k + 1)], c)
      BY <1>1, <3>1
    <3> HIDE DEF a, b, c
    <3> DEFINE x == Len(BitsOf(a))
               y == Len(BitsOf(b))
    <3>4. y \in Nat /\ Len(BitsOf(c)) = y + Len(words[j + (k + 1)]) /\ Len(words[j + (k + 1)]) \in Nat
          /\ \A l \in 1..y : BitsOf(c)[l] = BitsOf(b)[l]
      BY <3>3, Zenon DEF Follows
    <3>5. x <= y /\ \A l \in 1..x : BitsOf(b)[l] = BitsOf(a)[l]
      BY <3>2, Zenon DEF Before
    <3>7. x \in Nat
      <4>1. a \in GoodOut
        BY <1>0 DEF WriteRun, m, a
      <4>2. OutParts(a)
        BY <4>1, GoodOutParts
      <4>3. a.data \in Words /\ a.buffer \in Words
        BY <4>2, Zenon DEF OutParts
      <4>4. a.data \o a.buffer \in Words
        BY <4>3, Joined
      <4> QED
        BY <4>4, WordLen DEF BitsOf
    <3> HIDE DEF x, y
    <3>8. \A l \in 1..x : l \in 1..y
      BY <3>4, <3>5, <3>7
    <3>9. x <= Len(BitsOf(c))
      BY <3>4, <3>5, <3>7
    <3>10. \A l \in 1..x : BitsOf(c)[l] = BitsOf(a)[l]
      BY <3>4, <3>5, <3>8, Zenon
    <3>11. Before(a, c)
      BY <3>9, <3>10, Zenon DEF Before, x
    <3> QED
      BY <3>11 DEF a, c
  <2> QED
    BY <2>1, <2>2
<1>4. 0 \in U
  BY DEF WriteRun
<1>5. ASSUME NEW k \in U PROVE k + 1 \in U
  <2>1. k \in Nat
    OBVIOUS
  <2>2. ASSUME k + 1 <= m PROVE f[k + 1].dlength = o.dlength
    <3>1. k <= m /\ k + 1 \in 1..m /\ (k + 1) - 1 = k
      BY <1>0, <2>1, <2>2
    <3>2. f[k].dlength = o.dlength
      BY <3>1
    <3>3. Follows(f[k], words[k + 1], f[k + 1])
      BY <1>1, <3>1
    <3> QED
      BY <3>2, <3>3, Zenon DEF Follows
  <2> QED
    BY <2>1, <2>2
<1> HIDE DEF T, U
<1>6. T = Nat /\ U = Nat
  <2>1. T \in SUBSET Nat /\ U \in SUBSET Nat
    BY DEF T, U
  <2> QED
    BY <1>2, <1>3, <1>4, <1>5, <2>1, Counting
<1>7. m - j \in Nat /\ j + (m - j) = m
  BY <1>0
<1>8. Before(f[j], f[m])
  BY <1>6, <1>7 DEF T
<1>9. f[j].dlength = o.dlength
  BY <1>0, <1>6 DEF U
<1> QED
  BY <1>8, <1>9 DEF m

\* Where the words are in what reached the buffer.
Place(f, j) == Len(BitsOf(f[j]))
Carried(words, d, f, j) ==
  /\ Place(f, j - 1) \in Nat /\ Place(f, j) = Place(f, j - 1) + Len(words[j])
  /\ Window(d, Place(f, j - 1), Len(words[j])) = words[j]
LEMMA WordsCarried ==
  ASSUME NEW o, NEW words \in Seq(Words), NEW f, WriteRun(o, words, f), NEW d, Flushed(f[Len(words)], d),
         NEW j \in 1..Len(words)
  PROVE  Carried(words, d, f, j)
<1> DEFINE m == Len(words)
           a == f[j - 1]
           b == f[j]
           p == Len(BitsOf(a))
           q == Len(BitsOf(b))
           w == words[j]
           n == Len(w)
<1>1. Follows(a, w, b)
  BY RunFollows
<1>2. Before(b, f[m])
  <2>1. j \in 0..Len(words)
    OBVIOUS
  <2> QED
    BY <2>1, RunBits
<1>3. /\ d \in Words /\ Len(d) >= Len(BitsOf(f[m])) /\ Len(d) \in Nat /\ Len(BitsOf(f[m])) \in Nat
      /\ \A k \in 1..Len(BitsOf(f[m])) : d[k] = BitsOf(f[m])[k]
  BY Zenon DEF Flushed
<1> DEFINE L == Len(BitsOf(f[m]))
<1> HIDE DEF a, b, w
<1>4. p \in Nat /\ n \in Nat /\ w \in Words /\ q = p + n /\ \A k \in 1..n : BitsOf(b)[p + k] = w[k]
  BY <1>1, Zenon DEF Follows
<1>5. q <= L /\ \A k \in 1..q : BitsOf(f[m])[k] = BitsOf(b)[k]
  BY <1>2, Zenon DEF Before
<1> HIDE DEF p, q, n, m
<1>6. ASSUME NEW k \in 1..n PROVE BitAt(d, p + k) = w[k]
  <2>1. L \in Nat /\ Len(d) \in Nat /\ Len(d) >= L /\ q <= L
    BY <1>3, <1>5, Zenon
  <2> HIDE DEF L
  <2>2. p + k \in 1..q /\ p + k \in 1..L /\ p + k <= Len(d)
    BY <1>4, <2>1
  <2>3. d[p + k] = w[k]
    BY <1>3, <1>4, <1>5, <2>2, Zenon DEF L
  <2> QED
    BY <2>2, <2>3, Zenon DEF BitAt
<1> DEFINE x == Window(d, p, n)
<1>7. x \in Words /\ Len(x) = n /\ \A k \in 1..n : x[k] = BitAt(d, p + k)
  BY <1>3, <1>4, Windows
<1> HIDE DEF x
<1>8. Len(w) = n
  BY DEF n
<1>9. \A k \in 1..Len(x) : x[k] = w[k]
  BY <1>6, <1>7, Zenon
<1>10. x = w
  BY <1>4, <1>7, <1>8, <1>9, SameWord
<1>11. p \in Nat /\ q = p + n /\ Window(d, p, n) = w
  BY <1>4, <1>10 DEF x
<1> QED
  BY <1>11, Zenon DEF Carried, Place, p, q, n, a, b, w

\* What a run leaves, as the data a reader gets: if it did not overflow, all of it.
LEMMA RunReads ==
  ASSUME NEW dlength \in Nat, NEW words \in Seq(Words), NEW f, WriteRun(BitstreamOut(dlength), words, f),
         ~OutOverflow(FlushOut(f[Len(words)]))
  PROVE  LET d == FlushOut(f[Len(words)]).data IN
         /\ Flushed(f[Len(words)], d) /\ Output(FlushOut(f[Len(words)])) = d
         /\ ReadingAt(BitstreamIn(d), d, Place(f, 0))
<1> DEFINE m == Len(words)
           e == FlushOut(f[m])
           d == e.data
<1>0. m \in Nat /\ 0 \in 0..m /\ m \in 0..m
  OBVIOUS
<1>1. f[m] \in GoodOut /\ f[0] = BitstreamOut(dlength)
  BY <1>0 DEF WriteRun
<1> HIDE DEF m
<1>2. Flushed(f[m], d) /\ e.dlength = f[m].dlength
  BY <1>1, FlushFills
<1>3. f[m].dlength = dlength
  <2>1. f[m].dlength = BitstreamOut(dlength).dlength
    BY <1>0, RunBits DEF m
  <2>2. BitstreamOut(dlength).dlength = dlength
    BY DEF BitstreamOut
  <2> QED
    BY <2>1, <2>2
<1>4. d \in Words /\ Len(d) % 8 = 0
  BY <1>2, Zenon DEF Flushed
<1>5. Output(e) = d
  <2>1. ~OutOverflow(e)
    BY DEF m
  <2> HIDE DEF e
  <2>2. e.data \in Words /\ e.dlength \in Nat
    BY <1>2, <1>3, <1>4
  <2> QED
    BY <2>1, <2>2, OutputAll
<1> HIDE DEF d
<1>6. ReadingAt(BitstreamIn(d), d, 0)
  BY <1>4, StartsReading
<1>7. Place(f, 0) = 0
  <2>1. f[0].data = <<>> /\ f[0].buffer = <<>>
    BY <1>1 DEF BitstreamOut
  <2>2. <<>> \o <<>> = <<>> /\ Len(<<>>) = 0
    BY NoBits, JoinedNothing
  <2> QED
    BY <2>1, <2>2, Zenon DEF Place, BitsOf
<1> QED
  BY <1>2, <1>5, <1>6, <1>7, Zenon DEF d, m

\* Reading words of the same lengths gives them back.
ReadRun(words, d, p, in) ==
  /\ ReadingAt(in[0], d, p)
  /\ \A j \in 1..Len(words) : Len(words[j]) <= 25 /\ in[j] = Read(in[j - 1], Len(words[j]))[2]
AllRead(words, d, f, in) ==
  /\ \A j \in 0..Len(words) : ReadingAt(in[j], d, Place(f, j))
  /\ \A j \in 1..Len(words) : Read(in[j - 1], Len(words[j]))[1] = FromBits(words[j])
LEMMA RunComesBack ==
  ASSUME NEW o, NEW words \in Seq(Words), NEW f, WriteRun(o, words, f), NEW d, Flushed(f[Len(words)], d),
         NEW in, ReadRun(words, d, Place(f, 0), in)
  PROVE  AllRead(words, d, f, in)
<1> DEFINE m == Len(words)
           T == {k \in Nat : k <= m => ReadingAt(in[k], d, Place(f, k))}
<1>0. m \in Nat /\ d \in Words
  BY DEF Flushed
<1>1. ASSUME NEW j \in 1..m, ReadingAt(in[j - 1], d, Place(f, j - 1))
      PROVE  ReadingAt(in[j], d, Place(f, j)) /\ Read(in[j - 1], Len(words[j]))[1] = FromBits(words[j])
  <2>1. Place(f, j - 1) \in Nat /\ Place(f, j) = Place(f, j - 1) + Len(words[j]) /\ Window(d, Place(f, j - 1), Len(words[j])) = words[j]
    <3>1. Carried(words, d, f, j)
      BY WordsCarried
    <3> QED
      BY <3>1, Zenon DEF Carried
  <2>2. words[j] \in Words
    OBVIOUS
  <2>3. Len(words[j]) \in Nat /\ Len(words[j]) <= 25 /\ in[j] = Read(in[j - 1], Len(words[j]))[2]
    BY <2>2, WordLen DEF ReadRun
  <2> DEFINE p == Place(f, j - 1)
             n == Len(words[j])
             i == in[j - 1]
  <2>4. p \in Nat /\ n \in Nat /\ n <= 25 /\ ReadingAt(i, d, p)
    BY <1>1, <2>1, <2>3
  <2> HIDE DEF p, n, i
  <2>5. Read(i, n)[1] = FromBits(Window(d, p, n)) /\ ReadingAt(Read(i, n)[2], d, p + n)
    BY <1>0, <2>4, ReadTakes
  <2> QED
    BY <2>1, <2>3, <2>5, Zenon DEF p, n, i
<1> HIDE DEF m
<1>2. 0 \in T
  BY DEF ReadRun
<1>3. ASSUME NEW k \in T PROVE k + 1 \in T
  <2>1. k \in Nat
    OBVIOUS
  <2>2. ASSUME k + 1 <= m PROVE ReadingAt(in[k + 1], d, Place(f, k + 1))
    <3>1. k <= m /\ k + 1 \in 1..m /\ (k + 1) - 1 = k
      BY <1>0, <2>1, <2>2
    <3>2. ReadingAt(in[k], d, Place(f, k))
      BY <3>1
    <3>3. ReadingAt(in[(k + 1) - 1], d, Place(f, (k + 1) - 1))
      BY <3>1, <3>2, Zenon
    <3> QED
      BY <1>1, <3>1, <3>3
  <2> QED
    BY <2>1, <2>2
<1> HIDE DEF T
<1>4. T = Nat
  <2>1. T \in SUBSET Nat
    BY DEF T
  <2> QED
    BY <1>2, <1>3, <2>1, Counting
<1>5. \A k \in 0..m : ReadingAt(in[k], d, Place(f, k))
  BY <1>0, <1>4 DEF T
<1>6. ASSUME NEW j \in 1..m PROVE Read(in[j - 1], Len(words[j]))[1] = FromBits(words[j])
  <2>1. j - 1 \in 0..m
    BY <1>0
  <2>2. ReadingAt(in[j - 1], d, Place(f, j - 1))
    BY <1>5, <2>1, Zenon
  <2> QED
    BY <1>1, <2>2
<1> QED
  BY <1>5, <1>6 DEF m, AllRead

LEMMA StartsWriting ==
  ASSUME NEW dlength \in Nat
  PROVE  BitstreamOut(dlength) \in GoodOut
<1>1. <<>> \in Words /\ Len(<<>>) = 0 /\ 0 <= 32 /\ 0 % 8 = 0
  BY NoBits
<1> QED
  BY <1>1, OutOf DEF BitstreamOut

\* Numbers and the bits they are written in.
Items == [value : Nat, width : 0..25]
WriteItems(o, items) == Fold(LAMBDA w, x : Write(w, x.value, x.width), o, items)
BitsOfItems(items) == [j \in 1..Len(items) |-> ToBits(items[j].value, items[j].width)]

LEMMA ItemsAreWords ==
  ASSUME NEW items \in Seq(Items), \A j \in 1..Len(items) : items[j].value < 2^items[j].width
  PROVE  /\ BitsOfItems(items) \in Seq(Words) /\ Len(BitsOfItems(items)) = Len(items)
         /\ \A j \in 1..Len(items) : /\ BitsOfItems(items)[j] = ToBits(items[j].value, items[j].width)
                                     /\ Len(BitsOfItems(items)[j]) = items[j].width /\ items[j].width <= 25
                                     /\ FromBits(BitsOfItems(items)[j]) = items[j].value
<1> DEFINE b == BitsOfItems(items)
           m == Len(items)
<1>0. m \in Nat
  OBVIOUS
<1>1. ASSUME NEW j \in 1..m
      PROVE  LET w == ToBits(items[j].value, items[j].width) IN
             w \in Words /\ Len(w) = items[j].width /\ FromBits(w) = items[j].value /\ items[j].width <= 25
  <2>1. items[j] \in Items
    OBVIOUS
  <2>2. items[j].value \in Nat /\ items[j].width \in 0..25
    BY <2>1 DEF Items
  <2>3. items[j].width \in 0..32 /\ items[j].width <= 25 /\ items[j].value < 2^items[j].width
    <3>1. \A x \in 0..25 : x \in 0..32 /\ x <= 25
      OBVIOUS
    <3> QED
      BY <2>2, <3>1, Zenon
  <2> QED
    BY <2>2, <2>3, NumbersComeBack
<1>2. b = [j \in 1..m |-> ToBits(items[j].value, items[j].width)]
  BY Zenon DEF BitsOfItems
<1> HIDE DEF b, m
<1>3. \A j \in 1..m : b[j] = ToBits(items[j].value, items[j].width)
  BY <1>2, Zenon
<1>4. \A j \in 1..m : b[j] \in Words
  BY <1>1, <1>3, Zenon
<1>5. b \in [1..m -> Words]
  BY <1>2, <1>4
<1>6. b \in Seq(Words) /\ Len(b) = m
  BY <1>0, <1>5
<1> QED
  BY <1>1, <1>3, <1>6, Zenon DEF b, m

LEMMA ItemsRun ==
  ASSUME NEW o \in GoodOut, NEW items \in Seq(Items), NEW f, BitsOfItems(items) \in Seq(Words),
         Len(BitsOfItems(items)) = Len(items), WriteRun(o, BitsOfItems(items), f)
  PROVE  WriteItems(o, items) = f[Len(items)]
<1> DEFINE m == Len(items)
           w == BitsOfItems(items)
           Rec(e) == e = [k \in 0..m |-> IF k = 0 THEN o ELSE Write(e[k - 1], items[k].value, items[k].width)]
<1>0. m \in Nat /\ m \in 0..m
  OBVIOUS
<1>1. w = [j \in 1..m |-> ToBits(items[j].value, items[j].width)]
  BY Zenon DEF BitsOfItems
<1>2. f \in [0..m -> GoodOut] /\ f[0] = o /\ \A k \in 1..m : f[k] = WriteBits(f[k - 1], w[k])
  BY Zenon DEF WriteRun
<1> HIDE DEF w, m
<1>3. \A k \in 1..m : f[k] = Write(f[k - 1], items[k].value, items[k].width)
  BY <1>1, <1>2, Zenon DEF Write
<1>4. Rec(f)
  BY <1>2, <1>3
<1> DEFINE h == CHOOSE e : Rec(e)
<1>5. Rec(h)
  BY <1>4, Zenon
<1>6. WriteItems(o, items) = h[m]
  BY Zenon DEF WriteItems, Fold, m
<1> HIDE DEF h
<1>7. h[0] = o /\ \A k \in 1..m : h[k] = Write(h[k - 1], items[k].value, items[k].width)
  <2>1. 0 \in 0..m /\ \A k \in 1..m : k \in 0..m /\ k # 0
    BY <1>0
  <2> QED
    BY <1>5, <2>1, Zenon
<1>8. \A k \in 0..m : f[k] = h[k]
  <2>1. Alike(m, f, h)
    BY <1>2, <1>3, <1>7, Zenon DEF Alike
  <2> QED
    BY <1>0, <2>1, Agree
<1> QED
  BY <1>0, <1>6, <1>8, Zenon DEF m

\* Numbers of at most 25 bits that are written, in any widths they fit in, are read back in the
\* same widths, however they lie across the bytes and the accumulators of the two streams
\* (bitstream.h: bitstream_out::write and flush, bitstream_in::peek and read), unless the
\* buffer was too small.
THEOREM NumbersReadBack ==
  ASSUME NEW dlength \in Nat,
         NEW items \in Seq(Items), \A j \in 1..Len(items) : items[j].value < 2^items[j].width,
         NEW out, out = FlushOut(WriteItems(BitstreamOut(dlength), items)), ~OutOverflow(out),
         NEW in, in[0] = BitstreamIn(Output(out)),
         \A j \in 1..Len(items) : in[j] = Read(in[j - 1], items[j].width)[2]
  PROVE  \A j \in 1..Len(items) : Read(in[j - 1], items[j].width)[1] = items[j].value
<1> DEFINE words == BitsOfItems(items)
           m == Len(items)
           o == BitstreamOut(dlength)
<1>1. /\ words \in Seq(Words) /\ Len(words) = m
      /\ \A j \in 1..m : /\ Len(words[j]) = items[j].width /\ items[j].width <= 25
                         /\ FromBits(words[j]) = items[j].value
  BY ItemsAreWords
<1>2. o \in GoodOut
  BY StartsWriting
<1> HIDE DEF words, m, o
<1>3. PICK f : WriteRun(o, words, f)
  BY <1>1, <1>2, WriteRunExists
<1>4. out = FlushOut(f[m])
  <2>1. WriteItems(o, items) = f[m]
    BY <1>1, <1>2, <1>3, ItemsRun DEF words, m
  <2> QED
    BY <2>1 DEF o
<1> DEFINE d == FlushOut(f[m]).data
<1>5. Flushed(f[m], d) /\ Output(out) = d /\ ReadingAt(BitstreamIn(d), d, Place(f, 0))
  <2>1. ~OutOverflow(FlushOut(f[Len(words)])) /\ WriteRun(BitstreamOut(dlength), words, f)
    BY <1>1, <1>3, <1>4 DEF o
  <2> QED
    BY <1>1, <1>4, <2>1, RunReads
<1> HIDE DEF d
<1>6. ReadRun(words, d, Place(f, 0), in)
  <2>1. \A j \in 1..Len(words) : Len(words[j]) <= 25 /\ in[j] = Read(in[j - 1], Len(words[j]))[2]
    BY <1>1, Zenon DEF m
  <2> QED
    BY <1>5, <2>1, Zenon DEF ReadRun
<1>7. AllRead(words, d, f, in)
  <2>1. Flushed(f[Len(words)], d)
    BY <1>1, <1>5, Zenon
  <2> QED
    BY <1>1, <1>3, <1>6, <2>1, RunComesBack
<1> QED
  BY <1>1, <1>7, Zenon DEF AllRead, m

-----------------------------------------------------------------------------
(* Canonical codes *)

\* A tree that the streams can hold: codes are numbers, lengths at most maxbits, which a
\* reader can look at.
CodeTree(tree, maxbits) ==
  /\ DOMAIN tree \in SUBSET Nat /\ IsFiniteSet(DOMAIN tree)
  /\ maxbits \in 0..25 /\ tree \in [DOMAIN tree -> 0..maxbits]

\* The codes of a length, and how many they are.
OfLength(tree, l) == {c \in DOMAIN tree : tree[c] = l}
Count(tree, l) == Cardinality(OfLength(tree, l))
LEMMA Counts ==
  ASSUME NEW tree, NEW maxbits, CodeTree(tree, maxbits), NEW l
  PROVE  IsFiniteSet(OfLength(tree, l)) /\ Count(tree, l) \in Nat
<1>1. OfLength(tree, l) \in SUBSET DOMAIN tree /\ IsFiniteSet(DOMAIN tree)
  BY DEF OfLength, CodeTree
<1>2. IsFiniteSet(OfLength(tree, l))
  BY <1>1, FS_Subset
<1> QED
  BY <1>2, FS_CardinalityType DEF Count

LEMMA TableIs ==
  ASSUME NEW f
  PROVE  Table(f) = f
<1>1. f \in {f}
  OBVIOUS
<1> QED
  BY <1>1, Zenon DEF Table

\* Where the codes of each length start: half way up those of the next length.
StartsRun(tree, st) ==
  /\ st \in [1..32 -> Nat] /\ st[32] = 0
  /\ \A l \in 1..31 : st[l] = (st[l + 1] + Count(tree, l + 1)) \div 2
  /\ \A l \in 1..32 : Starts(tree)[l].at = st[l] /\ Starts(tree)[l].count = Count(tree, l)
LEMMA StartsAre ==
  ASSUME NEW tree, NEW maxbits, CodeTree(tree, maxbits)
  PROVE  \E st : StartsRun(tree, st)
<1> DEFINE cs == [l \in 1..32 |-> Cardinality({c \in DOMAIN tree : tree[c] = l})]
           Rec(f) == f = [l \in 1..32 |-> IF l = 32 THEN 0 ELSE (f[l + 1] + cs[l + 1]) \div 2]
           st == CHOOSE f : Rec(f)
           g == [q \in Nat \X Nat |-> (q[2] + Count(tree, 33 - q[1])) \div 2]
<1>1. \A l \in 1..32 : cs[l] = Count(tree, l)
  BY DEF Count, OfLength
<1>2. \A l : Count(tree, l) \in Nat
  BY Counts
<1>3. g \in [Nat \X Nat -> Nat]
  <2>1. ASSUME NEW q \in Nat \X Nat PROVE (q[2] + Count(tree, 33 - q[1])) \div 2 \in Nat
    <3>1. q[2] \in Nat /\ Count(tree, 33 - q[1]) \in Nat
      BY <1>2
    <3> QED
      BY <3>1
  <2> QED
    BY <2>1
<1>4. PICK e : Ran(Nat, g, 0, 31, e)
  <2> HIDE DEF g
  <2>1. 31 \in Nat /\ 0 \in Nat
    OBVIOUS
  <2> QED
    BY <1>3, <2>1, Recursion
<1>5. e \in [0..31 -> Nat] /\ e[0] = 0 /\ \A k \in 1..31 : e[k] = (e[k - 1] + Count(tree, 33 - k)) \div 2
  <2>1. e \in [0..31 -> Nat] /\ e[0] = 0 /\ \A k \in 1..31 : e[k] = g[<<k, e[k - 1]>>]
    BY <1>4, Zenon DEF Ran
  <2>2. ASSUME NEW k \in 1..31 PROVE e[k] = (e[k - 1] + Count(tree, 33 - k)) \div 2
    <3>1. k \in Nat /\ k - 1 \in 0..31
      OBVIOUS
    <3>2. e[k - 1] \in Nat
      BY <2>1, <3>1
    <3>3. <<k, e[k - 1]>> \in Nat \X Nat /\ <<k, e[k - 1]>>[2] = e[k - 1] /\ <<k, e[k - 1]>>[1] = k
      BY <3>1, <3>2
    <3>4. g[<<k, e[k - 1]>>] = (e[k - 1] + Count(tree, 33 - k)) \div 2
      BY <3>3
    <3> QED
      BY <2>1, <3>4, Zenon
  <2> QED
    BY <2>1, <2>2
<1> HIDE DEF g
<1> DEFINE s == [l \in 1..32 |-> e[32 - l]]
<1>6. Rec(s)
  <2>1. ASSUME NEW l \in 1..32 PROVE s[l] = IF l = 32 THEN 0 ELSE (s[l + 1] + cs[l + 1]) \div 2
    <3>1. CASE l = 32
      <4>1. 32 - 32 = 0
        OBVIOUS
      <4> QED
        BY <1>5, <3>1, <4>1
    <3>2. CASE l # 32
      <4>1. l + 1 \in 1..32 /\ 32 - l \in 1..31 /\ (32 - l) - 1 = 32 - (l + 1) /\ 33 - (32 - l) = l + 1
        BY <3>2
      <4>2. s[l] = e[32 - l] /\ s[l + 1] = e[32 - (l + 1)]
        BY <4>1
      <4>3. e[32 - l] = (e[32 - (l + 1)] + Count(tree, l + 1)) \div 2
        BY <1>5, <4>1, Zenon
      <4>4. cs[l + 1] = Count(tree, l + 1)
        BY <1>1, <4>1, Zenon
      <4> HIDE DEF s, cs
      <4> QED
        BY <3>2, <4>2, <4>3, <4>4, Zenon
    <3> QED
      BY <3>1, <3>2
  <2> QED
    BY <2>1
<1>7. Rec(st)
  <2> HIDE DEF s
  <2> QED
    BY <1>6, Zenon
<1> HIDE DEF s
<1>8. st[32] = 0 /\ \A l \in 1..31 : st[l] = (st[l + 1] + Count(tree, l + 1)) \div 2
  <2> HIDE DEF st, cs
  <2>1. \A l \in 1..32 : st[l] = IF l = 32 THEN 0 ELSE (st[l + 1] + cs[l + 1]) \div 2
    BY <1>7, Zenon
  <2>2. 32 \in 1..32
    OBVIOUS
  <2>3. st[32] = 0
    BY <2>1, <2>2, Zenon
  <2>4. ASSUME NEW l \in 1..31 PROVE st[l] = (st[l + 1] + Count(tree, l + 1)) \div 2
    <3>1. l \in 1..32 /\ l # 32 /\ l + 1 \in 1..32
      OBVIOUS
    <3>2. st[l] = (st[l + 1] + cs[l + 1]) \div 2 /\ cs[l + 1] = Count(tree, l + 1)
      BY <1>1, <2>1, <3>1, Zenon
    <3> QED
      BY <3>2, Zenon
  <2> QED
    BY <2>3, <2>4
<1>9. \A l \in 1..32 : Starts(tree)[l] = [at |-> st[l], count |-> cs[l]]
  <2> DEFINE From(count) == CHOOSE f : f = [l \in 1..32 |-> IF l = 32 THEN 0 ELSE (f[l + 1] + count[l + 1]) \div 2]
             All(count) == [l \in 1..32 |-> [at |-> From(count)[l], count |-> count[l]]]
  <2>1. Starts(tree) = Table(All(Table(cs)))
    BY Zenon DEF Starts
  <2> HIDE DEF All
  <2>2. Table(cs) = cs /\ Table(All(cs)) = All(cs)
    BY TableIs
  <2>3. Starts(tree) = All(cs)
    BY <2>1, <2>2, Zenon
  <2> HIDE DEF From
  <2>4. st = From(cs)
    BY Zenon DEF From
  <2> HIDE DEF st, cs
  <2> QED
    BY <2>3, <2>4, Zenon DEF All
<1>10. st \in [1..32 -> Nat]
  <2> DEFINE T == {k \in Nat : k <= 31 => st[32 - k] \in Nat}
  <2>1. st = [l \in 1..32 |-> IF l = 32 THEN 0 ELSE (st[l + 1] + cs[l + 1]) \div 2]
    BY <1>7
  <2> HIDE DEF st, cs
  <2>2. 0 \in T
    BY <1>8
  <2>3. ASSUME NEW k \in T PROVE k + 1 \in T
    <3>1. k \in Nat
      OBVIOUS
    <3>2. ASSUME k + 1 <= 31 PROVE st[32 - (k + 1)] \in Nat
      <4>1. k <= 31 /\ 32 - (k + 1) \in 1..31 /\ (32 - (k + 1)) + 1 = 32 - k
        BY <3>1, <3>2
      <4>2. st[32 - k] \in Nat /\ Count(tree, 32 - k) \in Nat
        BY <1>2, <4>1
      <4>3. st[32 - (k + 1)] = (st[32 - k] + Count(tree, 32 - k)) \div 2
        BY <1>8, <4>1, Zenon
      <4>4. \A x \in Nat : \A y \in Nat : (x + y) \div 2 \in Nat
        OBVIOUS
      <4> QED
        BY <4>2, <4>3, <4>4, Zenon
    <3> QED
      BY <3>1, <3>2
  <2> HIDE DEF T
  <2>4. T = Nat
    <3>1. T \in SUBSET Nat
      BY DEF T
    <3> QED
      BY <2>2, <2>3, <3>1, Counting
  <2>5. ASSUME NEW l \in 1..32 PROVE st[l] \in Nat
    <3>1. 32 - l \in Nat /\ 32 - l <= 31 /\ 32 - (32 - l) = l
      OBVIOUS
    <3>2. 32 - l \in T
      BY <2>4, <3>1
    <3> QED
      BY <3>1, <3>2 DEF T
  <2>6. DOMAIN st = 1..32 /\ st = [l \in 1..32 |-> st[l]]
    BY <2>1
  <2> QED
    BY <2>5, <2>6
<1>11. \A l \in 1..32 : Starts(tree)[l].at = st[l] /\ Starts(tree)[l].count = Count(tree, l)
  <2> HIDE DEF st, cs
  <2> QED
    BY <1>1, <1>9
<1> HIDE DEF st
<1> QED
  BY <1>8, <1>10, <1>11, Zenon DEF StartsRun

\* In a tree that is accepted none of the halves is rounded; one that fits needs no more
\* than the two codes of one bit there are.
Balanced(tree, st) ==
  /\ \A l \in 1..32 : st[l] \in Nat /\ Count(tree, l) \in Nat
  /\ \A l \in 2..32 : st[l] + Count(tree, l) = 2 * st[l - 1]
LEMMA StartsBalance ==
  ASSUME NEW tree, NEW maxbits, CodeTree(tree, maxbits), ConsistentTree(tree, maxbits), NEW st, StartsRun(tree, st)
  PROVE  Balanced(tree, st)
<1>1. \A l \in 1..32 : st[l] \in Nat /\ Count(tree, l) \in Nat
  <2>1. st \in [1..32 -> Nat] /\ \A l : Count(tree, l) \in Nat
    BY Counts DEF StartsRun
  <2> QED
    BY <2>1
<1>2. ASSUME NEW l \in 2..32 PROVE st[l] + Count(tree, l) = 2 * st[l - 1]
  <2>1. l - 1 \in 1..31 /\ l \in 1..32 /\ (l - 1) + 1 = l
    OBVIOUS
  <2>2. st[l - 1] = (st[l] + Count(tree, l)) \div 2
    BY <2>1, Zenon DEF StartsRun
  <2>3. (Starts(tree)[l].at + Starts(tree)[l].count) % 2 = 0
    BY Zenon DEF ConsistentTree
  <2>4. Starts(tree)[l].at = st[l] /\ Starts(tree)[l].count = Count(tree, l)
    BY <2>1, Zenon DEF StartsRun
  <2>5. (st[l] + Count(tree, l)) % 2 = 0
    BY <2>3, <2>4, Zenon
  <2>6. \A x \in Nat : \A y \in Nat : (x + y) % 2 = 0 => x + y = 2 * ((x + y) \div 2)
    OBVIOUS
  <2>7. st[l] \in Nat /\ Count(tree, l) \in Nat
    BY <1>1, <2>1
  <2> QED
    BY <2>2, <2>5, <2>6, <2>7, Zenon
<1> QED
  BY <1>1, <1>2 DEF Balanced

Fits(tree) == Starts(tree)[1].at + Starts(tree)[1].count <= 2
Below(tree, st) == \A l \in 1..32 : st[l] + Count(tree, l) <= 2^l
LEMMA CodesFit ==
  ASSUME NEW tree, NEW st, StartsRun(tree, st), Balanced(tree, st), Fits(tree)
  PROVE  Below(tree, st)
<1> DEFINE T == {k \in Nat : k + 1 <= 32 => st[k + 1] + Count(tree, k + 1) <= 2^(k + 1)}
<1>1. 0 \in T
  <2>1. 1 \in 1..32 /\ 0 \in 0..31 /\ 0 + 1 = 1
    OBVIOUS
  <2>2. st[1] + Count(tree, 1) <= 2
    BY <2>1, Zenon DEF Fits, StartsRun
  <2>3. 2^(0 + 1) = 2
    <3>1. 2^(0 + 1) = 2 * 2^0 /\ 2^0 = 1
      BY <2>1, Powers
    <3> QED
      BY <3>1
  <2>4. st[0 + 1] + Count(tree, 0 + 1) <= 2^(0 + 1)
    BY <2>1, <2>2, <2>3, Zenon
  <2> QED
    BY <2>4
<1>2. ASSUME NEW k \in T PROVE k + 1 \in T
  <2>1. k \in Nat
    OBVIOUS
  <2>2. ASSUME (k + 1) + 1 <= 32 PROVE st[(k + 1) + 1] + Count(tree, (k + 1) + 1) <= 2^((k + 1) + 1)
    <3>1. /\ k + 1 <= 32 /\ (k + 1) + 1 \in 2..32 /\ ((k + 1) + 1) - 1 = k + 1 /\ k + 1 \in 0..31
          /\ k + 1 \in 1..32 /\ (k + 1) + 1 \in 1..32
      BY <2>1, <2>2
    <3>2. st[k + 1] + Count(tree, k + 1) <= 2^(k + 1)
      BY <3>1
    <3>3. st[(k + 1) + 1] + Count(tree, (k + 1) + 1) = 2 * st[k + 1]
      BY <3>1, Zenon DEF Balanced
    <3>4. 2^(k + 1) \in Nat /\ 2^((k + 1) + 1) = 2 * 2^(k + 1)
      BY <3>1, Powers
    <3>5. st[k + 1] \in Nat /\ Count(tree, k + 1) \in Nat
      BY <3>1, Zenon DEF Balanced
    <3>6. \A x \in Nat : \A y \in Nat : \A z \in Nat : x + y <= z => 2 * x <= 2 * z
      OBVIOUS
    <3> QED
      BY <3>2, <3>3, <3>4, <3>5, <3>6, Zenon
  <2> QED
    BY <2>1, <2>2
<1> HIDE DEF T
<1>3. T = Nat
  <2>1. T \in SUBSET Nat
    BY DEF T
  <2> QED
    BY <1>1, <1>2, <2>1, Counting
<1>4. ASSUME NEW l \in 1..32 PROVE st[l] + Count(tree, l) <= 2^l
  <2>1. l - 1 \in Nat /\ (l - 1) + 1 = l /\ l <= 32
    OBVIOUS
  <2>2. l - 1 \in T
    BY <1>3, <2>1
  <2>3. (l - 1) + 1 <= 32 => st[(l - 1) + 1] + Count(tree, (l - 1) + 1) <= 2^((l - 1) + 1)
    BY <2>2 DEF T
  <2> QED
    BY <2>1, <2>3, Zenon
<1> QED
  BY <1>4 DEF Below

\* The first bits of a longer code, as a number, are below all codes of their length.
LEMMA LongerBelow ==
  ASSUME NEW tree, NEW st, Balanced(tree, st), NEW l \in 1..32, NEW v \in Nat, v < st[l] + Count(tree, l),
         NEW n \in 1..31, n < l
  PROVE  v \div 2^n \in Nat /\ v \div 2^n < st[l - n]
<1> DEFINE T == {k \in Nat : k + 1 <= 31 /\ k + 1 < l => v \div 2^(k + 1) \in Nat /\ v \div 2^(k + 1) < st[l - (k + 1)]}
<1>0. \A x \in Nat : \A y \in Nat : x < 2 * y => x \div 2 < y /\ x \div 2 \in Nat
  OBVIOUS
<1>1. 0 \in T
  <2>1. ASSUME 1 < l PROVE v \div 2^(0 + 1) \in Nat /\ v \div 2^(0 + 1) < st[l - (0 + 1)]
    <3>1. 0 \in 0..31 /\ 0 + 1 = 1 /\ l \in 2..32 /\ l - 1 \in 1..32
      BY <2>1
    <3>2. 2^(0 + 1) = 2
      <4>1. 2^(0 + 1) = 2 * 2^0 /\ 2^0 = 1
        BY <3>1, Powers
      <4> QED
        BY <4>1
    <3>3. st[l] + Count(tree, l) = 2 * st[l - 1] /\ st[l - 1] \in Nat
      BY <3>1, Zenon DEF Balanced
    <3>4. v < 2 * st[l - 1]
      BY <3>3, Zenon
    <3>5. v \div 2 < st[l - 1] /\ v \div 2 \in Nat
      BY <1>0, <3>3, <3>4, Zenon
    <3> QED
      BY <3>1, <3>2, <3>5, Zenon
  <2> QED
    BY <2>1
<1>2. ASSUME NEW k \in T PROVE k + 1 \in T
  <2>1. k \in Nat
    OBVIOUS
  <2>2. ASSUME (k + 1) + 1 <= 31, (k + 1) + 1 < l
        PROVE  v \div 2^((k + 1) + 1) \in Nat /\ v \div 2^((k + 1) + 1) < st[l - ((k + 1) + 1)]
    <3>1. /\ k + 1 <= 31 /\ k + 1 < l /\ k + 1 \in 0..31 /\ l - (k + 1) \in 2..32 /\ l - (k + 1) \in 1..32
          /\ l - ((k + 1) + 1) \in 1..32 /\ (l - (k + 1)) - 1 = l - ((k + 1) + 1)
      BY <2>1, <2>2
    <3> DEFINE x == v \div 2^(k + 1)
               y == st[l - ((k + 1) + 1)]
    <3>2. x \in Nat /\ x < st[l - (k + 1)]
      BY <3>1
    <3>3. 2^(k + 1) \in Nat /\ 2^(k + 1) > 0 /\ 2^((k + 1) + 1) = 2 * 2^(k + 1)
      BY <3>1, Powers
    <3>4. v \div (2 * 2^(k + 1)) = x \div 2
      BY <3>3, QuotientHalf
    <3>5. st[l - (k + 1)] + Count(tree, l - (k + 1)) = 2 * y /\ y \in Nat
      BY <3>1, Zenon DEF Balanced
    <3>6. st[l - (k + 1)] \in Nat /\ Count(tree, l - (k + 1)) \in Nat
      BY <3>1, Zenon DEF Balanced
    <3> HIDE DEF x, y
    <3>7. x < 2 * y
      <4>1. \A a \in Nat : \A b \in Nat : \A c \in Nat : \A d \in Nat : (a < b /\ b + c = 2 * d) => a < 2 * d
        OBVIOUS
      <4> QED
        BY <3>2, <3>5, <3>6, <4>1, Zenon
    <3>8. x \div 2 < y /\ x \div 2 \in Nat
      BY <1>0, <3>2, <3>5, <3>7, Zenon
    <3>9. v \div 2^((k + 1) + 1) = x \div 2
      BY <3>3, <3>4, Zenon
    <3> QED
      BY <3>8, <3>9, Zenon DEF y
  <2> QED
    BY <2>1, <2>2
<1> HIDE DEF T
<1>3. T = Nat
  <2>1. T \in SUBSET Nat
    BY DEF T
  <2> QED
    BY <1>1, <1>2, <2>1, Counting
<1>4. n - 1 \in Nat /\ (n - 1) + 1 = n /\ n <= 31
  OBVIOUS
<1>5. n - 1 \in T
  BY <1>3, <1>4
<1>6. (n - 1) + 1 <= 31 /\ (n - 1) + 1 < l
      => v \div 2^((n - 1) + 1) \in Nat /\ v \div 2^((n - 1) + 1) < st[l - ((n - 1) + 1)]
  BY <1>5 DEF T
<1> QED
  BY <1>4, <1>6, Zenon

LEMMA QuotientTwice ==
  ASSUME NEW v \in Nat, NEW a \in 0..31, NEW b \in 0..31, a + b <= 31
  PROVE  v \div 2^(a + b) = (v \div 2^a) \div 2^b
<1> DEFINE u == v \div 2^a
           T == {k \in Nat : a + k <= 31 => v \div 2^(a + k) = u \div 2^k}
<1>0. u \in Nat
  <2>1. 2^a \in Nat /\ 2^a > 0
    BY Powers
  <2> QED
    BY <2>1, Quotient
<1>1. 0 \in T
  <2>1. a + 0 = a /\ 0 \in 0..31
    OBVIOUS
  <2>2. 2^0 = 1
    BY <2>1, Powers
  <2>3. v \div 2^(a + 0) = u
    BY <2>1, Zenon
  <2> HIDE DEF u
  <2>4. u \div 1 = u
    BY <1>0
  <2> QED
    BY <2>2, <2>3, <2>4
<1> HIDE DEF u
<1>2. ASSUME NEW k \in T PROVE k + 1 \in T
  <2>1. k \in Nat
    OBVIOUS
  <2>2. ASSUME a + (k + 1) <= 31 PROVE v \div 2^(a + (k + 1)) = u \div 2^(k + 1)
    <3>1. a + k <= 31 /\ a + k \in 0..31 /\ k \in 0..31 /\ a + (k + 1) = (a + k) + 1
      BY <2>1, <2>2
    <3> DEFINE m == 2^(a + k)
               n == 2^k
    <3>2. m \in Nat /\ m > 0 /\ 2^((a + k) + 1) = 2 * m
      BY <3>1, Powers
    <3>3. n \in Nat /\ n > 0 /\ 2^(k + 1) = 2 * n
      BY <3>1, Powers
    <3>4. v \div m = u \div n
      BY <3>1
    <3> HIDE DEF m, n
    <3>5. v \div (2 * m) = (v \div m) \div 2
      BY <3>2, QuotientHalf
    <3>6. u \div (2 * n) = (u \div n) \div 2
      BY <1>0, <3>3, QuotientHalf
    <3> QED
      BY <3>1, <3>2, <3>3, <3>4, <3>5, <3>6, Zenon
  <2> QED
    BY <2>1, <2>2
<1> HIDE DEF T
<1>3. T = Nat
  <2>1. T \in SUBSET Nat
    BY DEF T
  <2> QED
    BY <1>1, <1>2, <2>1, Counting
<1>4. b \in T
  BY <1>3
<1>5. v \div 2^(a + b) = u \div 2^b
  BY <1>4 DEF T
<1> QED
  BY <1>5, Zenon DEF u

\* The first bits of a number are those of its quotient.
LEMMA FirstBits ==
  ASSUME NEW v \in Nat, NEW n \in 0..32, NEW k \in 0..n, NEW j \in 1..k
  PROVE  ToBits(v, n)[j] = ToBits(v \div 2^(n - k), k)[j]
<1>1. /\ n - k \in 0..31 /\ k - j \in 0..31 /\ (n - k) + (k - j) = n - j /\ (n - k) + (k - j) <= 31
      /\ j \in 1..n
  OBVIOUS
<1>2. v \div 2^((n - k) + (k - j)) = (v \div 2^(n - k)) \div 2^(k - j)
  BY <1>1, QuotientTwice
<1>3. ToBits(v, n)[j] = (v \div 2^(n - j)) % 2
  BY <1>1, Zenon DEF ToBits
<1>4. ToBits(v \div 2^(n - k), k)[j] = ((v \div 2^(n - k)) \div 2^(k - j)) % 2
  BY Zenon DEF ToBits
<1> QED
  BY <1>1, <1>2, <1>3, <1>4, Zenon

\* The place of a code among those of its length.
Rank(tree, c) == Cardinality({d \in Used(tree) : d < c /\ tree[d] = tree[c]})
LEMMA RankIs ==
  ASSUME NEW tree, NEW maxbits, CodeTree(tree, maxbits), NEW c \in Used(tree)
  PROVE  Rank(tree, c) \in Nat /\ Rank(tree, c) < Count(tree, tree[c])
<1> DEFINE R == {d \in Used(tree) : d < c /\ tree[d] = tree[c]}
           L == OfLength(tree, tree[c])
<1>1. IsFiniteSet(L) /\ Cardinality(L) \in Nat
  BY Counts DEF Count
<1>2. c \in L /\ c \notin R /\ R \in SUBSET L
  BY DEF Used, OfLength, CodeTree
<1> HIDE DEF R, L
<1>3. IsFiniteSet(R) /\ Cardinality(R) <= Cardinality(L) /\ (Cardinality(L) = Cardinality(R) => L = R)
  BY <1>1, <1>2, FS_Subset
<1>4. Cardinality(R) \in Nat
  BY <1>3, FS_CardinalityType
<1>5. Cardinality(R) # Cardinality(L)
  BY <1>2, <1>3
<1>6. Cardinality(R) < Cardinality(L)
  BY <1>1, <1>3, <1>4, <1>5
<1> QED
  BY <1>4, <1>6 DEF R, L, Rank, Count

LEMMA RanksDiffer ==
  ASSUME NEW tree, NEW maxbits, CodeTree(tree, maxbits), NEW c \in Used(tree), NEW d \in Used(tree),
         tree[c] = tree[d], c < d
  PROVE  Rank(tree, c) < Rank(tree, d)
<1> DEFINE R == {e \in Used(tree) : e < c /\ tree[e] = tree[c]}
           S == {e \in Used(tree) : e < d /\ tree[e] = tree[d]}
<1>1. IsFiniteSet(S)
  <2>1. S \in SUBSET DOMAIN tree /\ IsFiniteSet(DOMAIN tree)
    BY DEF Used, CodeTree
  <2> QED
    BY <2>1, FS_Subset
<1>2. c \in S /\ c \notin R /\ R \in SUBSET S
  <2>1. \A e \in Used(tree) : e \in Nat
    BY DEF Used, CodeTree
  <2> QED
    BY <2>1
<1> HIDE DEF R, S
<1>3. IsFiniteSet(R) /\ Cardinality(R) <= Cardinality(S) /\ (Cardinality(S) = Cardinality(R) => S = R)
  BY <1>1, <1>2, FS_Subset
<1>4. Cardinality(R) \in Nat /\ Cardinality(S) \in Nat
  BY <1>1, <1>3, FS_CardinalityType
<1>5. Cardinality(R) # Cardinality(S)
  BY <1>2, <1>3
<1>6. Cardinality(R) < Cardinality(S)
  BY <1>3, <1>4, <1>5
<1> QED
  BY <1>6 DEF R, S, Rank

\* The codes as numbers.
Number(tree, st, c) == st[tree[c]] + Rank(tree, c)
CodeIs(tree, st, c) ==
  /\ tree[c] \in 1..32 /\ Number(tree, st, c) \in Nat /\ Number(tree, st, c) < 2^tree[c]
  /\ st[tree[c]] <= Number(tree, st, c) /\ Number(tree, st, c) < st[tree[c]] + Count(tree, tree[c])
  /\ Coder(tree)[c] = ToBits(Number(tree, st, c), tree[c])
LEMMA CodesAre ==
  ASSUME NEW tree, NEW maxbits, CodeTree(tree, maxbits), NEW st, StartsRun(tree, st), Balanced(tree, st), Below(tree, st),
         NEW c \in Used(tree)
  PROVE  CodeIs(tree, st, c)
<1> DEFINE l == tree[c]
<1>1. l \in 1..25 /\ l \in 1..32 /\ l <= maxbits
  <2>1. tree[c] \in 0..maxbits /\ tree[c] > 0 /\ maxbits \in 0..25
    BY DEF CodeTree, Used
  <2> QED
    BY <2>1
<1>2. Rank(tree, c) \in Nat /\ Rank(tree, c) < Count(tree, l)
  BY RankIs
<1>3. Coder(tree) = [d \in Used(tree) |-> ToBits(Starts(tree)[tree[d]].at + Rank(tree, d), tree[d])]
  <2> DEFINE f == [d \in Used(tree) |-> ToBits(Starts(tree)[tree[d]].at + Rank(tree, d), tree[d])]
  <2>1. Coder(tree) = Table(f)
    BY Zenon DEF Coder, Rank
  <2> HIDE DEF f
  <2>2. Coder(tree) = f
    BY <2>1, TableIs
  <2> QED
    BY <2>2 DEF f
<1> HIDE DEF l
<1>4. Coder(tree)[c] = ToBits(Starts(tree)[l].at + Rank(tree, c), l)
  BY <1>3, Zenon DEF l
<1>5. Starts(tree)[l].at = st[l]
  BY <1>1, Zenon DEF StartsRun
<1>6. st[l] \in Nat /\ Count(tree, l) \in Nat
  BY <1>1, Zenon DEF Balanced
<1>7. st[l] + Count(tree, l) <= 2^l
  BY <1>1, Zenon DEF Below
<1>8. 2^l \in Nat
  <2>1. l \in 0..31
    BY <1>1
  <2> QED
    BY <2>1, Powers
<1>9. st[l] + Rank(tree, c) \in Nat /\ st[l] + Rank(tree, c) < st[l] + Count(tree, l) /\ st[l] + Rank(tree, c) < 2^l
      /\ st[l] <= st[l] + Rank(tree, c)
  BY <1>2, <1>6, <1>7, <1>8
<1>10. Coder(tree)[c] = ToBits(st[l] + Rank(tree, c), l)
  BY <1>4, <1>5, Zenon
<1> QED
  BY <1>1, <1>9, <1>10, Zenon DEF CodeIs, Number, l

LEMMA CodesIn ==
  ASSUME NEW tree
  PROVE  DOMAIN Coder(tree) = Used(tree)
<1> DEFINE f == [d \in Used(tree) |-> ToBits(Starts(tree)[tree[d]].at + Rank(tree, d), tree[d])]
<1>1. Coder(tree) = Table(f)
  BY Zenon DEF Coder, Rank
<1>2. DOMAIN f = Used(tree)
  OBVIOUS
<1> HIDE DEF f
<1>3. Coder(tree) = f
  BY <1>1, TableIs
<1> QED
  BY <1>2, <1>3, Zenon

\* No code is the beginning of another.
Prefixed(a, b) == Len(a) <= Len(b) /\ \A k \in 1..Len(a) : b[k] = a[k]
Decodable(coder, maxbits) ==
  /\ maxbits \in 0..25
  /\ \A c \in DOMAIN coder : coder[c] \in Words /\ Len(coder[c]) <= maxbits
  /\ \A c, d \in DOMAIN coder : Prefixed(coder[c], coder[d]) => c = d

LEMMA CodesPrefixFree ==
  ASSUME NEW tree, NEW maxbits, CodeTree(tree, maxbits), NEW st, Balanced(tree, st),
         NEW c \in Used(tree), NEW d \in Used(tree), CodeIs(tree, st, c), CodeIs(tree, st, d),
         Prefixed(Coder(tree)[c], Coder(tree)[d])
  PROVE  c = d
<1> DEFINE k == tree[c]
           n == tree[d]
           u == Number(tree, st, c)
           v == Number(tree, st, d)
           a == ToBits(u, k)
           b == ToBits(v, n)
<1>1. /\ k \in 1..32 /\ u \in Nat /\ u < 2^k /\ st[k] <= u /\ Coder(tree)[c] = a
      /\ n \in 1..32 /\ v \in Nat /\ v < 2^n /\ v < st[n] + Count(tree, n) /\ Coder(tree)[d] = b
  BY Zenon DEF CodeIs
<1>2. k \in 0..32 /\ n \in 0..32
  BY <1>1
<1> HIDE DEF u, v, k, n
<1>3. a \in Words /\ Len(a) = k /\ FromBits(a) = u
  BY <1>1, <1>2, NumbersComeBack
<1>4. b \in Words /\ Len(b) = n /\ FromBits(b) = v
  BY <1>1, <1>2, NumbersComeBack
<1>5. k <= n /\ \A j \in 1..k : b[j] = a[j]
  <2> HIDE DEF a, b
  <2> QED
    BY <1>1, <1>3, <1>4, Zenon DEF Prefixed
<1>6. k = n
  <2> SUFFICES ASSUME k # n PROVE FALSE
    OBVIOUS
  <2>1. n - k \in 1..31 /\ n - k < n /\ n - (n - k) = k /\ k \in 0..n
    BY <1>1, <1>2, <1>5
  <2> DEFINE x == v \div 2^(n - k)
  <2>2. x \in Nat /\ x < st[n - (n - k)]
    BY <1>1, <2>1, LongerBelow
  <2>3. x < st[k]
    BY <2>1, <2>2, Zenon
  <2>4. st[k] \in Nat
    BY <1>1, Zenon DEF Balanced
  <2> HIDE DEF x
  <2>5. 2^k \in Nat
    <3>1. k = 32 \/ k \in 0..31
      BY <1>1
    <3>2. 2^32 \in Nat
      OBVIOUS
    <3>3. k \in 0..31 => 2^k \in Nat
      BY Powers
    <3> QED
      BY <3>1, <3>2, <3>3, Zenon
  <2>6. x < 2^k /\ x < u
    BY <1>1, <2>2, <2>3, <2>4, <2>5
  <2> DEFINE e == ToBits(x, k)
  <2>7. e \in Words /\ Len(e) = k /\ FromBits(e) = x
    BY <1>2, <2>2, <2>6, NumbersComeBack
  <2>8. ASSUME NEW j \in 1..k PROVE e[j] = a[j]
    <3>1. ToBits(v, n)[j] = ToBits(v \div 2^(n - k), k)[j]
      BY <1>1, <1>2, <2>1, FirstBits
    <3> HIDE DEF a
    <3>2. b[j] = a[j]
      BY <1>5, Zenon
    <3> QED
      BY <3>1, <3>2, Zenon DEF x
  <2> HIDE DEF e, a
  <2>9. e = a
    BY <1>3, <2>7, <2>8, SameWord
  <2>10. x = u
    BY <1>3, <2>7, <2>9, Zenon
  <2> QED
    BY <1>1, <2>2, <2>6, <2>10
<1>7. a = b
  <2> HIDE DEF a, b
  <2> QED
    BY <1>3, <1>4, <1>5, <1>6, SameWord
<1>8. u = v
  <2> HIDE DEF a, b
  <2> QED
    BY <1>3, <1>4, <1>7, Zenon
<1>9. Rank(tree, c) = Rank(tree, d)
  <2>1. u = st[k] + Rank(tree, c) /\ v = st[k] + Rank(tree, d)
    BY <1>6, Zenon DEF u, v, k, n, Number
  <2>2. Rank(tree, c) \in Nat /\ Rank(tree, d) \in Nat
    BY RankIs
  <2>3. st[k] \in Nat
    BY <1>1, Zenon DEF Balanced
  <2>4. \A x \in Nat : \A y \in Nat : \A z \in Nat : x + y = x + z => y = z
    OBVIOUS
  <2>5. st[k] + Rank(tree, c) = st[k] + Rank(tree, d)
    BY <1>8, <2>1, Zenon
  <2> QED
    BY <2>2, <2>3, <2>4, <2>5, Zenon
<1>10. tree[c] = tree[d]
  BY <1>6 DEF k, n
<1>11. c \in Nat /\ d \in Nat /\ Rank(tree, c) \in Nat /\ Rank(tree, d) \in Nat
  <2>1. Rank(tree, c) \in Nat /\ Rank(tree, d) \in Nat
    BY RankIs
  <2> QED
    BY <2>1 DEF CodeTree, Used
<1>12. ~(c < d)
  <2>1. c < d => Rank(tree, c) < Rank(tree, d)
    BY <1>10, RanksDiffer
  <2> QED
    BY <1>9, <1>11, <2>1
<1>13. ~(d < c)
  <2>1. d < c => Rank(tree, d) < Rank(tree, c)
    BY <1>10, RanksDiffer
  <2> QED
    BY <1>9, <1>11, <2>1
<1> QED
  BY <1>11, <1>12, <1>13

\* The canonical codes of a tree that is accepted and fits can be told apart
\* (huffman.cpp: assign_canonical_codes).
THEOREM CanonicalCodes ==
  ASSUME NEW tree, NEW maxbits, CodeTree(tree, maxbits), ConsistentTree(tree, maxbits), Fits(tree)
  PROVE  Decodable(Coder(tree), maxbits)
<1>1. PICK st : StartsRun(tree, st)
  BY StartsAre
<1>2. Balanced(tree, st)
  BY <1>1, StartsBalance
<1>3. Below(tree, st)
  BY <1>1, <1>2, CodesFit
<1>4. DOMAIN Coder(tree) = Used(tree)
  BY CodesIn
<1>5. \A c \in Used(tree) : CodeIs(tree, st, c)
  BY <1>1, <1>2, <1>3, CodesAre
<1>6. maxbits \in 0..25
  BY DEF CodeTree
<1>7. ASSUME NEW c \in Used(tree) PROVE Coder(tree)[c] \in Words /\ Len(Coder(tree)[c]) <= maxbits
  <2>1. CodeIs(tree, st, c)
    BY <1>5
  <2>2. tree[c] \in 1..32 /\ Number(tree, st, c) \in Nat /\ Number(tree, st, c) < 2^tree[c]
        /\ Coder(tree)[c] = ToBits(Number(tree, st, c), tree[c])
    BY <2>1, Zenon DEF CodeIs
  <2>3. tree[c] \in 0..32 /\ tree[c] <= maxbits
    BY <2>2 DEF CodeTree, Used
  <2> DEFINE w == ToBits(Number(tree, st, c), tree[c])
  <2>4. w \in Words /\ Len(w) = tree[c]
    BY <2>2, <2>3, NumbersComeBack
  <2> HIDE DEF w
  <2> QED
    BY <2>2, <2>3, <2>4, Zenon DEF w
<1>8. ASSUME NEW c \in Used(tree), NEW d \in Used(tree), Prefixed(Coder(tree)[c], Coder(tree)[d]) PROVE c = d
  <2>1. CodeIs(tree, st, c) /\ CodeIs(tree, st, d)
    BY <1>5
  <2> QED
    BY <1>2, <1>8, <2>1, CodesPrefixFree
<1> QED
  BY <1>4, <1>6, <1>7, <1>8, Zenon DEF Decodable

\* The reader finds the code that comes next, and moves behind it.
Behind(coder, maxbits, i, c) == RemoveBits(Peeked(i, maxbits), Len(coder[c]))
Decoded(coder, maxbits, i, c, d, p) ==
  /\ DecodeOne(i, coder, maxbits) = <<c, Behind(coder, maxbits, i, c)>>
  /\ ReadingAt(Behind(coder, maxbits, i, c), d, p + Len(coder[c]))
LEMMA DecodesOne ==
  ASSUME NEW coder, NEW maxbits, Decodable(coder, maxbits), NEW c \in DOMAIN coder,
         NEW d \in Words, NEW p \in Nat, NEW i, ReadingAt(i, d, p), Window(d, p, Len(coder[c])) = coder[c]
  PROVE  Decoded(coder, maxbits, i, c, d, p)
<1> DEFINE j == Peeked(i, maxbits)
           Match(e) == SubSeq(j.buffer, 1, Len(coder[e])) = coder[e]
           found == CHOOSE e \in DOMAIN coder : Match(e)
<1>1. maxbits \in Nat /\ maxbits <= 25
  BY DEF Decodable
<1>2. ReadingAt(j, d, p) /\ maxbits <= Len(j.buffer)
  BY <1>1, PeekFills
<1>3. Len(j.buffer) \in Nat
  <2>1. j.buffer \in Words
    BY <1>2 DEF ReadingAt, InStreams
  <2> QED
    BY <2>1, WordLen
<1>4. \A e \in DOMAIN coder : coder[e] \in Words /\ Len(coder[e]) \in Nat /\ Len(coder[e]) <= Len(j.buffer)
  <2> TAKE e \in DOMAIN coder
  <2>1. coder[e] \in Words /\ Len(coder[e]) <= maxbits
    BY Zenon DEF Decodable
  <2>2. Len(coder[e]) \in Nat
    BY <2>1, WordLen
  <2> HIDE DEF j
  <2> QED
    BY <1>1, <1>2, <1>3, <2>1, <2>2
<1> HIDE DEF j
<1>5. \A e \in DOMAIN coder : ReadingAt(RemoveBits(j, Len(coder[e])), d, p + Len(coder[e]))
                              /\ SubSeq(j.buffer, 1, Len(coder[e])) = Window(d, p, Len(coder[e]))
  <2> TAKE e \in DOMAIN coder
  <2>1. Len(coder[e]) \in Nat /\ Len(coder[e]) <= Len(j.buffer)
    BY <1>4
  <2> QED
    BY <1>2, <2>1, RemoveMoves
<1>6. ASSUME NEW e \in DOMAIN coder, NEW f \in DOMAIN coder, Len(coder[e]) <= Len(coder[f]),
             Window(d, p, Len(coder[e])) = coder[e], Window(d, p, Len(coder[f])) = coder[f]
      PROVE  e = f
  <2> DEFINE m == Len(coder[e])
             n == Len(coder[f])
  <2>1. m \in Nat /\ n \in Nat /\ m <= n
    BY <1>4, <1>6
  <2> HIDE DEF m, n
  <2>2. \A k \in 1..m : Window(d, p, m)[k] = BitAt(d, p + k)
    BY <2>1, Windows
  <2>3. \A k \in 1..n : Window(d, p, n)[k] = BitAt(d, p + k)
    BY <2>1, Windows
  <2>4. \A k \in 1..m : k \in 1..n
    BY <2>1
  <2>5. \A k \in 1..m : coder[f][k] = coder[e][k]
    BY <1>6, <2>2, <2>3, <2>4, Zenon DEF m, n
  <2>6. Prefixed(coder[e], coder[f])
    BY <1>6, <2>5, Zenon DEF Prefixed, m
  <2> QED
    BY <2>6, Zenon DEF Decodable
<1>7. Match(c)
  BY <1>5, Zenon
<1>8. found \in DOMAIN coder /\ Match(found)
  BY <1>7, Zenon
<1> HIDE DEF found
<1>9. Window(d, p, Len(coder[found])) = coder[found]
  BY <1>5, <1>8, Zenon
<1>10. found = c
  <2>1. Len(coder[found]) <= Len(coder[c]) => found = c
    BY <1>6, <1>8, <1>9
  <2>2. Len(coder[c]) <= Len(coder[found]) => c = found
    BY <1>6, <1>8, <1>9
  <2>3. Len(coder[found]) \in Nat /\ Len(coder[c]) \in Nat
    BY <1>4, <1>8, Zenon
  <2>4. \A x \in Nat : \A y \in Nat : x <= y \/ y <= x
    OBVIOUS
  <2> QED
    BY <2>1, <2>2, <2>3, <2>4, Zenon
<1>11. DecodeOne(i, coder, maxbits) = <<found, RemoveBits(j, Len(coder[found]))>>
  BY Zenon DEF DecodeOne, found, j
<1>12. DecodeOne(i, coder, maxbits) = <<c, RemoveBits(j, Len(coder[c]))>>
  BY <1>10, <1>11, Zenon
<1>13. ReadingAt(RemoveBits(j, Len(coder[c])), d, p + Len(coder[c]))
  BY <1>5, Zenon
<1> QED
  BY <1>12, <1>13, Zenon DEF Decoded, Behind, j

\* The words of a source, and that encoding writes them one behind the other.
WordsOf(coder, source) == [k \in 1..Len(source) |-> coder[source[k]]]
LEMMA EncodesRun ==
  ASSUME NEW coder, NEW S, NEW source \in Seq(S), NEW o, NEW f,
         Len(WordsOf(coder, source)) = Len(source), WriteRun(o, WordsOf(coder, source), f)
  PROVE  EncodeAll(o, coder, source) = f[Len(source)]
<1> DEFINE m == Len(source)
           w == WordsOf(coder, source)
           Rec(e) == e = [k \in 0..m |-> IF k = 0 THEN o ELSE EncodeOne(e[k - 1], coder, source[k])]
<1>0. m \in Nat /\ m \in 0..m
  OBVIOUS
<1>1. w = [j \in 1..m |-> coder[source[j]]]
  BY Zenon DEF WordsOf
<1>2. f \in [0..m -> GoodOut] /\ f[0] = o /\ \A k \in 1..m : f[k] = WriteBits(f[k - 1], w[k])
  BY Zenon DEF WriteRun
<1> HIDE DEF w, m
<1>3. \A k \in 1..m : f[k] = EncodeOne(f[k - 1], coder, source[k])
  BY <1>1, <1>2, Zenon DEF EncodeOne
<1>4. Rec(f)
  BY <1>2, <1>3
<1> DEFINE h == CHOOSE e : Rec(e)
<1>5. Rec(h)
  BY <1>4, Zenon
<1>6. EncodeAll(o, coder, source) = h[m]
  BY Zenon DEF EncodeAll, Fold, m
<1> HIDE DEF h
<1>7. h[0] = o /\ \A k \in 1..m : h[k] = EncodeOne(h[k - 1], coder, source[k])
  <2>1. 0 \in 0..m /\ \A k \in 1..m : k \in 0..m /\ k # 0
    BY <1>0
  <2> QED
    BY <1>5, <2>1, Zenon
<1>8. \A k \in 0..m : f[k] = h[k]
  <2>1. Alike(m, f, h)
    BY <1>2, <1>3, <1>7, Zenon DEF Alike
  <2> QED
    BY <1>0, <2>1, Agree
<1> QED
  BY <1>0, <1>6, <1>8, Zenon DEF m

LEMMA WordsOfCodes ==
  ASSUME NEW coder, NEW maxbits, Decodable(coder, maxbits), NEW source \in Seq(DOMAIN coder)
  PROVE  /\ WordsOf(coder, source) \in Seq(Words) /\ Len(WordsOf(coder, source)) = Len(source)
         /\ \A k \in 1..Len(source) : WordsOf(coder, source)[k] = coder[source[k]]
<1> DEFINE m == Len(source)
           w == WordsOf(coder, source)
<1>0. m \in Nat /\ \A k \in 1..m : source[k] \in DOMAIN coder
  OBVIOUS
<1> HIDE DEF m
<1>1. w = [k \in 1..m |-> coder[source[k]]]
  BY Zenon DEF WordsOf, m
<1>2. \A k \in 1..m : coder[source[k]] \in Words
  BY <1>0, Zenon DEF Decodable
<1> HIDE DEF w
<1>3. w \in Seq(Words) /\ Len(w) = m
  BY <1>0, <1>1, <1>2
<1> QED
  BY <1>1, <1>3, Zenon DEF w, m

Firsts(s, k) == Append(SubSeq(s, 1, k - 1), s[k]) = SubSeq(s, 1, k)
LEMMA FirstOnes ==
  ASSUME NEW S, NEW s \in Seq(S)
  PROVE  /\ SubSeq(s, 1, 0) = <<>> /\ SubSeq(s, 1, Len(s)) = s
         /\ \A k \in 1..Len(s) : Firsts(s, k)
<1> DEFINE m == Len(s)
<1>0. m \in Nat /\ \A k \in 1..m : s[k] \in S
  OBVIOUS
<1>1. \A k \in 0..m : SubSeq(s, 1, k) \in Seq(S) /\ Len(SubSeq(s, 1, k)) = k /\ \A j \in 1..k : SubSeq(s, 1, k)[j] = s[j]
  <2> TAKE k \in 0..m
  <2>1. \A j \in 1..k : s[j] \in S
    BY <1>0
  <2> QED
    BY <1>0, <2>1
<1>2. SubSeq(s, 1, 0) = <<>>
  BY <1>0
<1>3. SubSeq(s, 1, m) = s
  <2> DEFINE t == SubSeq(s, 1, m)
  <2>1. m \in 0..m
    BY <1>0
  <2>2. t \in Seq(S) /\ Len(t) = m /\ \A j \in 1..m : t[j] = s[j]
    BY <1>1, <2>1, Zenon
  <2> HIDE DEF t
  <2>3. t = s
    BY <2>2, SeqEqual DEF m
  <2> QED
    BY <2>3 DEF t
<1>4. ASSUME NEW k \in 1..m PROVE Firsts(s, k)
  <2> DEFINE a == SubSeq(s, 1, k - 1)
             b == SubSeq(s, 1, k)
             c == Append(a, s[k])
  <2>1. k - 1 \in 0..m /\ k \in 0..m /\ k \in Nat
    BY <1>0
  <2>2. a \in Seq(S) /\ Len(a) = k - 1 /\ \A j \in 1..(k - 1) : a[j] = s[j]
    BY <1>1, <2>1, Zenon
  <2>3. b \in Seq(S) /\ Len(b) = k /\ \A j \in 1..k : b[j] = s[j]
    BY <1>1, <2>1, Zenon
  <2> HIDE DEF a, b, m
  <2>4. c \in Seq(S) /\ Len(c) = k /\ c[k] = s[k] /\ \A j \in 1..(k - 1) : c[j] = a[j]
    <3>1. s[k] \in S
      BY <1>0
    <3> QED
      BY <2>1, <2>2, <3>1
  <2> HIDE DEF c
  <2>5. \A j \in 1..k : c[j] = b[j]
    <3> TAKE j \in 1..k
    <3>1. j = k \/ j \in 1..(k - 1)
      BY <2>1
    <3> QED
      BY <2>2, <2>3, <2>4, <3>1, Zenon
  <2>6. c = b
    BY <2>3, <2>4, <2>5, SeqEqual
  <2> QED
    BY <2>6 DEF Firsts, a, b, c
<1> QED
  BY <1>2, <1>3, <1>4 DEF m

\* The streams a reader of the source goes through.
DecodeRun(coder, maxbits, source, d, f, r) ==
  /\ \A k \in 0..Len(source) : ReadingAt(r[k], d, Place(f, k))
  /\ \A k \in 1..Len(source) : DecodeOne(r[k - 1], coder, maxbits) = <<source[k], r[k]>>
LEMMA DecodeRunExists ==
  ASSUME NEW coder, NEW maxbits, Decodable(coder, maxbits), NEW source \in Seq(DOMAIN coder),
         NEW o, NEW f, WriteRun(o, WordsOf(coder, source), f), NEW d, Flushed(f[Len(source)], d),
         NEW i, ReadingAt(i, d, Place(f, 0))
  PROVE  \E r : r[0] = i /\ DecodeRun(coder, maxbits, source, d, f, r)
<1> DEFINE m == Len(source)
           w == WordsOf(coder, source)
           to(q) == Behind(coder, maxbits, q[2], source[q[1]])
           g == [q \in Nat \X InStreams |-> IF to(q) \in InStreams THEN to(q) ELSE i]
<1>0. m \in Nat /\ \A k \in 1..m : source[k] \in DOMAIN coder
  OBVIOUS
<1>1. w \in Seq(Words) /\ Len(w) = m /\ \A k \in 1..m : w[k] = coder[source[k]]
  BY WordsOfCodes
<1>2. i \in InStreams /\ d \in Words
  BY DEF ReadingAt, Flushed
<1>3. g \in [Nat \X InStreams -> InStreams]
  <2> HIDE DEF to
  <2> QED
    BY <1>2
<1> HIDE DEF m, w
<1>4. PICK r : Ran(InStreams, g, i, m, r)
  <2> HIDE DEF g
  <2> QED
    BY <1>0, <1>2, <1>3, Recursion
<1>5. r \in [0..m -> InStreams] /\ r[0] = i /\ \A k \in 1..m : r[k] = g[<<k, r[k - 1]>>]
  BY <1>4, Zenon DEF Ran
<1>6. ASSUME NEW k \in 1..m, ReadingAt(r[k - 1], d, Place(f, k - 1))
      PROVE  ReadingAt(r[k], d, Place(f, k)) /\ DecodeOne(r[k - 1], coder, maxbits) = <<source[k], r[k]>>
  <2> DEFINE c == source[k]
             s == r[k - 1]
             p == Place(f, k - 1)
             t == Behind(coder, maxbits, s, c)
  <2>1. c \in DOMAIN coder /\ w[k] = coder[c]
    BY <1>0, <1>1
  <2>2. /\ Place(f, k - 1) \in Nat /\ Place(f, k) = Place(f, k - 1) + Len(w[k])
        /\ Window(d, Place(f, k - 1), Len(w[k])) = w[k]
    <3>1. WriteRun(o, w, f) /\ Flushed(f[Len(w)], d) /\ k \in 1..Len(w)
      BY <1>1 DEF m, w
    <3>2. Carried(w, d, f, k)
      BY <1>1, <3>1, WordsCarried
    <3> QED
      BY <3>2, Zenon DEF Carried
  <2>3. p \in Nat /\ Place(f, k) = p + Len(coder[c]) /\ Window(d, p, Len(coder[c])) = coder[c]
    BY <2>1, <2>2, Zenon
  <2>4. ReadingAt(s, d, p)
    BY <1>6
  <2> HIDE DEF c, s, p
  <2>5. Decoded(coder, maxbits, s, c, d, p)
    BY <1>2, <2>1, <2>3, <2>4, DecodesOne
  <2>6. DecodeOne(s, coder, maxbits) = <<c, t>> /\ ReadingAt(t, d, Place(f, k))
    BY <2>3, <2>5, Zenon DEF Decoded
  <2>7. r[k] = t
    <3>1. k \in Nat /\ s \in InStreams /\ t \in InStreams
      <4> HIDE DEF t
      <4> QED
        BY <2>4, <2>6 DEF ReadingAt
    <3>2. <<k, s>> \in Nat \X InStreams /\ <<k, s>>[1] = k /\ <<k, s>>[2] = s
      BY <3>1
    <3>3. to(<<k, s>>) = t
      BY <3>2, Zenon DEF c
    <3> HIDE DEF to, t
    <3>4. g[<<k, s>>] = t
      BY <3>1, <3>2, <3>3
    <3> QED
      BY <1>5, <3>4, Zenon DEF s
  <2> HIDE DEF t
  <2> QED
    BY <2>6, <2>7, Zenon DEF c, s
<1> DEFINE T == {k \in Nat : k <= m => ReadingAt(r[k], d, Place(f, k))}
<1>7. 0 \in T
  BY <1>5
<1>8. ASSUME NEW k \in T PROVE k + 1 \in T
  <2>1. k \in Nat
    OBVIOUS
  <2>2. ASSUME k + 1 <= m PROVE ReadingAt(r[k + 1], d, Place(f, k + 1))
    <3>1. k <= m /\ k + 1 \in 1..m /\ (k + 1) - 1 = k
      BY <1>0, <2>1, <2>2
    <3>2. ReadingAt(r[k], d, Place(f, k))
      BY <3>1
    <3>3. ReadingAt(r[(k + 1) - 1], d, Place(f, (k + 1) - 1))
      BY <3>1, <3>2, Zenon
    <3> QED
      BY <1>6, <3>1, <3>3
  <2> QED
    BY <2>1, <2>2
<1> HIDE DEF T
<1>9. T = Nat
  <2>1. T \in SUBSET Nat
    BY DEF T
  <2> QED
    BY <1>7, <1>8, <2>1, Counting
<1>10. \A k \in 0..m : ReadingAt(r[k], d, Place(f, k))
  BY <1>0, <1>9 DEF T
<1>11. ASSUME NEW k \in 1..m PROVE DecodeOne(r[k - 1], coder, maxbits) = <<source[k], r[k]>>
  <2>1. k - 1 \in 0..m
    BY <1>0
  <2>2. ReadingAt(r[k - 1], d, Place(f, k - 1))
    BY <1>10, <2>1, Zenon
  <2> QED
    BY <1>6, <2>2
<1> QED
  BY <1>5, <1>10, <1>11, Zenon DEF DecodeRun, m

LEMMA DecodesRun ==
  ASSUME NEW coder, NEW maxbits, NEW S, NEW source \in Seq(S), NEW d, NEW f, NEW i,
         NEW r, r[0] = i, DecodeRun(coder, maxbits, source, d, f, r)
  PROVE  DecodeAll(i, coder, maxbits, Len(source)) = <<source, r[Len(source)]>>
<1> DEFINE m == Len(source)
           one(s) == <<Append(s[1], DecodeOne(s[2], coder, maxbits)[1]), DecodeOne(s[2], coder, maxbits)[2]>>
           Rec(e) == e = [k \in 0..m |-> IF k = 0 THEN <<<<>>, i>> ELSE one(e[k - 1])]
           e == [k \in 0..m |-> <<SubSeq(source, 1, k), r[k]>>]
<1>0. m \in Nat /\ m \in 0..m /\ 0 \in 0..m
  OBVIOUS
<1>1. SubSeq(source, 1, 0) = <<>> /\ SubSeq(source, 1, m) = source /\ \A k \in 1..m : Firsts(source, k)
  BY FirstOnes
<1>2. \A k \in 1..m : DecodeOne(r[k - 1], coder, maxbits) = <<source[k], r[k]>>
  BY Zenon DEF DecodeRun
<1> HIDE DEF m
<1>3. e[0] = <<<<>>, i>> /\ e[m] = <<source, r[m]>>
  BY <1>0, <1>1, Zenon
<1>4. ASSUME NEW k \in 1..m PROVE e[k] = one(e[k - 1])
  <2>1. k \in 0..m /\ k - 1 \in 0..m
    BY <1>0
  <2> DEFINE a == SubSeq(source, 1, k - 1)
             s == <<a, r[k - 1]>>
  <2>2. e[k] = <<SubSeq(source, 1, k), r[k]>> /\ e[k - 1] = s
    BY <2>1, Zenon
  <2>3. s[1] = a /\ s[2] = r[k - 1] /\ <<source[k], r[k]>>[1] = source[k] /\ <<source[k], r[k]>>[2] = r[k]
    OBVIOUS
  <2> HIDE DEF s
  <2>4. one(s) = <<Append(a, source[k]), r[k]>>
    BY <1>2, <2>3, Zenon
  <2>5. Append(a, source[k]) = SubSeq(source, 1, k)
    BY <1>1, Zenon DEF Firsts
  <2> HIDE DEF a, e
  <2> QED
    BY <2>2, <2>4, <2>5, Zenon
<1> HIDE DEF one
<1>5. Rec(e)
  <2>1. ASSUME NEW k \in 0..m PROVE e[k] = IF k = 0 THEN <<<<>>, i>> ELSE one(e[k - 1])
    <3> HIDE DEF e
    <3>1. k # 0 => k \in 1..m
      BY <1>0
    <3> QED
      BY <1>3, <1>4, <3>1, Zenon
  <2>2. e = [k \in 0..m |-> e[k]]
    BY Zenon
  <2> HIDE DEF e
  <2> QED
    BY <2>1, <2>2, Zenon
<1> HIDE DEF e
<1> DEFINE h == CHOOSE x : Rec(x)
<1>6. Rec(h)
  BY <1>5, Zenon
<1>7. DecodeAll(i, coder, maxbits, m) = h[m]
  BY Zenon DEF DecodeAll, Iterate, one
<1> HIDE DEF h
<1>8. h[0] = <<<<>>, i>> /\ \A k \in 1..m : h[k] = one(h[k - 1])
  <2>1. \A k \in 1..m : k \in 0..m /\ k # 0
    BY <1>0
  <2> QED
    BY <1>0, <1>6, <2>1, Zenon
<1>9. \A k \in 0..m : e[k] = h[k]
  <2>1. Alike(m, e, h)
    BY <1>3, <1>4, <1>8, Zenon DEF Alike
  <2> QED
    BY <1>0, <2>1, Agree
<1> QED
  BY <1>0, <1>3, <1>7, <1>9, Zenon DEF m

\* A source of codes that any tree has which is accepted and fits, encoded, is decoded
\* again (huffman.cpp: assign_canonical_codes, build_lookup_table, encode_one, decode_one),
\* unless the buffer was too small.
THEOREM CodesComeBack ==
  ASSUME NEW tree, NEW maxbits, CodeTree(tree, maxbits), ConsistentTree(tree, maxbits), Fits(tree),
         NEW source \in Seq(Used(tree)), NEW dlength \in Nat,
         NEW out, out = FlushOut(EncodeAll(BitstreamOut(dlength), Coder(tree), source)), ~OutOverflow(out)
  PROVE  DecodeAll(BitstreamIn(Output(out)), Coder(tree), maxbits, Len(source))[1] = source
<1> DEFINE coder == Coder(tree)
           words == WordsOf(coder, source)
           m == Len(source)
           o == BitstreamOut(dlength)
<1>1. Decodable(coder, maxbits) /\ source \in Seq(DOMAIN coder)
  BY CanonicalCodes, CodesIn
<1> HIDE DEF coder
<1>2. words \in Seq(Words) /\ Len(words) = m
  BY <1>1, WordsOfCodes
<1>3. o \in GoodOut
  BY StartsWriting
<1> HIDE DEF words, m, o
<1>4. PICK f : WriteRun(o, words, f)
  BY <1>2, <1>3, WriteRunExists
<1>5. EncodeAll(o, coder, source) = f[m]
  BY <1>1, <1>2, <1>4, EncodesRun DEF words, m
<1>6. out = FlushOut(f[m])
  BY <1>5, Zenon DEF o, coder
<1> DEFINE d == FlushOut(f[m]).data
<1>7. Flushed(f[m], d) /\ Output(out) = d /\ ReadingAt(BitstreamIn(d), d, Place(f, 0))
  <2>1. ~OutOverflow(FlushOut(f[Len(words)])) /\ WriteRun(BitstreamOut(dlength), words, f)
    BY <1>2, <1>4, <1>6 DEF o
  <2> QED
    BY <1>2, <1>6, <2>1, RunReads
<1> HIDE DEF d
<1>8. PICK r : r[0] = BitstreamIn(d) /\ DecodeRun(coder, maxbits, source, d, f, r)
  <2>1. WriteRun(o, WordsOf(coder, source), f) /\ Flushed(f[Len(source)], d)
    BY <1>4, <1>7 DEF words, m
  <2> QED
    BY <1>1, <1>7, <2>1, DecodeRunExists
<1>9. DecodeAll(BitstreamIn(d), coder, maxbits, m) = <<source, r[m]>>
  BY <1>1, <1>8, DecodesRun DEF m
<1>10. DecodeAll(BitstreamIn(Output(out)), coder, maxbits, m) = <<source, r[m]>>
  BY <1>7, <1>9, Zenon
<1>11. <<source, r[m]>>[1] = source
  OBVIOUS
<1> QED
  BY <1>10, <1>11, Zenon DEF coder, m
-----------------------------------------------------------------------------
(* Trees that are built *)

\* What all bits of depth l would be needed for, half of it one bit up, and in the end for
\* the root alone: s is how many nodes with codes below them there are at each depth.
Tally(d, s) ==
  /\ s \in [Nat -> Nat] /\ s[0] + Count(d, 0) = 1
  /\ \A l \in Nat : 2 * s[l] = s[l + 1] + Count(d, l + 1)
  /\ \A l \in Nat : (\A c \in DOMAIN d : d[c] <= l) => s[l] = 0
Depths(used) == UNION {[S -> Nat] : S \in (SUBSET used) \ {{}}}
Complete(d) == \E s : Tally(d, s)

LEMMA DepthsAre ==
  ASSUME NEW used, used \in SUBSET Nat, IsFiniteSet(used), NEW d \in Depths(used)
  PROVE  /\ DOMAIN d \in SUBSET used /\ DOMAIN d # {} /\ d \in [DOMAIN d -> Nat] /\ IsFiniteSet(DOMAIN d)
         /\ \A l : IsFiniteSet(OfLength(d, l)) /\ Count(d, l) \in Nat
<1>1. PICK S \in (SUBSET used) \ {{}} : d \in [S -> Nat]
  BY DEF Depths
<1>2. DOMAIN d = S /\ S \in SUBSET used /\ S # {}
  BY <1>1
<1>3. IsFiniteSet(S)
  BY <1>2, FS_Subset
<1>4. ASSUME NEW l PROVE IsFiniteSet(OfLength(d, l)) /\ Count(d, l) \in Nat
  <2>1. OfLength(d, l) \in SUBSET S
    BY <1>2 DEF OfLength
  <2>2. IsFiniteSet(OfLength(d, l))
    BY <1>3, <2>1, FS_Subset
  <2> QED
    BY <2>2, FS_CardinalityType DEF Count
<1> QED
  BY <1>1, <1>2, <1>3, <1>4

\* A code alone.
LEMMA OneCode ==
  ASSUME NEW used, used \in SUBSET Nat, IsFiniteSet(used), NEW c \in used
  PROVE  [d \in {c} |-> 0] \in Depths(used) /\ Complete([d \in {c} |-> 0])
<1> DEFINE d == [x \in {c} |-> 0]
           s == [l \in Nat |-> 0]
<1>1. d \in [{c} -> Nat] /\ {c} \in (SUBSET used) \ {{}}
  OBVIOUS
<1>2. d \in Depths(used)
  BY <1>1, Zenon DEF Depths
<1>3. OfLength(d, 0) = {c} /\ \A l \in Nat : OfLength(d, l + 1) = {}
  BY DEF OfLength
<1>4. Count(d, 0) = 1 /\ \A l \in Nat : Count(d, l + 1) = 0
  BY <1>3, FS_Singleton, FS_EmptySet DEF Count
<1>5. s \in [Nat -> Nat] /\ \A l \in Nat : s[l] = 0 /\ s[l + 1] = 0
  OBVIOUS
<1> HIDE DEF s, d
<1>6. Tally(d, s)
  <2>1. s[0] + Count(d, 0) = 1
    BY <1>4, <1>5
  <2>2. \A l \in Nat : 2 * s[l] = s[l + 1] + Count(d, l + 1)
    <3> TAKE l \in Nat
    <3>1. s[l] = 0 /\ s[l + 1] = 0 /\ Count(d, l + 1) = 0
      BY <1>4, <1>5
    <3> QED
      BY <3>1
  <2> QED
    BY <1>5, <2>1, <2>2 DEF Tally
<1> QED
  BY <1>2, <1>6 DEF Complete, d

\* Two trees under a new root.
Under(used, d, e, f) ==
  /\ f \in Depths(used) /\ Complete(f) /\ DOMAIN f = DOMAIN d \cup DOMAIN e
  /\ \A c \in DOMAIN d : f[c] = d[c] + 1
  /\ \A c \in DOMAIN e : f[c] = e[c] + 1
LEMMA DeeperBoth ==
  ASSUME NEW used, used \in SUBSET Nat, IsFiniteSet(used), NEW d \in Depths(used), NEW e \in Depths(used),
         DOMAIN d \cap DOMAIN e = {}, Complete(d), Complete(e)
  PROVE  Under(used, d, e, Deeper(Both(d, e)))
<1> DEFINE j == Deeper(Both(d, e))
           D == DOMAIN d
           E == DOMAIN e
<1>1. /\ D \in SUBSET used /\ D # {} /\ d \in [D -> Nat] /\ IsFiniteSet(D)
      /\ \A l : IsFiniteSet(OfLength(d, l)) /\ Count(d, l) \in Nat
  BY DepthsAre
<1>2. /\ E \in SUBSET used /\ E # {} /\ e \in [E -> Nat] /\ IsFiniteSet(E)
      /\ \A l : IsFiniteSet(OfLength(e, l)) /\ Count(e, l) \in Nat
  BY DepthsAre
<1>3. j = [c \in D \cup E |-> (IF c \in D THEN d[c] ELSE e[c]) + 1]
  <2> DEFINE b == [c \in D \cup E |-> IF c \in D THEN d[c] ELSE e[c]]
  <2>1. j = Table([c \in DOMAIN b |-> b[c] + 1])
    BY Zenon DEF Deeper, Both
  <2>2. DOMAIN b = D \cup E /\ \A c \in D \cup E : b[c] = IF c \in D THEN d[c] ELSE e[c]
    BY Zenon
  <2> HIDE DEF b, j, D, E
  <2>3. j = [c \in DOMAIN b |-> b[c] + 1]
    BY <2>1, TableIs, Zenon
  <2> QED
    BY <2>2, <2>3
<1> HIDE DEF j
<1>4. /\ DOMAIN j = D \cup E /\ (\A c \in D : j[c] = d[c] + 1) /\ (\A c \in E : j[c] = e[c] + 1)
      /\ j \in [D \cup E -> Nat]
  BY <1>1, <1>2, <1>3
<1>5. j \in Depths(used)
  <2>1. D \cup E \in (SUBSET used) \ {{}}
    BY <1>1, <1>2
  <2> HIDE DEF D, E
  <2> QED
    BY <1>4, <2>1, Zenon DEF Depths
<1> HIDE DEF D, E
<1>6. Count(j, 0) = 0
  <2>1. \A c \in D \cup E : j[c] # 0
    <3> TAKE c \in D \cup E
    <3>1. CASE c \in D
      <4>1. d[c] \in Nat /\ j[c] = d[c] + 1
        BY <1>1, <1>4, <3>1
      <4> QED
        BY <4>1
    <3>2. CASE c \in E
      <4>1. e[c] \in Nat /\ j[c] = e[c] + 1
        BY <1>2, <1>4, <3>2
      <4> QED
        BY <4>1
    <3> QED
      BY <3>1, <3>2
  <2>2. \A c : c \notin OfLength(j, 0)
    BY <1>4, <2>1 DEF OfLength
  <2>3. OfLength(j, 0) = {}
    BY <2>2
  <2> QED
    BY <2>3, FS_EmptySet DEF Count
<1>7. ASSUME NEW l \in Nat PROVE Count(j, l + 1) = Count(d, l) + Count(e, l)
  <2>1. OfLength(j, l + 1) = OfLength(d, l) \cup OfLength(e, l)
    <3>1. DOMAIN d = D /\ DOMAIN e = E
      BY DEF D, E
    <3>2. \A x \in Nat : x + 1 = l + 1 <=> x = l
      OBVIOUS
    <3>3. \A c \in D : j[c] = l + 1 <=> d[c] = l
      <4>1. \A c \in D : d[c] \in Nat /\ j[c] = d[c] + 1
        BY <1>1, <1>4
      <4> QED
        BY <3>2, <4>1, Zenon
    <3>4. \A c \in E : j[c] = l + 1 <=> e[c] = l
      <4>1. \A c \in E : e[c] \in Nat /\ j[c] = e[c] + 1
        BY <1>2, <1>4
      <4> QED
        BY <3>2, <4>1, Zenon
    <3>5. \A c : c \in OfLength(j, l + 1) <=> c \in OfLength(d, l) \/ c \in OfLength(e, l)
      <4>1. DOMAIN j = D \cup E
        BY <1>4
      <4> QED
        BY <3>1, <3>3, <3>4, <4>1 DEF OfLength
    <3> QED
      BY <3>5
  <2>2. OfLength(d, l) \cap OfLength(e, l) = {}
    BY DEF OfLength
  <2>3. IsFiniteSet(OfLength(d, l)) /\ IsFiniteSet(OfLength(e, l)) /\ Count(d, l) \in Nat /\ Count(e, l) \in Nat
    BY <1>1, <1>2
  <2>4. Cardinality(OfLength(d, l) \cup OfLength(e, l))
        = Cardinality(OfLength(d, l)) + Cardinality(OfLength(e, l)) - Cardinality(OfLength(d, l) \cap OfLength(e, l))
    BY <2>3, FS_Union
  <2>5. Cardinality(OfLength(d, l) \cap OfLength(e, l)) = 0
    BY <2>2, FS_EmptySet
  <2>6. \A x \in Nat : \A y \in Nat : x + y - 0 = x + y
    OBVIOUS
  <2> QED
    BY <2>1, <2>3, <2>4, <2>5, <2>6, Zenon DEF Count
<1>8. PICK sd : Tally(d, sd)
  BY DEF Complete
<1>9. PICK se : Tally(e, se)
  BY DEF Complete
<1> DEFINE s == [l \in Nat |-> IF l = 0 THEN 1 ELSE sd[l - 1] + se[l - 1]]
<1>10. \A l \in Nat : sd[l] \in Nat /\ se[l] \in Nat
  BY <1>8, <1>9 DEF Tally
<1>11. s \in [Nat -> Nat] /\ s[0] = 1 /\ \A l \in Nat : s[l + 1] = sd[l] + se[l]
  <2>1. \A l \in Nat : l # 0 => l - 1 \in Nat
    OBVIOUS
  <2>2. \A l \in Nat : l + 1 \in Nat /\ l + 1 # 0 /\ (l + 1) - 1 = l
    OBVIOUS
  <2>3. \A l \in Nat : (IF l = 0 THEN 1 ELSE sd[l - 1] + se[l - 1]) \in Nat
    BY <1>10, <2>1
  <2> QED
    BY <2>2, <2>3
<1> HIDE DEF s
<1>12. s[0] + Count(j, 0) = 1
  BY <1>6, <1>11
<1>13. ASSUME NEW l \in Nat PROVE 2 * s[l] = s[l + 1] + Count(j, l + 1)
  <2>1. s[l + 1] = sd[l] + se[l] /\ Count(j, l + 1) = Count(d, l) + Count(e, l)
    BY <1>7, <1>11
  <2>2. sd[l] \in Nat /\ se[l] \in Nat /\ Count(d, l) \in Nat /\ Count(e, l) \in Nat
    BY <1>1, <1>2, <1>10
  <2>3. CASE l = 0
    <3>1. sd[0] + Count(d, 0) = 1 /\ se[0] + Count(e, 0) = 1
      BY <1>8, <1>9, Zenon DEF Tally
    <3>2. sd[l] + Count(d, l) = 1 /\ se[l] + Count(e, l) = 1 /\ s[l] = 1
      BY <1>11, <2>3, <3>1, Zenon
    <3> QED
      BY <2>1, <2>2, <3>2
  <2>4. CASE l # 0
    <3> DEFINE m == l - 1
    <3>1. m \in Nat /\ m + 1 = l
      BY <2>4
    <3> HIDE DEF m
    <3>2. 2 * sd[m] = sd[m + 1] + Count(d, m + 1) /\ 2 * se[m] = se[m + 1] + Count(e, m + 1)
      BY <1>8, <1>9, <3>1, Zenon DEF Tally
    <3>3. s[m + 1] = sd[m] + se[m] /\ sd[m] \in Nat /\ se[m] \in Nat
      BY <1>10, <1>11, <3>1, Zenon
    <3>4. 2 * sd[m] = sd[l] + Count(d, l) /\ 2 * se[m] = se[l] + Count(e, l) /\ s[l] = sd[m] + se[m]
      BY <3>1, <3>2, <3>3, Zenon
    <3> QED
      BY <2>1, <2>2, <3>3, <3>4
  <2> QED
    BY <2>3, <2>4
<1>14. ASSUME NEW l \in Nat, \A c \in DOMAIN j : j[c] <= l PROVE s[l] = 0
  <2>1. PICK c : c \in D
    BY <1>1
  <2>2. d[c] \in Nat /\ d[c] + 1 <= l
    <3>1. c \in DOMAIN j /\ j[c] = d[c] + 1
      BY <1>4, <2>1
    <3> QED
      BY <1>1, <1>14, <2>1, <3>1
  <2> DEFINE m == l - 1
  <2>3. m \in Nat /\ m + 1 = l
    BY <2>2
  <2> HIDE DEF m
  <2>4. \A x \in D : d[x] <= m
    <3> TAKE x \in D
    <3>1. x \in DOMAIN j /\ j[x] = d[x] + 1 /\ d[x] \in Nat
      BY <1>1, <1>4
    <3>2. d[x] + 1 <= m + 1
      BY <1>14, <2>3, <3>1, Zenon
    <3> QED
      BY <2>3, <3>1, <3>2
  <2>5. \A x \in E : e[x] <= m
    <3> TAKE x \in E
    <3>1. x \in DOMAIN j /\ j[x] = e[x] + 1 /\ e[x] \in Nat
      BY <1>2, <1>4
    <3>2. e[x] + 1 <= m + 1
      BY <1>14, <2>3, <3>1, Zenon
    <3> QED
      BY <2>3, <3>1, <3>2
  <2>6. sd[m] = 0 /\ se[m] = 0
    BY <1>8, <1>9, <2>3, <2>4, <2>5, Zenon DEF Tally, D, E
  <2>7. s[m + 1] = sd[m] + se[m]
    BY <1>11, <2>3
  <2> QED
    BY <2>3, <2>6, <2>7
<1>15. Tally(j, s)
  BY <1>11, <1>12, <1>13, <1>14 DEF Tally
<1>16. Complete(j)
  BY <1>15 DEF Complete
<1> QED
  BY <1>4, <1>5, <1>16 DEF Under, j, D, E

-----------------------------------------------------------------------------
(* Joining the lightest *)

LEMMA MinIs ==
  ASSUME NEW T \in SUBSET Nat, T # {}
  PROVE  Min(T) \in T /\ \A x \in T : Min(T) <= x
<1>1. \E k \in T : \A j \in T : k <= j
  BY LeastNumber
<1> QED
  BY <1>1, Zenon DEF Min

LEMMA MaxIs ==
  ASSUME NEW T \in SUBSET Nat, T # {}, NEW n \in Nat, \A x \in T : x <= n
  PROVE  Max(T) \in T /\ \A x \in T : x <= Max(T)
<1> DEFINE U == {y \in Nat : \A x \in T : x <= y}
<1>1. U \in SUBSET Nat /\ n \in U
  OBVIOUS
<1> HIDE DEF U
<1>2. PICK m \in U : \A y \in U : m <= y
  BY <1>1, LeastNumber
<1>3. m \in Nat /\ \A x \in T : x <= m
  BY <1>2 DEF U
<1>4. m \in T
  <2> SUFFICES ASSUME m \notin T PROVE FALSE
    OBVIOUS
  <2>1. PICK x \in T : TRUE
    OBVIOUS
  <2>2. \A y \in T : y \in Nat /\ y <= m - 1
    BY <1>3
  <2>3. m - 1 \in U
    BY <1>3, <2>1, <2>2 DEF U
  <2>4. m <= m - 1
    BY <1>2, <2>3
  <2> QED
    BY <1>3, <2>4
<1>5. \E x \in T : \A y \in T : x >= y
  BY <1>3, <1>4
<1>6. Max(T) \in T /\ \A y \in T : Max(T) >= y
  BY <1>5, Zenon DEF Max
<1> QED
  BY <1>6

\* One sequence behind another.
LEMMA Glued ==
  ASSUME NEW S, NEW b \in Seq(S), NEW c \in Seq(S)
  PROVE  /\ b \o c \in Seq(S) /\ Len(b \o c) = Len(b) + Len(c)
         /\ \A k \in 1..Len(b) : (b \o c)[k] = b[k]
         /\ \A k \in (Len(b) + 1)..(Len(b) + Len(c)) : (b \o c)[k] = c[k - Len(b)]
OBVIOUS

Joint(list) == list[Len(list) - 1].weight + list[Len(list)].weight
JointNode(list) ==
  [weight |-> Joint(list), depth |-> Deeper(Both(list[Len(list) - 1].depth, list[Len(list)].depth))]
\* The last two are one node, which has the place after those that are not lighter.
Inserted(list, t, at) ==
  /\ at \in 1..(Len(list) - 1) /\ Len(t) = Len(list) - 1 /\ t[at] = JointNode(list)
  /\ \A k \in 1..(at - 1) : t[k] = list[k] /\ ~(list[k].weight < Joint(list))
  /\ \A k \in (at + 1)..(Len(list) - 1) : t[k] = list[k - 1]
  /\ at <= Len(list) - 2 => list[at].weight < Joint(list)
LEMMA JoinLastIs ==
  ASSUME NEW S, NEW list \in Seq(S), Len(list) >= 2, JointNode(list) \in S
  PROVE  JoinLast(list) \in Seq(S) /\ \E at : Inserted(list, JoinLast(list), at)
<1> DEFINE n == Len(list)
           w == Joint(list)
           new == JointNode(list)
           T == {k \in 1..(n - 2) : list[k].weight < w} \cup {n - 1}
           at == Min(T)
           a == SubSeq(list, 1, at - 1)
           c == SubSeq(list, at, n - 2)
           t == a \o <<new>> \o c
<1>0. n \in Nat /\ n >= 2 /\ \A k \in 1..n : list[k] \in S
  OBVIOUS
<1>1. JoinLast(list) = t
  BY Zenon DEF JoinLast, Joint, JointNode
<1> HIDE DEF n, w, new
<1>2. T \in SUBSET Nat /\ T # {}
  BY <1>0
<1>3. at \in T /\ \A x \in T : at <= x
  <2> HIDE DEF T
  <2> QED
    BY <1>2, MinIs
<1> HIDE DEF at
<1>4. at \in 1..(n - 1) /\ (at <= n - 2 => list[at].weight < w)
  BY <1>0, <1>3
<1>5. ASSUME NEW k \in 1..(at - 1) PROVE ~(list[k].weight < w)
  <2>1. k \in 1..(n - 2) /\ ~(at <= k)
    BY <1>0, <1>4
  <2>2. k \notin T
    BY <1>3, <2>1
  <2> QED
    BY <2>1, <2>2
<1>6. a \in Seq(S) /\ Len(a) = at - 1 /\ \A k \in 1..(at - 1) : a[k] = list[k]
  <2>1. \A k \in 1..(at - 1) : list[k] \in S
    BY <1>0, <1>4
  <2> QED
    BY <1>0, <1>4, <2>1
<1>7. c \in Seq(S) /\ Len(c) = n - 1 - at /\ \A k \in 1..(n - 1 - at) : c[k] = list[at + k - 1]
  <2>1. \A k \in at..(n - 2) : list[k] \in S
    BY <1>0, <1>4
  <2>2. at \in Int /\ n - 2 \in Int
    BY <1>0, <1>4
  <2> HIDE DEF c
  <2>3. c \in Seq(S) /\ Len(c) = (IF at <= n - 2 THEN (n - 2) - at + 1 ELSE 0)
        /\ \A k \in 1..((n - 2) - at + 1) : c[k] = list[at + k - 1]
    BY <2>1, <2>2, SubSeqProperties DEF c
  <2>4. (n - 2) - at + 1 = n - 1 - at /\ (~(at <= n - 2) => n - 1 - at = 0)
    BY <1>0, <1>4
  <2> QED
    BY <2>3, <2>4, Zenon
<1> HIDE DEF a, c
<1>8. new \in S
  BY DEF new
<1>9. a \o <<new>> \in Seq(S) /\ Len(a \o <<new>>) = at /\ (\A k \in 1..(at - 1) : (a \o <<new>>)[k] = a[k])
      /\ (a \o <<new>>)[at] = new
  BY <1>4, <1>6, <1>8
<1> DEFINE b == a \o <<new>>
<1> HIDE DEF b
<1>10. t \in Seq(S) /\ Len(t) = n - 1 /\ (\A k \in 1..at : t[k] = b[k]) /\ \A k \in (at + 1)..(n - 1) : t[k] = c[k - at]
  <2>1. b \in Seq(S) /\ Len(b) = at
    BY <1>9 DEF b
  <2>2. t = b \o c
    BY DEF b
  <2>3. /\ b \o c \in Seq(S) /\ Len(b \o c) = Len(b) + Len(c)
        /\ \A k \in 1..Len(b) : (b \o c)[k] = b[k]
        /\ \A k \in (Len(b) + 1)..(Len(b) + Len(c)) : (b \o c)[k] = c[k - Len(b)]
    BY <1>7, <2>1, Glued
  <2> HIDE DEF t
  <2>4. at + Len(c) = n - 1
    BY <1>0, <1>4, <1>7
  <2> QED
    BY <2>1, <2>2, <2>3, <2>4, Zenon
<1> HIDE DEF t
<1>11. t[at] = new /\ \A k \in 1..(at - 1) : t[k] = list[k]
  <2>1. at \in 1..at /\ \A k \in 1..(at - 1) : k \in 1..at
    BY <1>4
  <2> QED
    BY <1>6, <1>9, <1>10, <2>1, Zenon DEF b
<1>12. ASSUME NEW k \in (at + 1)..(n - 1) PROVE t[k] = list[k - 1]
  <2>1. k - at \in 1..(n - 1 - at) /\ at + (k - at) - 1 = k - 1
    BY <1>0, <1>4
  <2> QED
    BY <1>7, <1>10, <2>1, Zenon
<1>13. Inserted(list, t, at)
  BY <1>4, <1>5, <1>10, <1>11, <1>12, Zenon DEF Inserted, n, w, new
<1> QED
  BY <1>1, <1>10, <1>13, Zenon

\* Trees that have each code once among them.
NodesOf(used) == [weight : Nat \ {0}, depth : Depths(used)]
Placed(list, used, place) ==
  /\ place \in [used -> 1..Len(list)]
  /\ \A k \in 1..Len(list) : DOMAIN list[k].depth = {c \in used : place[c] = k}
Forest(list, used) ==
  /\ list \in Seq(NodesOf(used)) /\ Len(list) >= 1
  /\ \A k \in 1..Len(list) : Complete(list[k].depth)
  /\ \E place : Placed(list, used, place)

\* The node that two become.
JointOf(used, a, b, j) ==
  /\ j \in NodesOf(used) /\ Complete(j.depth) /\ j.weight = a.weight + b.weight
  /\ DOMAIN a.depth \cap DOMAIN b.depth = {} /\ DOMAIN j.depth = DOMAIN a.depth \cup DOMAIN b.depth
  /\ \A c \in DOMAIN a.depth : j.depth[c] = a.depth[c] + 1
  /\ \A c \in DOMAIN b.depth : j.depth[c] = b.depth[c] + 1
LEMMA JointTree ==
  ASSUME NEW used, used \in SUBSET Nat, IsFiniteSet(used), NEW list, Forest(list, used), Len(list) >= 2
  PROVE  JointOf(used, list[Len(list) - 1], list[Len(list)], JointNode(list))
<1> DEFINE n == Len(list)
           a == list[n - 1]
           b == list[n]
           e == Deeper(Both(a.depth, b.depth))
<1>1. list \in Seq(NodesOf(used)) /\ n \in Nat /\ n - 1 \in 1..n /\ n \in 1..n /\ n - 1 # n
  BY DEF Forest
<1>2. a \in NodesOf(used) /\ b \in NodesOf(used) /\ Complete(a.depth) /\ Complete(b.depth)
  <2> HIDE DEF n
  <2>1. \A k \in 1..n : list[k] \in NodesOf(used) /\ Complete(list[k].depth)
    BY <1>1 DEF Forest, n
  <2> QED
    BY <1>1, <2>1
<1>3. /\ a.weight \in Nat \ {0} /\ b.weight \in Nat \ {0} /\ a.depth \in Depths(used) /\ b.depth \in Depths(used)
  <2> HIDE DEF a, b
  <2> QED
    BY <1>2 DEF NodesOf
<1>4. DOMAIN a.depth \cap DOMAIN b.depth = {}
  <2>1. PICK place : Placed(list, used, place)
    BY DEF Forest
  <2>2. DOMAIN a.depth = {c \in used : place[c] = n - 1} /\ DOMAIN b.depth = {c \in used : place[c] = n}
    BY <1>1, <2>1, Zenon DEF Placed
  <2> HIDE DEF a, b, n
  <2> QED
    BY <1>1, <2>2
<1>5. JointNode(list) = [weight |-> a.weight + b.weight, depth |-> e]
  BY Zenon DEF JointNode, Joint
<1> DEFINE da == a.depth
           db == b.depth
<1>6. /\ e \in Depths(used) /\ Complete(e) /\ DOMAIN e = DOMAIN da \cup DOMAIN db
      /\ (\A c \in DOMAIN da : e[c] = da[c] + 1) /\ \A c \in DOMAIN db : e[c] = db[c] + 1
  <2>1. da \in Depths(used) /\ db \in Depths(used) /\ DOMAIN da \cap DOMAIN db = {} /\ Complete(da) /\ Complete(db)
    BY <1>2, <1>3, <1>4
  <2>2. e = Deeper(Both(da, db))
    OBVIOUS
  <2> HIDE DEF da, db, e
  <2>3. Under(used, da, db, Deeper(Both(da, db)))
    BY <2>1, DeeperBoth
  <2> QED
    BY <2>2, <2>3, Zenon DEF Under
<1> HIDE DEF e, a, b, n
<1>7. a.weight + b.weight \in Nat \ {0}
  BY <1>3
<1>8. [weight |-> a.weight + b.weight, depth |-> e] \in NodesOf(used)
  BY <1>6, <1>7 DEF NodesOf
<1> DEFINE j == [weight |-> a.weight + b.weight, depth |-> e]
<1>9. j.weight = a.weight + b.weight /\ j.depth = e
  BY Zenon
<1> HIDE DEF j
<1>10. JointOf(used, a, b, j)
  BY <1>4, <1>6, <1>8, <1>9, Zenon DEF JointOf, j
<1> QED
  BY <1>5, <1>10, Zenon DEF a, b, n, j
\* Joining two of them leaves one less.
LEMMA ForestKept ==
  ASSUME NEW used, used \in SUBSET Nat, IsFiniteSet(used), NEW list, Forest(list, used), Len(list) >= 2
  PROVE  Forest(JoinLast(list), used) /\ Len(JoinLast(list)) = Len(list) - 1
<1> DEFINE n == Len(list)
           S == NodesOf(used)
           t == JoinLast(list)
           new == JointNode(list)
           D(k) == DOMAIN list[k].depth
<1>1. list \in Seq(S) /\ n \in Nat /\ n >= 2 /\ \A k \in 1..n : Complete(list[k].depth)
  BY DEF Forest
<1>2. JointOf(used, list[n - 1], list[n], new)
  BY JointTree
<1>3. new \in S /\ Complete(new.depth) /\ DOMAIN new.depth = D(n - 1) \cup D(n)
  BY <1>2, Zenon DEF JointOf
<1>4. t \in Seq(S) /\ \E at : Inserted(list, t, at)
  <2> HIDE DEF S
  <2> QED
    BY <1>1, <1>3, JoinLastIs
<1>5. PICK at : Inserted(list, t, at)
  BY <1>4
<1> HIDE DEF t, S, new
<1>6. /\ at \in 1..(n - 1) /\ Len(t) = n - 1 /\ t[at] = new
      /\ (\A k \in 1..(at - 1) : t[k] = list[k]) /\ \A k \in (at + 1)..(n - 1) : t[k] = list[k - 1]
  BY <1>5, Zenon DEF Inserted, new
<1>7. PICK place : Placed(list, used, place)
  BY DEF Forest
<1>8. place \in [used -> 1..n] /\ \A k \in 1..n : D(k) = {c \in used : place[c] = k}
  BY <1>7 DEF Placed
<1> DEFINE to(p) == IF p \in {n - 1, n} THEN at ELSE IF p < at THEN p ELSE p + 1
           q == [c \in used |-> to(place[c])]
<1>9. \A p \in 1..n : to(p) \in 1..(n - 1)
  BY <1>1, <1>6
<1>10. q \in [used -> 1..(n - 1)] /\ \A c \in used : q[c] = to(place[c])
  BY <1>8, <1>9
<1> HIDE DEF q, D, n
<1>11. ASSUME NEW k \in 1..(n - 1) PROVE Complete(t[k].depth) /\ DOMAIN t[k].depth = {c \in used : q[c] = k}
  <2>1. CASE k = at
    <3>1. \A p \in 1..n : to(p) = k <=> p = n - 1 \/ p = n
      BY <1>1, <1>6, <2>1
    <3>2. \A c \in used : q[c] = k <=> c \in D(n - 1) \/ c \in D(n)
      <4>1. n - 1 \in 1..n /\ n \in 1..n
        BY <1>1
      <4>2. D(n - 1) = {c \in used : place[c] = n - 1} /\ D(n) = {c \in used : place[c] = n}
        BY <1>8, <4>1
      <4>3. \A c \in used : place[c] \in 1..n
        BY <1>8
      <4> QED
        BY <1>10, <3>1, <4>2, <4>3, Zenon
    <3>3. D(n - 1) \cup D(n) = {c \in used : q[c] = k}
      <4>1. D(n - 1) \in SUBSET used /\ D(n) \in SUBSET used
        BY <1>1, <1>8
      <4> QED
        BY <3>2, <4>1
    <3> QED
      BY <1>3, <1>6, <2>1, <3>3, Zenon
  <2>2. CASE k < at
    <3>1. \A p \in 1..n : to(p) = k <=> p = k
      BY <1>1, <1>6, <2>2
    <3>2. k \in 1..(at - 1) /\ k \in 1..n
      BY <1>1, <1>6, <2>2
    <3>3. \A c \in used : q[c] = k <=> place[c] = k
      BY <1>8, <1>10, <3>1
    <3>4. D(k) = {c \in used : q[c] = k}
      BY <1>8, <3>2, <3>3
    <3>5. t[k] = list[k]
      BY <1>6, <3>2
    <3> QED
      BY <1>1, <3>2, <3>4, <3>5, Zenon DEF D
  <2>3. CASE k > at
    <3>1. \A p \in 1..n : to(p) = k <=> p = k - 1
      BY <1>1, <1>6, <2>3
    <3>2. k \in (at + 1)..(n - 1) /\ k - 1 \in 1..n
      BY <1>1, <1>6, <2>3
    <3>3. \A c \in used : q[c] = k <=> place[c] = k - 1
      BY <1>8, <1>10, <3>1
    <3>4. D(k - 1) = {c \in used : q[c] = k}
      BY <1>8, <3>2, <3>3
    <3>5. t[k] = list[k - 1]
      BY <1>6, <3>2
    <3> QED
      BY <1>1, <3>2, <3>4, <3>5, Zenon DEF D
  <2> QED
    BY <1>6, <2>1, <2>2, <2>3
<1>12. Placed(t, used, q)
  BY <1>6, <1>10, <1>11, Zenon DEF Placed
<1>13. n - 1 >= 1
  BY <1>1
<1> QED
  BY <1>4, <1>6, <1>11, <1>12, <1>13, Zenon DEF Forest, S, t, n
-----------------------------------------------------------------------------
(* How deep a tree of equal weights is *)

\* No node is more than twice as heavy as the last one; m says how heavy the node of a
\* deep code is at least.
Growing(m, b, n) ==
  /\ b \in Nat /\ n \in Nat /\ m \in [0..(b + 1) -> Nat] /\ m[0] <= 1
  /\ \A d \in 0..b : 2 * m[d + 1] <= 3 * m[d] + 1
  /\ n < m[b + 1]
Shallow(n, b) == \E m : Growing(m, b, n)
Near(node, m, b) == \A c \in DOMAIN node.depth : node.depth[c] <= b /\ m[node.depth[c]] <= node.weight
Light(list, used, m, b) ==
  /\ Forest(list, used)
  /\ \A k \in 1..Len(list) : list[k].weight = Cardinality(DOMAIN list[k].depth)
  /\ \A j \in 1..Len(list) : \A k \in 1..Len(list) : j <= k => list[j].weight >= list[k].weight
  /\ \A k \in 1..Len(list) : list[k].weight <= 2 * list[Len(list)].weight
  /\ \A k \in 1..Len(list) : Near(list[k], m, b)

LEMMA NodeParts ==
  ASSUME NEW used, used \in SUBSET Nat, IsFiniteSet(used), NEW node \in NodesOf(used)
  PROVE  /\ node.weight \in Nat \ {0} /\ node.depth \in Depths(used)
         /\ DOMAIN node.depth \in SUBSET used /\ IsFiniteSet(DOMAIN node.depth)
         /\ Cardinality(DOMAIN node.depth) \in Nat /\ Cardinality(DOMAIN node.depth) <= Cardinality(used)
         /\ \A c \in DOMAIN node.depth : node.depth[c] \in Nat
<1> DEFINE d == node.depth
<1>1. node.weight \in Nat \ {0} /\ d \in Depths(used)
  BY DEF NodesOf
<1>2. DOMAIN d \in SUBSET used /\ d \in [DOMAIN d -> Nat] /\ IsFiniteSet(DOMAIN d)
  <2> HIDE DEF d
  <2> QED
    BY <1>1, DepthsAre
<1> HIDE DEF d
<1>3. Cardinality(DOMAIN d) <= Cardinality(used) /\ Cardinality(DOMAIN d) \in Nat
  BY <1>2, FS_Subset, FS_CardinalityType
<1>4. \A c \in DOMAIN d : d[c] \in Nat
  BY <1>2
<1> QED
  BY <1>1, <1>2, <1>3, <1>4 DEF d

\* The joint of two light nodes is not deeper than it is heavy.
LEMMA JointNear ==
  ASSUME NEW used, used \in SUBSET Nat, IsFiniteSet(used), NEW m, NEW b, Growing(m, b, Cardinality(used)),
         NEW u \in NodesOf(used), NEW v \in NodesOf(used), NEW j, JointOf(used, u, v, j),
         u.weight = Cardinality(DOMAIN u.depth), v.weight = Cardinality(DOMAIN v.depth),
         u.weight >= v.weight, u.weight <= 2 * v.weight, Near(u, m, b), Near(v, m, b)
  PROVE  j.weight = Cardinality(DOMAIN j.depth) /\ Near(j, m, b)
<1> DEFINE D == DOMAIN u.depth
           E == DOMAIN v.depth
           J == DOMAIN j.depth
           x == u.weight
           y == v.weight
<1>1. /\ j \in NodesOf(used) /\ j.weight = x + y /\ D \cap E = {} /\ J = D \cup E
      /\ (\A c \in D : j.depth[c] = u.depth[c] + 1) /\ \A c \in E : j.depth[c] = v.depth[c] + 1
  BY Zenon DEF JointOf
<1>2. x \in Nat /\ y \in Nat /\ x >= y /\ x <= 2 * y /\ IsFiniteSet(D) /\ IsFiniteSet(E)
      /\ (\A c \in D : u.depth[c] \in Nat) /\ (\A c \in E : v.depth[c] \in Nat)
  BY NodeParts
<1>3. x = Cardinality(D) /\ y = Cardinality(E)
  OBVIOUS
<1>4. Cardinality(J) <= Cardinality(used)
  BY <1>1, NodeParts
<1> HIDE DEF x, y, D, E, J
<1>5. x + y = Cardinality(J)
  <2>1. Cardinality(D \cup E) = Cardinality(D) + Cardinality(E) - Cardinality(D \cap E)
    BY <1>2, FS_Union
  <2>2. Cardinality(D \cap E) = 0
    BY <1>1, FS_EmptySet
  <2> QED
    BY <1>1, <1>2, <1>3, <2>1, <2>2
<1>6. x + y <= Cardinality(used)
  BY <1>4, <1>5
<1> DEFINE Deep(d) == d + 1 <= b /\ m[d + 1] <= x + y
<1>7. ASSUME NEW d \in Nat, NEW w \in Nat, d <= b, m[d] <= w, w = x \/ w = y PROVE Deep(d)
  <2>1. /\ b \in Nat /\ Cardinality(used) \in Nat /\ m \in [0..(b + 1) -> Nat]
        /\ \A k \in 0..b : 2 * m[k + 1] <= 3 * m[k] + 1
    BY DEF Growing
  <2>2. d \in 0..b /\ d + 1 \in 0..(b + 1) /\ d \in 0..(b + 1) /\ m[d] \in Nat /\ m[d + 1] \in Nat
    BY <1>7, <2>1
  <2>3. 2 * m[d + 1] <= 3 * m[d] + 1
    BY <2>1, <2>2
  <2>4. \A p \in Nat : \A q \in Nat : p <= w /\ 2 * q <= 3 * p + 1 => q <= x + y
    BY <1>2, <1>7
  <2>5. m[d + 1] <= x + y
    BY <1>7, <2>2, <2>3, <2>4, Zenon
  <2>6. d + 1 # b + 1
    <3>1. Cardinality(used) < m[b + 1]
      BY DEF Growing
    <3>2. b + 1 \in 0..(b + 1) /\ m[b + 1] \in Nat
      BY <2>1
    <3>3. d + 1 = b + 1 => m[b + 1] <= x + y
      BY <2>5
    <3> QED
      BY <1>2, <1>6, <2>1, <3>1, <3>2, <3>3
  <2>7. d + 1 <= b
    BY <1>7, <2>1, <2>6
  <2> QED
    BY <2>5, <2>7
<1> HIDE DEF Deep
<1>8. ASSUME NEW c \in J PROVE j.depth[c] <= b /\ m[j.depth[c]] <= j.weight
  <2>1. CASE c \in D
    <3>1. u.depth[c] \in Nat /\ u.depth[c] <= b /\ m[u.depth[c]] <= x
      BY <1>2, <2>1 DEF Near, x, D
    <3>2. Deep(u.depth[c])
      BY <1>2, <1>7, <3>1
    <3>3. j.depth[c] = u.depth[c] + 1
      BY <1>1, <2>1
    <3> QED
      BY <1>1, <3>2, <3>3, Zenon DEF Deep
  <2>2. CASE c \in E
    <3>1. v.depth[c] \in Nat /\ v.depth[c] <= b /\ m[v.depth[c]] <= y
      BY <1>2, <2>2 DEF Near, y, E
    <3>2. Deep(v.depth[c])
      BY <1>2, <1>7, <3>1
    <3>3. j.depth[c] = v.depth[c] + 1
      BY <1>1, <2>2
    <3> QED
      BY <1>1, <3>2, <3>3, Zenon DEF Deep
  <2> QED
    BY <1>1, <2>1, <2>2
<1> QED
  BY <1>1, <1>5, <1>8 DEF Near, J

LEMMA LightKept ==
  ASSUME NEW used, used \in SUBSET Nat, IsFiniteSet(used), NEW m, NEW b, Growing(m, b, Cardinality(used)),
         NEW list, Light(list, used, m, b), Len(list) >= 2
  PROVE  Light(JoinLast(list), used, m, b) /\ Len(JoinLast(list)) = Len(list) - 1
<1> DEFINE n == Len(list)
           t == JoinLast(list)
           new == JointNode(list)
           S == NodesOf(used)
           W(k) == list[k].weight
<1>1. /\ Forest(list, used) /\ list \in Seq(S) /\ n \in Nat /\ n >= 2 /\ \A k \in 1..n : list[k] \in S
  <2> HIDE DEF S
  <2> QED
    BY DEF Light, Forest, S
<1>2. /\ (\A k \in 1..n : W(k) = Cardinality(DOMAIN list[k].depth) /\ W(k) <= 2 * W(n) /\ Near(list[k], m, b))
      /\ \A j \in 1..n : \A k \in 1..n : j <= k => W(j) >= W(k)
  BY DEF Light
<1>3. \A k \in 1..n : W(k) \in Nat
  <2> HIDE DEF n
  <2> QED
    BY <1>1, NodeParts
<1>4. Forest(t, used) /\ Len(t) = n - 1
  BY <1>1, ForestKept
<1>5. JointOf(used, list[n - 1], list[n], new) /\ new \in S
  BY <1>1, JointTree DEF JointOf
<1>6. PICK at : Inserted(list, t, at)
  <2> HIDE DEF S
  <2> QED
    BY <1>1, <1>5, JoinLastIs
<1> HIDE DEF t, S, new, n
<1> DEFINE w == W(n - 1) + W(n)
<1>7. n - 1 \in 1..n /\ n \in 1..n /\ n - 1 <= n
  BY <1>1
<1>8. w = new.weight /\ new.weight = Cardinality(DOMAIN new.depth) /\ Near(new, m, b)
  <2> DEFINE u == list[n - 1]
             v == list[n]
  <2>1. u \in NodesOf(used) /\ v \in NodesOf(used) /\ JointOf(used, u, v, new)
    BY <1>1, <1>5, <1>7 DEF S
  <2>2. u.weight = Cardinality(DOMAIN u.depth) /\ v.weight = Cardinality(DOMAIN v.depth) /\ Near(u, m, b) /\ Near(v, m, b)
    BY <1>2, <1>7
  <2>3. u.weight >= v.weight /\ u.weight <= 2 * v.weight
    BY <1>2, <1>7
  <2>4. w = new.weight
    BY <2>1, Zenon DEF JointOf
  <2> HIDE DEF u, v
  <2>5. new.weight = Cardinality(DOMAIN new.depth) /\ Near(new, m, b)
    BY <2>1, <2>2, <2>3, JointNear
  <2> QED
    BY <2>4, <2>5
<1>9. /\ at \in 1..(n - 1) /\ t[at] = new /\ (\A k \in 1..(at - 1) : t[k] = list[k] /\ ~(W(k) < w))
      /\ (\A k \in (at + 1)..(n - 1) : t[k] = list[k - 1]) /\ (at <= n - 2 => W(at) < w)
  BY <1>6, Zenon DEF Inserted, Joint, n, new
<1> DEFINE X(k) == t[k].weight
<1>10. X(at) = w /\ (\A k \in 1..(at - 1) : X(k) = W(k)) /\ \A k \in (at + 1)..(n - 1) : X(k) = W(k - 1)
  BY <1>8, <1>9, Zenon
<1>11. w \in Nat /\ w >= W(n - 1) /\ w >= W(n) /\ w <= 2 * W(n - 1)
  <2>1. W(n - 1) \in Nat /\ W(n) \in Nat
    BY <1>3, <1>7, Zenon
  <2>2. W(n - 1) >= W(n)
    BY <1>2, <1>7, Zenon
  <2>3. \A x \in Nat : \A y \in Nat : x >= y => x + y \in Nat /\ x + y >= x /\ x + y >= y /\ x + y <= 2 * x
    OBVIOUS
  <2> QED
    BY <2>1, <2>2, <2>3, Zenon
<1> HIDE DEF W, X, w
<1>12. ASSUME NEW k \in 1..(n - 1) PROVE X(k) \in Nat /\ X(k) <= 2 * X(n - 1)
  <2>1. CASE at = n - 1
    <3>1. X(n - 1) = w
      BY <1>10, <2>1
    <3>2. k = at \/ k \in 1..(at - 1)
      BY <1>9, <2>1
    <3>3. k \in 1..n /\ W(k) <= 2 * W(n) /\ W(k) \in Nat /\ W(n) \in Nat
      BY <1>1, <1>2, <1>3, <1>7
    <3> QED
      BY <1>10, <1>11, <3>1, <3>2, <3>3
  <2>2. CASE at # n - 1
    <3>1. n - 1 \in (at + 1)..(n - 1) /\ (n - 1) - 1 = n - 2 /\ n - 2 \in 1..n /\ n - 2 <= n - 1 /\ n - 2 <= n
      BY <1>1, <1>9, <2>2
    <3>2. X(n - 1) = W(n - 2)
      BY <1>10, <3>1
    <3>3. W(n - 2) >= W(n - 1) /\ W(n - 2) >= W(n) /\ W(n - 2) \in Nat /\ W(n - 1) \in Nat /\ W(n) \in Nat
      BY <1>2, <1>3, <1>7, <3>1
    <3>4. X(k) = w \/ \E i \in 1..n : X(k) = W(i)
      <4>1. k = at \/ k \in 1..(at - 1) \/ k \in (at + 1)..(n - 1)
        BY <1>1, <1>9
      <4>2. k \in 1..n /\ (k \in (at + 1)..(n - 1) => k - 1 \in 1..n)
        BY <1>1, <1>9
      <4> QED
        BY <1>10, <4>1, <4>2
    <3>5. CASE X(k) = w
      BY <1>11, <3>2, <3>3, <3>5
    <3>6. CASE \E i \in 1..n : X(k) = W(i)
      <4>1. PICK i \in 1..n : X(k) = W(i)
        BY <3>6
      <4>2. W(i) <= 2 * W(n) /\ W(i) \in Nat
        BY <1>2, <1>3
      <4> QED
        BY <3>2, <3>3, <4>1, <4>2
    <3> QED
      BY <3>4, <3>5, <3>6
  <2> QED
    BY <2>1, <2>2
<1>13. ASSUME NEW j \in 1..(n - 1), NEW k \in 1..(n - 1), j <= k PROVE X(j) >= X(k)
  <2>1. \A i \in 1..(at - 1) : i \in 1..n /\ X(i) = W(i) /\ W(i) >= w
    BY <1>1, <1>3, <1>9, <1>10, <1>11
  <2>2. \A i \in (at + 1)..(n - 1) : i - 1 \in 1..n /\ X(i) = W(i - 1) /\ W(i - 1) <= w
    <3> TAKE i \in (at + 1)..(n - 1)
    <3>1. i - 1 \in 1..n /\ at \in 1..n /\ at <= i - 1 /\ at <= n - 2
      BY <1>1, <1>9
    <3>2. W(at) >= W(i - 1) /\ W(at) < w /\ W(at) \in Nat /\ W(i - 1) \in Nat
      BY <1>2, <1>3, <1>9, <3>1
    <3> QED
      BY <1>10, <1>11, <3>1, <3>2
  <2>3. k = at \/ k \in 1..(at - 1) \/ k \in (at + 1)..(n - 1)
    BY <1>1, <1>9
  <2>4. CASE j \in 1..(at - 1)
    <3>1. X(j) = W(j) /\ W(j) >= w /\ j \in 1..n /\ W(j) \in Nat
      BY <1>3, <2>1, <2>4
    <3>2. CASE k \in 1..(at - 1)
      BY <1>2, <1>13, <2>1, <3>1, <3>2
    <3>3. CASE k = at
      BY <1>10, <1>11, <3>1, <3>3
    <3>4. CASE k \in (at + 1)..(n - 1)
      <4>1. k - 1 \in 1..n /\ j <= k - 1 /\ X(k) = W(k - 1)
        BY <1>9, <2>2, <2>4, <3>4
      <4> QED
        BY <1>2, <3>1, <4>1
    <3> QED
      BY <2>3, <3>2, <3>3, <3>4
  <2>5. CASE j = at
    <3>1. X(j) = w
      BY <1>10, <2>5
    <3>2. k = at \/ k \in (at + 1)..(n - 1)
      BY <1>9, <1>13, <2>3, <2>5
    <3>3. CASE k \in (at + 1)..(n - 1)
      <4>1. X(k) <= w /\ X(k) \in Nat
        BY <1>3, <2>2, <3>3
      <4> QED
        BY <1>11, <3>1, <4>1
    <3>4. CASE k = at
      <4>1. X(k) = w
        BY <1>10, <3>4, Zenon
      <4> QED
        BY <1>11, <3>1, <4>1
    <3> QED
      BY <3>2, <3>3, <3>4
  <2>6. CASE j \in (at + 1)..(n - 1)
    <3>1. k \in (at + 1)..(n - 1) /\ j - 1 <= k - 1
      BY <1>9, <1>13, <2>6
    <3>2. X(j) = W(j - 1) /\ X(k) = W(k - 1) /\ j - 1 \in 1..n /\ k - 1 \in 1..n
      BY <2>2, <2>6, <3>1
    <3> QED
      BY <1>2, <3>1, <3>2
  <2>7. j = at \/ j \in 1..(at - 1) \/ j \in (at + 1)..(n - 1)
    BY <1>1, <1>9
  <2> QED
    BY <2>4, <2>5, <2>6, <2>7
<1>14. ASSUME NEW k \in 1..(n - 1) PROVE t[k].weight = Cardinality(DOMAIN t[k].depth) /\ Near(t[k], m, b)
  <2>1. k = at \/ k \in 1..(at - 1) \/ k \in (at + 1)..(n - 1)
    BY <1>1, <1>9
  <2>2. k \in 1..n /\ (k \in (at + 1)..(n - 1) => k - 1 \in 1..n)
    BY <1>1, <1>9
  <2>3. t[k] = new \/ \E i \in 1..n : t[k] = list[i]
    BY <1>9, <2>1, <2>2
  <2> QED
    BY <1>2, <1>8, <2>3, Zenon DEF W
<1> QED
  BY <1>4, <1>12, <1>13, <1>14, Zenon DEF Light, X, t, n

-----------------------------------------------------------------------------
(* All of them *)

Shrinks(V) ==
  \A l \in V : Len(l) \in Nat \ {0} /\ (Len(l) >= 2 => JoinLast(l) \in V /\ Len(JoinLast(l)) = Len(l) - 1)
LEMMA JoinLoop ==
  ASSUME NEW V, Shrinks(V), NEW list \in V
  PROVE  Join(list) \in V /\ Len(Join(list)) = 1
<1> DEFINE n == Len(list) - 1
           Rec(f) == f = [k \in 0..n |-> IF k = 0 THEN list ELSE JoinLast(f[k - 1])]
           g == [q \in Nat \X V |-> IF Len(q[2]) >= 2 THEN JoinLast(q[2]) ELSE q[2]]
<1>1. n \in Nat /\ Len(list) = n + 1
  BY DEF Shrinks
<1>2. g \in [Nat \X V -> V]
  BY DEF Shrinks
<1> HIDE DEF n
<1>3. PICK e : Ran(V, g, list, n, e)
  <2> HIDE DEF g
  <2> QED
    BY <1>1, <1>2, Recursion
<1>4. /\ e \in [0..n -> V] /\ e[0] = list
      /\ \A k \in 1..n : e[k] = IF Len(e[k - 1]) >= 2 THEN JoinLast(e[k - 1]) ELSE e[k - 1]
  <2>1. e \in [0..n -> V] /\ e[0] = list /\ \A k \in 1..n : e[k] = g[<<k, e[k - 1]>>]
    BY <1>3, Zenon DEF Ran
  <2>2. ASSUME NEW k \in 1..n PROVE e[k] = IF Len(e[k - 1]) >= 2 THEN JoinLast(e[k - 1]) ELSE e[k - 1]
    <3>1. k \in Nat /\ e[k - 1] \in V /\ <<k, e[k - 1]>> \in Nat \X V /\ <<k, e[k - 1]>>[2] = e[k - 1]
      BY <1>1, <2>1
    <3> QED
      BY <2>1, <3>1
  <2> QED
    BY <2>1, <2>2
<1> HIDE DEF g
<1> DEFINE T == {k \in Nat : k <= n => Len(e[k]) = n + 1 - k}
<1>5. 0 \in T
  BY <1>1, <1>4
<1>6. ASSUME NEW k \in T PROVE k + 1 \in T
  <2>1. k \in Nat
    OBVIOUS
  <2>2. ASSUME k + 1 <= n PROVE Len(e[k + 1]) = n + 1 - (k + 1)
    <3>1. k \in 0..n /\ k + 1 \in 1..n /\ (k + 1) - 1 = k /\ n + 1 - k >= 2 /\ (n + 1 - k) - 1 = n + 1 - (k + 1)
      BY <1>1, <2>1, <2>2
    <3>2. Len(e[k]) = n + 1 - k /\ e[k] \in V
      BY <1>4, <3>1
    <3>3. e[k + 1] = IF Len(e[k]) >= 2 THEN JoinLast(e[k]) ELSE e[k]
      BY <1>4, <3>1, Zenon
    <3>4. e[k + 1] = JoinLast(e[k])
      BY <3>1, <3>2, <3>3, Zenon
    <3>5. Len(JoinLast(e[k])) = Len(e[k]) - 1
      BY <3>1, <3>2, Zenon DEF Shrinks
    <3> QED
      BY <3>1, <3>2, <3>4, <3>5, Zenon
  <2> QED
    BY <2>1, <2>2
<1> HIDE DEF T
<1>7. T = Nat
  <2>1. T \in SUBSET Nat
    BY DEF T
  <2> QED
    BY <1>5, <1>6, <2>1, Counting
<1>8. \A k \in 0..n : Len(e[k]) = n + 1 - k
  <2> TAKE k \in 0..n
  <2>1. k \in T /\ k <= n
    BY <1>1, <1>7
  <2> QED
    BY <2>1 DEF T
<1>9. \A k \in 1..n : e[k] = JoinLast(e[k - 1])
  <2> TAKE k \in 1..n
  <2>1. k - 1 \in 0..n /\ n + 1 - (k - 1) >= 2
    BY <1>1
  <2>2. Len(e[k - 1]) >= 2
    BY <1>8, <2>1, Zenon
  <2> QED
    BY <1>4, <2>2, Zenon
<1>10. Rec(e)
  BY <1>4, <1>9
<1> DEFINE f == CHOOSE h : Rec(h)
<1>11. Rec(f)
  BY <1>10, Zenon
<1>12. Join(list) = f[n]
  <2>1. Max({0, n}) = n
    <3>1. {0, n} \in SUBSET Nat /\ {0, n} # {} /\ \A x \in {0, n} : x <= n
      BY <1>1
    <3> HIDE DEF n
    <3>2. Max({0, n}) \in {0, n} /\ \A x \in {0, n} : x <= Max({0, n})
      BY <1>1, <3>1, MaxIs
    <3> QED
      BY <1>1, <3>2
  <2>2. Join(list) = Iterate(JoinLast, list, Max({0, n}))
    BY Zenon DEF Join, n
  <2>3. Join(list) = Iterate(JoinLast, list, n)
    BY <2>1, <2>2, Zenon
  <2> QED
    BY <2>3, Zenon DEF Iterate
<1> HIDE DEF f
<1>13. f[0] = list /\ \A k \in 1..n : f[k] = JoinLast(f[k - 1])
  BY <1>1, <1>11
<1>14. \A k \in 0..n : e[k] = f[k]
  <2>1. Alike(n, e, f)
    BY <1>4, <1>9, <1>13, Zenon DEF Alike
  <2> QED
    BY <1>1, <2>1, Agree
<1>15. n \in 0..n /\ n + 1 - n = 1
  BY <1>1
<1>16. Join(list) = e[n]
  BY <1>12, <1>14, <1>15
<1>17. Len(e[n]) = 1 /\ e[n] \in V
  BY <1>4, <1>8, <1>15
<1> QED
  BY <1>16, <1>17

\* The root has all codes.
Rooted(d, used) == d \in Depths(used) /\ Complete(d) /\ DOMAIN d = used
LEMMA JoinedForest ==
  ASSUME NEW used, used \in SUBSET Nat, IsFiniteSet(used), NEW list, Forest(list, used)
  PROVE  Rooted(Join(list)[1].depth, used)
<1> DEFINE V == {l \in Seq(NodesOf(used)) : Forest(l, used)}
           r == Join(list)
<1>1. Shrinks(V)
  <2>1. ASSUME NEW l \in V PROVE Len(l) \in Nat \ {0}
    BY <2>1 DEF Forest
  <2>2. ASSUME NEW l \in V, Len(l) >= 2 PROVE JoinLast(l) \in V /\ Len(JoinLast(l)) = Len(l) - 1
    <3>1. Forest(l, used)
      BY <2>2
    <3>2. Forest(JoinLast(l), used) /\ Len(JoinLast(l)) = Len(l) - 1
      BY <2>2, <3>1, ForestKept
    <3>3. JoinLast(l) \in Seq(NodesOf(used))
      BY <3>2, Zenon DEF Forest
    <3> QED
      BY <3>2, <3>3
  <2> HIDE DEF V
  <2> QED
    BY <2>1, <2>2 DEF Shrinks
<1>2. list \in V
  BY DEF Forest
<1>3. r \in V /\ Len(r) = 1
  <2> HIDE DEF V
  <2> QED
    BY <1>1, <1>2, JoinLoop
<1> HIDE DEF r
<1>4. Forest(r, used) /\ 1 \in 1..Len(r) /\ r \in Seq(NodesOf(used))
  BY <1>3
<1>5. PICK place : Placed(r, used, place)
  BY <1>4 DEF Forest
<1>6. place \in [used -> 1..1] /\ DOMAIN r[1].depth = {c \in used : place[c] = 1}
  BY <1>3, <1>5 DEF Placed
<1>7. DOMAIN r[1].depth = used
  <2>1. \A c \in used : place[c] = 1
    BY <1>6
  <2>2. {c \in used : place[c] = 1} = used
    BY <2>1
  <2> QED
    BY <1>6, <2>2, Zenon
<1>8. Complete(r[1].depth)
  BY <1>4 DEF Forest
<1>9. r[1] \in NodesOf(used)
  <2> DEFINE S == NodesOf(used)
  <2> HIDE DEF S
  <2>1. r \in Seq(S) => r[1] \in S
    BY <1>3
  <2> QED
    BY <1>4, <2>1 DEF S
<1>10. r[1].depth \in Depths(used)
  BY <1>9, NodeParts
<1> QED
  BY <1>7, <1>8, <1>10 DEF Rooted, r

LEMMA JoinedLight ==
  ASSUME NEW used, used \in SUBSET Nat, IsFiniteSet(used), NEW m, NEW b, Growing(m, b, Cardinality(used)),
         NEW list, Light(list, used, m, b)
  PROVE  \A c \in DOMAIN Join(list)[1].depth : Join(list)[1].depth[c] <= b
<1> DEFINE V == {l \in Seq(NodesOf(used)) : Light(l, used, m, b)}
           r == Join(list)
<1>1. Shrinks(V)
  <2>1. ASSUME NEW l \in V PROVE Len(l) \in Nat \ {0}
    BY <2>1 DEF Light, Forest
  <2>2. ASSUME NEW l \in V, Len(l) >= 2 PROVE JoinLast(l) \in V /\ Len(JoinLast(l)) = Len(l) - 1
    <3>1. Light(l, used, m, b)
      BY <2>2
    <3>2. Light(JoinLast(l), used, m, b) /\ Len(JoinLast(l)) = Len(l) - 1
      BY <2>2, <3>1, LightKept
    <3>3. JoinLast(l) \in Seq(NodesOf(used))
      BY <3>2, Zenon DEF Light, Forest
    <3> QED
      BY <3>2, <3>3
  <2> HIDE DEF V
  <2> QED
    BY <2>1, <2>2 DEF Shrinks
<1>2. list \in V
  BY DEF Light, Forest
<1>3. r \in V /\ Len(r) = 1
  <2> HIDE DEF V
  <2> QED
    BY <1>1, <1>2, JoinLoop
<1> HIDE DEF r
<1>4. Near(r[1], m, b)
  <2>1. 1 \in 1..Len(r)
    BY <1>3
  <2> QED
    BY <1>3, <2>1 DEF Light
<1> QED
  BY <1>4 DEF Near, r

-----------------------------------------------------------------------------
(* The list it starts from *)

\* Codes by weight, ties by code.
Ahead(g, d, c) == g[d] > g[c] \/ (g[d] = g[c] /\ d < c)
Standing(used, g, c) == 1 + Cardinality({d \in used : Ahead(g, d, c)})
LEMMA Standings ==
  ASSUME NEW used, used \in SUBSET Nat, IsFiniteSet(used), NEW g \in [used -> Nat]
  PROVE  /\ Cardinality(used) \in Nat
         /\ \A c \in used : Standing(used, g, c) \in 1..Cardinality(used)
         /\ \A c \in used : \A d \in used : Standing(used, g, c) = Standing(used, g, d) => c = d
         /\ \A k \in 1..Cardinality(used) : \E c \in used : Standing(used, g, c) = k
<1> DEFINE n == Cardinality(used)
           A(c) == {d \in used : Ahead(g, d, c)}
           h == [c \in used |-> Standing(used, g, c)]
<1>1. n \in Nat
  BY FS_CardinalityType
<1> HIDE DEF n
<1>2. ASSUME NEW c \in used PROVE IsFiniteSet(A(c)) /\ Cardinality(A(c)) \in Nat /\ c \notin A(c)
  <2>1. A(c) \in SUBSET used
    OBVIOUS
  <2>2. c \notin A(c)
    BY DEF Ahead
  <2> HIDE DEF A
  <2> QED
    BY <2>1, <2>2, FS_Subset, FS_CardinalityType
<1>3. ASSUME NEW c \in used PROVE Standing(used, g, c) = 1 + Cardinality(A(c)) /\ Standing(used, g, c) \in 1..n
  <2>1. Standing(used, g, c) = 1 + Cardinality(A(c))
    BY Zenon DEF Standing
  <2>2. A(c) \in SUBSET used /\ A(c) # used
    BY <1>2
  <2> HIDE DEF A
  <2>3. Cardinality(A(c)) <= n /\ (n = Cardinality(A(c)) => A(c) = used)
    BY <2>2, FS_Subset DEF n
  <2>4. Cardinality(A(c)) < n
    BY <1>1, <1>2, <2>2, <2>3
  <2> QED
    BY <1>1, <1>2, <2>1, <2>4
<1>4. ASSUME NEW c \in used, NEW d \in used, Ahead(g, c, d) PROVE Standing(used, g, c) # Standing(used, g, d)
  <2>1. A(c) \in SUBSET A(d)
    <3>1. ASSUME NEW x \in used, Ahead(g, x, c) PROVE Ahead(g, x, d)
      <4>1. g[x] \in Nat /\ g[c] \in Nat /\ g[d] \in Nat /\ x \in Nat /\ c \in Nat /\ d \in Nat
        OBVIOUS
      <4> QED
        BY <1>4, <3>1, <4>1 DEF Ahead
    <3> QED
      BY <3>1
  <2>2. c \in A(d) /\ c \notin A(c)
    BY <1>2, <1>4
  <2>3. IsFiniteSet(A(d)) /\ Cardinality(A(d)) \in Nat /\ Cardinality(A(c)) \in Nat
    BY <1>2
  <2> HIDE DEF A
  <2>4. Cardinality(A(c)) <= Cardinality(A(d)) /\ (Cardinality(A(d)) = Cardinality(A(c)) => A(c) = A(d))
    BY <2>1, <2>3, FS_Subset
  <2>5. Cardinality(A(c)) # Cardinality(A(d))
    BY <2>2, <2>4
  <2> QED
    BY <1>3, <2>3, <2>5
<1>5. ASSUME NEW c \in used, NEW d \in used, c # d PROVE Ahead(g, c, d) \/ Ahead(g, d, c)
  <2>1. g[c] \in Nat /\ g[d] \in Nat /\ c \in Nat /\ d \in Nat
    OBVIOUS
  <2> QED
    BY <1>5, <2>1 DEF Ahead
<1>6. \A c \in used : \A d \in used : Standing(used, g, c) = Standing(used, g, d) => c = d
  BY <1>4, <1>5
<1>7. h \in [used -> 1..n] /\ \A c \in used : h[c] = Standing(used, g, c)
  BY <1>3
<1> HIDE DEF h
<1>8. h \in Injection(used, 1..n)
  BY <1>6, <1>7 DEF Injection, IsInjective
<1>9. IsFiniteSet(1..n) /\ Cardinality(1..n) = n
  <2>1. 1 \in Int /\ n \in Int /\ (IF 1 > n THEN 0 ELSE n - 1 + 1) = n
    BY <1>1
  <2>2. IsFiniteSet(1..n) /\ Cardinality(1..n) = IF 1 > n THEN 0 ELSE n - 1 + 1
    BY <2>1, FS_Interval
  <2> QED
    BY <1>1, <2>2
<1>10. h \in Surjection(used, 1..n)
  <2>1. Cardinality(used) = Cardinality(1..n)
    BY <1>9 DEF n
  <2> QED
    BY <1>8, <1>9, <2>1, FS_Injection
<1>11. \A k \in 1..n : \E c \in used : h[c] = k
  BY <1>10 DEF Surjection
<1> QED
  BY <1>1, <1>3, <1>6, <1>7, <1>11 DEF n

\* The list has a node for each code.
WeightOf(histo, total, w) == [c \in DOMAIN histo |-> Max({1, (histo[c] * w) \div total})]
UsedOf(histo) == {c \in DOMAIN histo : histo[c] # 0}
StandAt(histo, total, w, k) == CHOOSE e \in UsedOf(histo) : Standing(UsedOf(histo), WeightOf(histo, total, w), e) = k
Leaf(histo, total, w, c) == [weight |-> WeightOf(histo, total, w)[c], depth |-> [d \in {c} |-> 0]]
ListOf(histo, total, w) ==
  [k \in 1..Cardinality(UsedOf(histo)) |-> Leaf(histo, total, w, StandAt(histo, total, w, k))]
Counted(histo) == /\ DOMAIN histo \in SUBSET Nat /\ IsFiniteSet(DOMAIN histo) /\ histo \in [DOMAIN histo -> Nat]
LEMMA Weights ==
  ASSUME NEW histo, Counted(histo), NEW total \in Nat \ {0}, NEW w \in Nat
  PROVE  /\ UsedOf(histo) \in SUBSET DOMAIN histo /\ UsedOf(histo) \in SUBSET Nat /\ IsFiniteSet(UsedOf(histo))
         /\ WeightOf(histo, total, w) \in [DOMAIN histo -> Nat \ {0}]
         /\ w = 0 => \A c \in DOMAIN histo : WeightOf(histo, total, w)[c] = 1
<1>1. UsedOf(histo) \in SUBSET DOMAIN histo
  BY DEF UsedOf
<1>2. IsFiniteSet(UsedOf(histo)) /\ UsedOf(histo) \in SUBSET Nat
  BY <1>1, FS_Subset DEF Counted
<1>3. ASSUME NEW c \in DOMAIN histo
      PROVE  Max({1, (histo[c] * w) \div total}) \in Nat \ {0} /\ (w = 0 => Max({1, (histo[c] * w) \div total}) = 1)
  <2> DEFINE x == (histo[c] * w) \div total
             U == {1, x}
  <2>1. histo[c] \in Nat
    BY DEF Counted
  <2>2. x \in Nat /\ (w = 0 => x = 0)
    <3>1. histo[c] * w \in Nat /\ (w = 0 => histo[c] * w = 0)
      BY <2>1, Products
    <3>2. \A y \in Nat : y \div total \in Nat /\ (y = 0 => y \div total = 0)
      BY Quotient
    <3> QED
      BY <3>1, <3>2, Zenon
  <2> HIDE DEF x
  <2>3. U \in SUBSET Nat /\ U # {} /\ 1 + x \in Nat /\ \A y \in U : y <= 1 + x
    BY <2>2
  <2>4. 1 \in U /\ \A y \in U : y = 1 \/ y = x
    OBVIOUS
  <2> HIDE DEF U
  <2>5. Max(U) \in U /\ \A y \in U : y <= Max(U)
    BY <2>3, MaxIs
  <2>6. Max(U) \in Nat /\ Max(U) >= 1 /\ (Max(U) = 1 \/ Max(U) = x)
    BY <2>3, <2>4, <2>5
  <2>7. Max(U) \in Nat \ {0} /\ (w = 0 => Max(U) = 1)
    BY <2>2, <2>6
  <2> QED
    BY <2>7 DEF U, x
<1> QED
  BY <1>1, <1>2, <1>3 DEF WeightOf

AllStand(used, g) ==
  /\ Cardinality(used) \in Nat
  /\ \A c \in used : Standing(used, g, c) \in 1..Cardinality(used)
  /\ \A c \in used : \A d \in used : Standing(used, g, c) = Standing(used, g, d) => c = d
  /\ \A k \in 1..Cardinality(used) : \E c \in used : Standing(used, g, c) = k
LEMMA Stands ==
  ASSUME NEW histo, Counted(histo), NEW total \in Nat \ {0}, NEW w \in Nat
  PROVE  AllStand(UsedOf(histo), WeightOf(histo, total, w))
<1> DEFINE used == UsedOf(histo)
           g == WeightOf(histo, total, w)
           h == [c \in used |-> g[c]]
<1>1. used \in SUBSET DOMAIN histo /\ used \in SUBSET Nat /\ IsFiniteSet(used) /\ g \in [DOMAIN histo -> Nat \ {0}]
  BY Weights
<1> HIDE DEF used, g
<1>2. h \in [used -> Nat] /\ \A c \in used : h[c] = g[c]
  BY <1>1
<1> HIDE DEF h
<1>3. \A c \in used : Standing(used, h, c) = Standing(used, g, c)
  <2> TAKE c \in used
  <2>1. \A d \in used : Ahead(h, d, c) <=> Ahead(g, d, c)
    BY <1>2, Zenon DEF Ahead
  <2>2. {d \in used : Ahead(h, d, c)} = {d \in used : Ahead(g, d, c)}
    BY <2>1
  <2> QED
    BY <2>2, Zenon DEF Standing
<1>4. /\ Cardinality(used) \in Nat
      /\ \A c \in used : Standing(used, h, c) \in 1..Cardinality(used)
      /\ \A c \in used : \A d \in used : Standing(used, h, c) = Standing(used, h, d) => c = d
      /\ \A k \in 1..Cardinality(used) : \E c \in used : Standing(used, h, c) = k
  BY <1>1, <1>2, Standings
<1>5. /\ Cardinality(used) \in Nat
      /\ \A c \in used : Standing(used, g, c) \in 1..Cardinality(used)
      /\ \A c \in used : \A d \in used : Standing(used, g, c) = Standing(used, g, d) => c = d
      /\ \A k \in 1..Cardinality(used) : \E c \in used : Standing(used, g, c) = k
  BY <1>3, <1>4, Zenon
<1> QED
  BY <1>5, Zenon DEF AllStand, used, g

AsBuilt(histo, total, w) ==
  [c \in DOMAIN histo |-> IF c \notin UsedOf(histo) THEN 0 ELSE Max({1, Join(ListOf(histo, total, w))[1].depth[c]})]
LEMMA BuildIs ==
  ASSUME NEW histo, Counted(histo), NEW total \in Nat \ {0}, NEW w \in Nat
  PROVE  BuildTree(histo, total, w) = AsBuilt(histo, total, w)
<1> DEFINE used == {c \in DOMAIN histo : histo[c] # 0}
           weight(c) == Max({1, (histo[c] * w) \div total})
           rank(c) == 1 + Cardinality({d \in used : \/ weight(d) > weight(c)
                                                    \/ weight(d) = weight(c) /\ d < c})
           pick(k) == CHOOSE e \in used : rank(e) = k
           node(c) == [weight |-> weight(c), depth |-> [d \in {c} |-> 0]]
           list == [k \in 1..Cardinality(used) |-> node(pick(k))]
           tree(l) == [c \in DOMAIN histo |-> IF c \notin used THEN 0 ELSE Max({1, Join(l)[1].depth[c]})]
           U == UsedOf(histo)
           g == WeightOf(histo, total, w)
<1>1. BuildTree(histo, total, w) = Table(tree(list))
  BY Zenon DEF BuildTree
<1>2. used = U /\ used \in SUBSET DOMAIN histo
  BY DEF UsedOf
<1>3. \A c \in used : weight(c) = g[c]
  BY <1>2, Zenon DEF WeightOf
<1>4. /\ Cardinality(U) \in Nat
      /\ \A c \in U : \A d \in U : Standing(U, g, c) = Standing(U, g, d) => c = d
      /\ \A k \in 1..Cardinality(U) : \E c \in U : Standing(U, g, c) = k
  <2>1. AllStand(U, g)
    BY Stands
  <2> HIDE DEF U, g
  <2> QED
    BY <2>1, Zenon DEF AllStand
<1>5. \A l : tree(l) = [c \in DOMAIN histo |-> IF c \notin U THEN 0 ELSE Max({1, Join(l)[1].depth[c]})]
  BY <1>2, Zenon
<1> HIDE DEF weight, g, U
<1>6. \A c \in used : rank(c) = Standing(used, g, c)
  <2>1. ASSUME NEW c \in used
        PROVE  {d \in used : \/ weight(d) > weight(c)
                             \/ weight(d) = weight(c) /\ d < c} = {d \in used : Ahead(g, d, c)}
    <3> HIDE DEF used
    <3>1. \A d \in used : Ahead(g, d, c) <=> \/ weight(d) > weight(c)
                                             \/ weight(d) = weight(c) /\ d < c
      BY <1>3, Zenon DEF Ahead
    <3> QED
      BY <3>1
  <2> QED
    BY <2>1, Zenon DEF Standing
<1> HIDE DEF used, rank
<1>7. ASSUME NEW k \in 1..Cardinality(U) PROVE node(pick(k)) = Leaf(histo, total, w, StandAt(histo, total, w, k))
  <2> DEFINE p == pick(k)
             q == StandAt(histo, total, w, k)
  <2>1. \E c \in U : Standing(U, g, c) = k
    BY <1>4
  <2>2. \E c \in used : rank(c) = k
    BY <1>2, <1>6, <2>1
  <2>3. p \in used /\ rank(p) = k
    BY <2>2
  <2>4. q \in U /\ Standing(U, g, q) = k
    <3>1. q = CHOOSE e \in U : Standing(U, g, e) = k
      BY Zenon DEF StandAt, U, g
    <3> HIDE DEF q
    <3> QED
      BY <2>1, <3>1
  <2> HIDE DEF p, q, pick
  <2>5. p = q
    <3>1. p \in U /\ Standing(U, g, p) = k
      BY <1>2, <1>6, <2>3, Zenon
    <3> QED
      BY <1>4, <2>4, <3>1, Zenon
  <2>6. weight(p) = g[p]
    BY <1>3, <2>3
  <2>7. node(p) = Leaf(histo, total, w, q)
    BY <2>5, <2>6, Zenon DEF Leaf, g
  <2> QED
    BY <2>7, Zenon DEF p, q
<1> HIDE DEF node, pick
<1>8. list = ListOf(histo, total, w)
  <2>1. ListOf(histo, total, w) = [k \in 1..Cardinality(U) |-> Leaf(histo, total, w, StandAt(histo, total, w, k))]
    BY Zenon DEF ListOf, U
  <2>2. list = [k \in 1..Cardinality(U) |-> node(pick(k))]
    BY <1>2, Zenon
  <2> HIDE DEF list
  <2> QED
    BY <1>7, <2>1, <2>2, Zenon
<1> HIDE DEF tree, list
<1> QED
  BY <1>1, <1>5, <1>8, TableIs, Zenon DEF U, AsBuilt

LEMMA ListStarts ==
  ASSUME NEW histo, Counted(histo), UsedOf(histo) # {}, NEW total \in Nat \ {0}, NEW w \in Nat
  PROVE  /\ Forest(ListOf(histo, total, w), UsedOf(histo))
         /\ w = 0 => \A m : \A b : Growing(m, b, Cardinality(UsedOf(histo)))
                                   => Light(ListOf(histo, total, w), UsedOf(histo), m, b)
<1> DEFINE used == UsedOf(histo)
           g == WeightOf(histo, total, w)
           n == Cardinality(used)
           p(k) == StandAt(histo, total, w, k)
           list == ListOf(histo, total, w)
           place == [c \in used |-> Standing(used, g, c)]
<1>1. /\ used \in SUBSET DOMAIN histo /\ used \in SUBSET Nat /\ IsFiniteSet(used) /\ used # {}
      /\ g \in [DOMAIN histo -> Nat \ {0}] /\ (w = 0 => \A c \in DOMAIN histo : g[c] = 1)
  BY Weights
<1>2. /\ n \in Nat
      /\ \A c \in used : Standing(used, g, c) \in 1..n
      /\ \A c \in used : \A d \in used : Standing(used, g, c) = Standing(used, g, d) => c = d
      /\ \A k \in 1..n : \E c \in used : Standing(used, g, c) = k
  <2>1. AllStand(used, g)
    BY Stands
  <2> HIDE DEF used, g
  <2> QED
    BY <2>1, Zenon DEF AllStand
<1>3. \A k : p(k) = CHOOSE e \in used : Standing(used, g, e) = k
  BY Zenon DEF StandAt
<1>4. list = [k \in 1..n |-> Leaf(histo, total, w, p(k))]
  BY Zenon DEF ListOf
<1>5. \A c : Leaf(histo, total, w, c) = [weight |-> g[c], depth |-> [d \in {c} |-> 0]]
  BY Zenon DEF Leaf
<1> HIDE DEF used, g, n, p, list
<1>6. ASSUME NEW k \in 1..n PROVE p(k) \in used /\ Standing(used, g, p(k)) = k
  <2>1. \E c \in used : Standing(used, g, c) = k
    BY <1>2
  <2> QED
    BY <1>3, <2>1
<1>7. n >= 1
  <2>1. PICK c \in used : TRUE
    BY <1>1
  <2>2. Standing(used, g, c) \in 1..n
    BY <1>2, <2>1
  <2> QED
    BY <1>2, <2>2
<1>8. place \in [used -> 1..n] /\ \A c \in used : place[c] = Standing(used, g, c)
  BY <1>2
<1> HIDE DEF place
<1>9. ASSUME NEW k \in 1..n
      PROVE  /\ list[k] \in NodesOf(used) /\ Complete(list[k].depth) /\ DOMAIN list[k].depth = {p(k)}
             /\ list[k].weight = g[p(k)] /\ list[k].depth[p(k)] = 0 /\ {p(k)} = {c \in used : place[c] = k}
  <2>1. list[k] = [weight |-> g[p(k)], depth |-> [d \in {p(k)} |-> 0]]
    BY <1>4, <1>5, Zenon
  <2>2. p(k) \in used /\ Standing(used, g, p(k)) = k /\ g[p(k)] \in Nat \ {0}
    BY <1>1, <1>6
  <2>3. [d \in {p(k)} |-> 0] \in Depths(used) /\ Complete([d \in {p(k)} |-> 0])
    <3> DEFINE x == p(k)
    <3>1. x \in used
      BY <2>2
    <3> HIDE DEF x
    <3>2. [d \in {x} |-> 0] \in Depths(used) /\ Complete([d \in {x} |-> 0])
      BY <1>1, <3>1, OneCode
    <3> QED
      BY <3>2 DEF x
  <2>4. \A c \in used : place[c] = k <=> c = p(k)
    <3> DEFINE x == p(k)
    <3>1. x \in used /\ Standing(used, g, x) = k
      BY <2>2
    <3> HIDE DEF x
    <3>2. ASSUME NEW c \in used, place[c] = k PROVE c = x
      <4>1. Standing(used, g, c) = Standing(used, g, x)
        BY <1>8, <3>1, <3>2
      <4> QED
        BY <1>2, <3>1, <4>1
    <3>3. place[x] = k
      BY <1>8, <3>1
    <3>4. \A c \in used : place[c] = k <=> c = x
      BY <3>2, <3>3
    <3> QED
      BY <3>4 DEF x
  <2>5. {p(k)} = {c \in used : place[c] = k}
    BY <2>2, <2>4
  <2> DEFINE e == [d \in {p(k)} |-> 0]
  <2>6. DOMAIN e = {p(k)} /\ e[p(k)] = 0
    OBVIOUS
  <2> HIDE DEF e
  <2>7. list[k].weight = g[p(k)] /\ list[k].depth = e
    BY <2>1 DEF e
  <2>8. list[k] \in NodesOf(used)
    BY <2>1, <2>2, <2>3 DEF NodesOf
  <2> QED
    BY <2>3, <2>5, <2>6, <2>7, <2>8, Zenon DEF e
<1>10. Len(list) = n /\ list \in Seq(NodesOf(used))
  <2> DEFINE S == NodesOf(used)
  <2>1. \A k \in 1..n : list[k] \in S
    BY <1>9
  <2>2. DOMAIN list = 1..n
    BY <1>4
  <2> HIDE DEF S
  <2>3. list = [k \in 1..n |-> list[k]]
    BY <1>4, Zenon
  <2>4. list \in [1..n -> S]
    BY <2>1, <2>3, Zenon
  <2>5. list \in Seq(S) /\ Len(list) = n
    BY <1>2, <2>4
  <2> QED
    BY <2>5 DEF S
<1>11. Placed(list, used, place)
  <2>1. \A k \in 1..n : DOMAIN list[k].depth = {c \in used : place[c] = k}
    BY <1>9, Zenon
  <2> QED
    BY <1>8, <1>10, <2>1, Zenon DEF Placed
<1>12. Forest(list, used)
  BY <1>7, <1>9, <1>10, <1>11, Zenon DEF Forest
<1>13. ASSUME w = 0, NEW m, NEW b, Growing(m, b, n) PROVE Light(list, used, m, b)
  <2>1. ASSUME NEW k \in 1..n PROVE list[k].weight = 1 /\ list[k].weight = Cardinality(DOMAIN list[k].depth) /\ Near(list[k], m, b)
    <3>1. list[k].weight = 1 /\ DOMAIN list[k].depth = {p(k)} /\ list[k].depth[p(k)] = 0
      BY <1>1, <1>6, <1>9, <1>13
    <3>2. Cardinality({p(k)}) = 1
      BY FS_Singleton
    <3>3. b \in Nat /\ m[0] <= 1
      BY <1>13 DEF Growing
    <3>4. \A c \in DOMAIN list[k].depth : list[k].depth[c] <= b /\ m[list[k].depth[c]] <= list[k].weight
      <4> TAKE c \in DOMAIN list[k].depth
      <4>1. list[k].depth[c] = 0
        BY <3>1
      <4>2. 0 <= b
        BY <3>3
      <4> QED
        BY <3>1, <3>3, <4>1, <4>2, Zenon
    <3> QED
      BY <3>1, <3>2, <3>4 DEF Near
  <2>2. n \in 1..n
    BY <1>2, <1>7
  <2>3. \A k \in 1..n : list[k].weight <= 2 * list[n].weight
    BY <2>1, <2>2
  <2>4. \A j \in 1..n : \A k \in 1..n : j <= k => list[j].weight >= list[k].weight
    BY <2>1
  <2> QED
    BY <1>10, <1>12, <2>1, <2>3, <2>4, Zenon DEF Light
<1> QED
  BY <1>12, <1>13 DEF used, n, list

-----------------------------------------------------------------------------
(* What is built is accepted and fits *)

\* The lengths a tree gives for the depths under its root: one bit at least.
Lengths(t, d, used) ==
  /\ DOMAIN d = used /\ used \in SUBSET DOMAIN t
  /\ \A c \in used : t[c] = IF d[c] = 0 THEN 1 ELSE d[c]
  /\ \A c \in DOMAIN t : c \notin used => t[c] = 0
LEMMA LengthsFit ==
  ASSUME NEW used, used \in SUBSET Nat, IsFiniteSet(used), NEW d, Rooted(d, used), used # {},
         NEW t, NEW maxbits, CodeTree(t, maxbits), Lengths(t, d, used)
  PROVE  ConsistentTree(t, maxbits) /\ Fits(t) /\ Used(t) = used
<1>1. DOMAIN d = used /\ (\A c \in used : d[c] \in Nat) /\ \A l : IsFiniteSet(OfLength(d, l)) /\ Count(d, l) \in Nat
  BY DepthsAre DEF Rooted
<1>2. /\ used \in SUBSET DOMAIN t /\ (\A c \in used : t[c] = IF d[c] = 0 THEN 1 ELSE d[c])
      /\ \A c \in DOMAIN t : c \notin used => t[c] = 0
  BY DEF Lengths
<1>3. maxbits \in 0..25 /\ \A c \in DOMAIN t : t[c] \in 0..maxbits
  BY DEF CodeTree
<1> DEFINE Given(c) == d[c] \in Nat /\ t[c] = IF d[c] = 0 THEN 1 ELSE d[c]
<1>0. \A c \in used : Given(c)
  BY <1>1, <1>2
<1>4. Used(t) = used
  <2>1. \A c \in used : t[c] > 0
    <3> TAKE c \in used
    <3>1. Given(c)
      BY <1>0
    <3> QED
      BY <3>1
  <2>2. \A c \in DOMAIN t : c \notin used => ~(t[c] > 0)
    BY <1>2
  <2> QED
    BY <1>2, <2>1, <2>2 DEF Used
<1>5. ASSUME NEW l \in Nat, l >= 2 PROVE Count(t, l) = Count(d, l)
  <2>1. \A c \in DOMAIN t : t[c] = l <=> c \in used /\ d[c] = l
    <3> TAKE c \in DOMAIN t
    <3>1. CASE c \in used
      <4>1. Given(c)
        BY <1>0, <3>1
      <4> QED
        BY <1>5, <3>1, <4>1
    <3>2. CASE c \notin used
      BY <1>2, <1>5, <3>2
    <3> QED
      BY <3>1, <3>2
  <2>2. OfLength(t, l) = OfLength(d, l)
    BY <1>1, <1>2, <2>1 DEF OfLength
  <2> QED
    BY <2>2 DEF Count
<1>6. Count(t, 1) = Count(d, 0) + Count(d, 1)
  <2>1. \A c \in DOMAIN t : t[c] = 1 <=> c \in used /\ (d[c] = 0 \/ d[c] = 1)
    <3> TAKE c \in DOMAIN t
    <3>1. CASE c \in used
      <4>1. Given(c)
        BY <1>0, <3>1
      <4> QED
        BY <3>1, <4>1
    <3>2. CASE c \notin used
      BY <1>2, <3>2
    <3> QED
      BY <3>1, <3>2
  <2>2. OfLength(t, 1) = OfLength(d, 0) \cup OfLength(d, 1)
    BY <1>1, <1>2, <2>1 DEF OfLength
  <2>3. OfLength(d, 0) \cap OfLength(d, 1) = {}
    BY DEF OfLength
  <2>4. Cardinality(OfLength(d, 0) \cup OfLength(d, 1))
        = Cardinality(OfLength(d, 0)) + Cardinality(OfLength(d, 1)) - Cardinality(OfLength(d, 0) \cap OfLength(d, 1))
    BY <1>1, FS_Union
  <2>5. Cardinality(OfLength(d, 0) \cap OfLength(d, 1)) = 0
    BY <2>3, FS_EmptySet
  <2>6. Count(d, 0) \in Nat /\ Count(d, 1) \in Nat
    BY <1>1
  <2>7. \A x \in Nat : \A y \in Nat : x + y - 0 = x + y
    OBVIOUS
  <2> QED
    BY <2>2, <2>4, <2>5, <2>6, <2>7, Zenon DEF Count
<1>7. PICK s : Tally(d, s)
  BY DEF Rooted, Complete
<1>8. /\ s \in [Nat -> Nat] /\ s[0] + Count(d, 0) = 1
      /\ \A l \in Nat : 2 * s[l] = s[l + 1] + Count(d, l + 1)
  BY <1>7 DEF Tally
<1>9. s[32] = 0
  <2>1. \A c \in used : d[c] <= 32
    BY <1>1, <1>2, <1>3
  <2>2. 32 \in Nat
    OBVIOUS
  <2> QED
    BY <1>1, <1>7, <2>1, <2>2, Zenon DEF Tally
<1>10. PICK st : StartsRun(t, st)
  BY StartsAre
<1>11. /\ st[32] = 0 /\ \A l \in 1..31 : st[l] = (st[l + 1] + Count(t, l + 1)) \div 2
       /\ \A l \in 1..32 : Starts(t)[l].at = st[l] /\ Starts(t)[l].count = Count(t, l)
  BY <1>10 DEF StartsRun
<1> DEFINE T == {k \in Nat : k <= 31 => st[32 - k] = s[32 - k]}
<1>12. 0 \in T
  BY <1>9, <1>11
<1>13. ASSUME NEW k \in T PROVE k + 1 \in T
  <2>1. k \in Nat
    OBVIOUS
  <2>2. ASSUME k + 1 <= 31 PROVE st[32 - (k + 1)] = s[32 - (k + 1)]
    <3> DEFINE l == 32 - (k + 1)
    <3>1. k <= 31 /\ l \in 1..31 /\ l + 1 = 32 - k /\ l \in Nat /\ l + 1 \in Nat /\ l + 1 >= 2
      BY <2>1, <2>2
    <3>2. st[32 - k] = s[32 - k]
      BY <3>1
    <3> HIDE DEF l, T
    <3>3. st[l + 1] = s[l + 1]
      BY <3>1, <3>2
    <3>4. Count(t, l + 1) = Count(d, l + 1)
      BY <1>5, <3>1
    <3>5. st[l] = (s[l + 1] + Count(d, l + 1)) \div 2
      BY <1>11, <3>1, <3>3, <3>4, Zenon
    <3>6. 2 * s[l] = s[l + 1] + Count(d, l + 1) /\ s[l] \in Nat
      BY <1>8, <3>1
    <3>7. \A x \in Nat : (2 * x) \div 2 = x
      OBVIOUS
    <3>8. st[l] = s[l]
      BY <3>5, <3>6, <3>7, Zenon
    <3> QED
      BY <3>8 DEF l
  <2> QED
    BY <2>1, <2>2
<1> HIDE DEF T
<1>14. T = Nat
  <2>1. T \in SUBSET Nat
    BY DEF T
  <2> QED
    BY <1>12, <1>13, <2>1, Counting
<1>15. ASSUME NEW l \in 1..32 PROVE st[l] = s[l]
  <2>1. 32 - l \in Nat /\ 32 - l <= 31 /\ 32 - (32 - l) = l
    OBVIOUS
  <2>2. 32 - l \in T
    BY <1>14, <2>1
  <2>3. st[32 - (32 - l)] = s[32 - (32 - l)]
    BY <2>1, <2>2 DEF T
  <2> QED
    BY <2>1, <2>3
<1>16. ASSUME NEW l \in 2..32 PROVE (Starts(t)[l].at + Starts(t)[l].count) % 2 = 0
  <2>1. l \in 1..32 /\ l - 1 \in Nat /\ (l - 1) + 1 = l /\ l \in Nat /\ l >= 2
    OBVIOUS
  <2>2. Starts(t)[l].at = s[l] /\ Starts(t)[l].count = Count(d, l)
    BY <1>5, <1>11, <1>15, <2>1
  <2>3. 2 * s[l - 1] = s[l] + Count(d, l) /\ s[l - 1] \in Nat
    <3>1. 2 * s[l - 1] = s[(l - 1) + 1] + Count(d, (l - 1) + 1)
      BY <1>8, <2>1
    <3> QED
      BY <1>8, <2>1, <3>1
  <2>4. \A x \in Nat : (2 * x) % 2 = 0
    OBVIOUS
  <2> QED
    BY <2>2, <2>3, <2>4, Zenon
<1>17. ConsistentTree(t, maxbits)
  <2>1. \A c \in DOMAIN t : t[c] <= maxbits
    BY <1>3
  <2> QED
    BY <1>16, <2>1, Zenon DEF ConsistentTree
<1>18. Fits(t)
  <2>1. 1 \in 1..32 /\ 0 \in Nat /\ 0 + 1 = 1
    OBVIOUS
  <2>2. Starts(t)[1].at = s[1] /\ Starts(t)[1].count = Count(d, 0) + Count(d, 1)
    BY <1>6, <1>11, <1>15, <2>1
  <2>3. 2 * s[0] = s[1] + Count(d, 1)
    BY <1>8, <2>1, Zenon
  <2>4. s[0] \in Nat /\ s[1] \in Nat /\ Count(d, 0) \in Nat /\ Count(d, 1) \in Nat /\ s[0] + Count(d, 0) = 1
    BY <1>1, <1>8
  <2>5. s[1] + (Count(d, 0) + Count(d, 1)) <= 2
    BY <2>3, <2>4
  <2> QED
    BY <2>2, <2>5, Zenon DEF Fits
<1> QED
  BY <1>4, <1>17, <1>18

LEMMA Deepest ==
  ASSUME NEW x \in Nat
  PROVE  Max({1, x}) = IF x = 0 THEN 1 ELSE x
<1> DEFINE U == {1, x}
<1>1. U \in SUBSET Nat /\ U # {} /\ 1 + x \in Nat /\ (\A y \in U : y <= 1 + x) /\ 1 \in U /\ x \in U
      /\ \A y \in U : y = 1 \/ y = x
  OBVIOUS
<1> HIDE DEF U
<1>2. Max(U) \in U /\ \A y \in U : y <= Max(U)
  BY <1>1, MaxIs
<1>3. (Max(U) = 1 \/ Max(U) = x) /\ 1 <= Max(U) /\ x <= Max(U)
  BY <1>1, <1>2
<1>4. Max(U) = IF x = 0 THEN 1 ELSE x
  BY <1>3
<1> QED
  BY <1>4 DEF U

BuiltFrom(t, histo, d) ==
  /\ DOMAIN t = DOMAIN histo /\ t \in [DOMAIN histo -> Nat]
  /\ Rooted(d, UsedOf(histo)) /\ Lengths(t, d, UsedOf(histo))
LEMMA Built ==
  ASSUME NEW histo, Counted(histo), UsedOf(histo) # {}, NEW total \in Nat \ {0}, NEW w \in Nat
  PROVE  /\ \E d : BuiltFrom(BuildTree(histo, total, w), histo, d)
         /\ \A b \in Nat : w = 0 /\ b >= 1 /\ Shallow(Cardinality(UsedOf(histo)), b)
                          => \A c \in DOMAIN histo : BuildTree(histo, total, w)[c] <= b
<1> DEFINE used == UsedOf(histo)
           list == ListOf(histo, total, w)
           d == Join(list)[1].depth
           t == BuildTree(histo, total, w)
<1>1. /\ used \in SUBSET DOMAIN histo /\ used \in SUBSET Nat /\ IsFiniteSet(used) /\ used # {}
  BY Weights
<1>2. Forest(list, used) /\ (w = 0 => \A m : \A b : Growing(m, b, Cardinality(used)) => Light(list, used, m, b))
  BY ListStarts
<1>3. t = [c \in DOMAIN histo |-> IF c \notin used THEN 0 ELSE Max({1, d[c]})]
  <2>1. t = AsBuilt(histo, total, w)
    BY BuildIs
  <2> HIDE DEF t
  <2> QED
    BY <2>1, Zenon DEF AsBuilt, used, list
<1> HIDE DEF used, list, t
<1>4. Rooted(d, used)
  BY <1>1, <1>2, JoinedForest
<1>5. ASSUME w = 0, NEW b \in Nat, b >= 1, Shallow(Cardinality(used), b) PROVE \A c \in DOMAIN d : d[c] <= b
  <2>1. PICK m : Growing(m, b, Cardinality(used))
    BY <1>5 DEF Shallow
  <2>2. Light(list, used, m, b)
    BY <1>2, <1>5, <2>1
  <2> QED
    BY <1>1, <2>1, <2>2, JoinedLight
<1> HIDE DEF d
<1>6. DOMAIN d = used /\ \A c \in used : d[c] \in Nat
  BY <1>1, <1>4, DepthsAre DEF Rooted
<1>7. \A c \in used : t[c] = IF d[c] = 0 THEN 1 ELSE d[c]
  <2> TAKE c \in used
  <2>1. t[c] = Max({1, d[c]})
    BY <1>1, <1>3
  <2>2. d[c] \in Nat
    BY <1>6
  <2>3. Max({1, d[c]}) = IF d[c] = 0 THEN 1 ELSE d[c]
    BY <2>2, Deepest
  <2> QED
    BY <2>1, <2>3, Zenon
<1>8. DOMAIN t = DOMAIN histo /\ \A c \in DOMAIN histo : c \notin used => t[c] = 0
  BY <1>3
<1>9. \A c \in used : t[c] \in Nat
  BY <1>6, <1>7
<1>10. t \in [DOMAIN histo -> Nat]
  <2>1. t = [c \in DOMAIN histo |-> t[c]]
    BY <1>3
  <2>2. \A c \in DOMAIN histo : t[c] \in Nat
    BY <1>8, <1>9
  <2> QED
    BY <2>1, <2>2
<1>11. Lengths(t, d, used)
  BY <1>1, <1>6, <1>7, <1>8, Zenon DEF Lengths
<1>12. BuiltFrom(t, histo, d)
  BY <1>4, <1>8, <1>10, <1>11, Zenon DEF BuiltFrom, used
<1>13. ASSUME w = 0, NEW b \in Nat, b >= 1, Shallow(Cardinality(used), b) PROVE \A c \in DOMAIN histo : t[c] <= b
  <2> TAKE c \in DOMAIN histo
  <2>1. CASE c \in used
    <3>1. d[c] <= b /\ d[c] \in Nat /\ t[c] = IF d[c] = 0 THEN 1 ELSE d[c]
      BY <1>5, <1>6, <1>7, <1>13, <2>1
    <3> QED
      BY <1>13, <3>1
  <2>2. CASE c \notin used
    BY <1>8, <1>13, <2>2
  <2> QED
    BY <2>1, <2>2
<1> QED
  BY <1>12, <1>13 DEF used, t

\* Every tree that build_tree makes and that is not too deep is accepted, and gives codes
\* that fit their lengths (huffman.cpp: build_tree, assign_canonical_codes).
THEOREM BuiltTreesFit ==
  ASSUME NEW histo, Counted(histo), UsedOf(histo) # {}, NEW total \in Nat \ {0}, NEW w \in Nat,
         NEW maxbits \in 1..25, \A c \in DOMAIN histo : BuildTree(histo, total, w)[c] <= maxbits
  PROVE  /\ CodeTree(BuildTree(histo, total, w), maxbits) /\ ConsistentTree(BuildTree(histo, total, w), maxbits)
         /\ Fits(BuildTree(histo, total, w)) /\ Used(BuildTree(histo, total, w)) = UsedOf(histo)
<1> DEFINE t == BuildTree(histo, total, w)
           used == UsedOf(histo)
<1>1. used \in SUBSET Nat /\ IsFiniteSet(used)
  BY Weights
<1>2. PICK d : BuiltFrom(t, histo, d)
  BY Built
<1> HIDE DEF t, used
<1>3. DOMAIN t = DOMAIN histo /\ t \in [DOMAIN histo -> Nat] /\ Rooted(d, used) /\ Lengths(t, d, used)
  BY <1>2 DEF BuiltFrom, used
<1>4. \A c \in DOMAIN histo : t[c] \in 0..maxbits
  <2>1. \A c \in DOMAIN histo : t[c] <= maxbits
    BY DEF t
  <2> QED
    BY <1>3, <2>1
<1>5. CodeTree(t, maxbits)
  <2>1. t \in [DOMAIN t -> 0..maxbits]
    BY <1>3, <1>4
  <2> QED
    BY <1>3, <2>1 DEF CodeTree, Counted
<1>6. ConsistentTree(t, maxbits) /\ Fits(t) /\ Used(t) = used
  <2>1. used # {}
    BY DEF used
  <2> QED
    BY <1>1, <1>3, <1>5, <2>1, LengthsFit
<1> QED
  BY <1>5, <1>6 DEF t, used

-----------------------------------------------------------------------------
(* The bisection *)

\* What the search returns between two bounds r, from what F returns between closer ones;
\* B has the trees and bad the weights whose tree is too deep.
Middle(r) == (r[1] + r[2]) \div 2
Searched(F, B, bad, total, r) ==
  IF Middle(r) \in bad THEN F[<<r[1], Middle(r)>>]
  ELSE IF Middle(r) = total \/ r[2] - Middle(r) <= 1 THEN B[Middle(r)]
  ELSE F[<<Middle(r), r[2]>>]
Gap(r) == IF r[1] <= r[2] THEN r[2] - r[1] ELSE r[1] - r[2]
LEMMA Closer ==
  ASSUME NEW n \in Nat, NEW r \in (0..n) \X (0..n), NEW total \in Nat
  PROVE  /\ Middle(r) \in 0..n /\ Gap(r) \in 0..n
         /\ <<r[1], Middle(r)>> = r \/ Gap(<<r[1], Middle(r)>>) < Gap(r)
         /\ ~(Middle(r) = total \/ r[2] - Middle(r) <= 1) => Gap(<<Middle(r), r[2]>>) < Gap(r)
         /\ r[1] < r[2] => r[1] <= Middle(r) /\ Middle(r) < r[2]
         /\ r[1] < r[2] /\ ~(Middle(r) = total \/ r[2] - Middle(r) <= 1) => r[1] < Middle(r)
<1> DEFINE a == r[1]
           b == r[2]
           m == Middle(r)
<1>1. a \in 0..n /\ b \in 0..n /\ r = <<a, b>> /\ m = (a + b) \div 2
  BY DEF Middle
<1> HIDE DEF a, b, m
<1>2. m \in Int /\ 2 * m <= a + b /\ a + b <= 2 * m + 1
  BY <1>1
<1>3. \A x : \A y : <<x, y>>[1] = x /\ <<x, y>>[2] = y
  OBVIOUS
<1>4. Gap(r) = (IF a <= b THEN b - a ELSE a - b) /\ Gap(<<a, m>>) = (IF a <= m THEN m - a ELSE a - m)
      /\ Gap(<<m, b>>) = IF m <= b THEN b - m ELSE m - b
  BY <1>3 DEF Gap, a, b
<1>5. m \in 0..n /\ (IF a <= b THEN b - a ELSE a - b) \in 0..n
  BY <1>1, <1>2
<1>6. m = b \/ (IF a <= m THEN m - a ELSE a - m) < (IF a <= b THEN b - a ELSE a - b)
  BY <1>1, <1>2
<1>7. ~(b - m <= 1) => (IF m <= b THEN b - m ELSE m - b) < (IF a <= b THEN b - a ELSE a - b)
  BY <1>1, <1>2
<1>8. (a < b => a <= m /\ m < b) /\ (a < b /\ ~(b - m <= 1) => a < m)
  BY <1>1, <1>2
<1>9. m = b => <<a, m>> = r
  BY <1>1
<1> QED
  BY <1>4, <1>5, <1>6, <1>7, <1>8, <1>9, Zenon DEF a, b, m

\* There is such a search, though one that starts with bounds the wrong way round may go
\* on for ever.
Search(F, n, B, bad, total) == F = [r \in (0..n) \X (0..n) |-> Searched(F, B, bad, total, r)]
LEMMA SearchExists ==
  ASSUME NEW n \in Nat, NEW X, NEW B \in [0..n -> X], NEW bad, NEW total \in Nat
  PROVE  \E F : Search(F, n, B, bad, total)
<1> DEFINE R == (0..n) \X (0..n)
           V == [R -> X]
           N == n + 2
           S(F) == [r \in R |-> Searched(F, B, bad, total, r)]
           g == [q \in Nat \X V |-> S(q[2])]
           b == [r \in R |-> B[r[1]]]
<1>1. ASSUME NEW F \in V PROVE S(F) \in V
  <2>1. ASSUME NEW r \in R PROVE Searched(F, B, bad, total, r) \in X
    <3>1. Middle(r) \in 0..n
      BY <2>1, Closer
    <3>2. <<r[1], Middle(r)>> \in R /\ <<Middle(r), r[2]>> \in R
      BY <3>1
    <3> HIDE DEF R
    <3>3. F[<<r[1], Middle(r)>>] \in X /\ F[<<Middle(r), r[2]>>] \in X /\ B[Middle(r)] \in X
      BY <3>1, <3>2
    <3> QED
      BY <3>3, Zenon DEF Searched
  <2> HIDE DEF R
  <2> QED
    BY <2>1
<1>2. b \in V
  <2>1. \A r \in R : B[r[1]] \in X
    OBVIOUS
  <2> HIDE DEF R
  <2> QED
    BY <2>1
<1> HIDE DEF V, S
<1>3. g \in [Nat \X V -> V]
  BY <1>1
<1>4. N \in Nat
  OBVIOUS
<1>5. PICK e : Ran(V, g, b, N, e)
  <2> HIDE DEF g, b, N
  <2> QED
    BY <1>2, <1>3, <1>4, Recursion
<1>6. e \in [0..N -> V] /\ \A k \in 1..N : e[k] = S(e[k - 1])
  <2>1. e \in [0..N -> V] /\ \A k \in 1..N : e[k] = g[<<k, e[k - 1]>>]
    BY <1>5, Zenon DEF Ran
  <2>2. ASSUME NEW k \in 1..N PROVE e[k] = S(e[k - 1])
    <3>1. k \in Nat /\ e[k - 1] \in V
      BY <2>1
    <3>2. <<k, e[k - 1]>> \in Nat \X V /\ <<k, e[k - 1]>>[2] = e[k - 1]
      BY <3>1
    <3>3. g[<<k, e[k - 1]>>] = S(e[k - 1])
      BY <3>2
    <3> QED
      BY <2>1, <3>3, Zenon
  <2> QED
    BY <2>1, <2>2
<1> HIDE DEF g, b
<1> DEFINE Next_(k) == \A r \in R : Gap(r) < k => e[k + 1][r] = e[k][r]
           T == {k \in Nat : k <= n + 1 => Next_(k)}
<1>7. \A r \in R : Gap(r) \in 0..n
  BY Closer
<1>8. 0 \in T
  BY <1>7
<1>9. ASSUME NEW k \in T PROVE k + 1 \in T
  <2>1. k \in Nat
    OBVIOUS
  <2>2. ASSUME k + 1 <= n + 1, NEW r \in R, Gap(r) < k + 1 PROVE e[(k + 1) + 1][r] = e[k + 1][r]
    <3>1. k + 1 \in 1..N /\ (k + 1) + 1 \in 1..N /\ (k + 1) - 1 = k /\ ((k + 1) + 1) - 1 = k + 1 /\ k <= n + 1
      BY <2>1, <2>2
    <3>2. e[k + 1] = S(e[k]) /\ e[(k + 1) + 1] = S(e[k + 1])
      BY <1>6, <3>1, Zenon
    <3>3. e[k + 1][r] = Searched(e[k], B, bad, total, r) /\ e[(k + 1) + 1][r] = Searched(e[k + 1], B, bad, total, r)
      BY <3>2 DEF S
    <3> DEFINE p == <<r[1], Middle(r)>>
               q == <<Middle(r), r[2]>>
               Stop == Middle(r) = total \/ r[2] - Middle(r) <= 1
    <3>4. Middle(r) \in 0..n /\ Gap(r) \in 0..n /\ (p = r \/ Gap(p) < Gap(r)) /\ (~Stop => Gap(q) < Gap(r))
      BY Closer
    <3>5. p \in R /\ q \in R
      BY <3>4
    <3>6. Gap(p) \in Int /\ Gap(q) \in Int
      BY <1>7, <3>5
    <3>7. ASSUME NEW z \in R, Gap(z) < Gap(r) PROVE e[k + 1][z] = e[k][z]
      <4>1. Gap(z) \in Int /\ Gap(r) \in Int
        BY <1>7
      <4>2. Gap(z) < k
        BY <2>1, <2>2, <3>7, <4>1
      <4> QED
        BY <3>1, <4>2
    <3>8. Searched(e[k], B, bad, total, r) = IF Middle(r) \in bad THEN e[k][p] ELSE IF Stop THEN B[Middle(r)] ELSE e[k][q]
      BY Zenon DEF Searched
    <3>9. Searched(e[k + 1], B, bad, total, r)
          = IF Middle(r) \in bad THEN e[k + 1][p] ELSE IF Stop THEN B[Middle(r)] ELSE e[k + 1][q]
      BY Zenon DEF Searched
    <3> HIDE DEF p, q, Stop, R, T
    <3>10. CASE Middle(r) \in bad
      <4>1. e[k + 1][r] = e[k][p] /\ e[(k + 1) + 1][r] = e[k + 1][p]
        BY <3>3, <3>8, <3>9, <3>10, Zenon
      <4>2. CASE p = r
        BY <4>1, <4>2, Zenon
      <4>3. CASE p # r
        <5>1. e[k + 1][p] = e[k][p]
          BY <3>4, <3>5, <3>7, <4>3, Zenon
        <5> QED
          BY <4>1, <5>1, Zenon
      <4> QED
        BY <4>2, <4>3
    <3>11. CASE ~(Middle(r) \in bad) /\ Stop
      BY <3>3, <3>8, <3>9, <3>11, Zenon
    <3>12. CASE ~(Middle(r) \in bad) /\ ~Stop
      <4>1. e[k + 1][q] = e[k][q]
        BY <3>4, <3>5, <3>7, <3>12, Zenon
      <4> QED
        BY <3>3, <3>8, <3>9, <3>12, <4>1, Zenon
    <3> QED
      BY <3>10, <3>11, <3>12, Zenon
  <2> QED
    BY <2>1, <2>2
<1> HIDE DEF T
<1>10. T = Nat
  <2>1. T \in SUBSET Nat
    BY DEF T
  <2> QED
    BY <1>8, <1>9, <2>1, Counting
<1>11. Next_(n + 1)
  <2>1. n + 1 \in T /\ n + 1 <= n + 1
    BY <1>10
  <2> HIDE DEF Next_
  <2> QED
    BY <2>1 DEF T
<1> DEFINE E == e[n + 1]
<1>12. \A r \in R : e[(n + 1) + 1][r] = E[r]
  <2> TAKE r \in R
  <2>1. Gap(r) < n + 1
    BY <1>7
  <2> QED
    BY <1>11, <2>1, Zenon
<1>13. E \in V /\ e[(n + 1) + 1] = S(E)
  <2>1. n + 1 \in 0..N /\ (n + 1) + 1 \in 1..N /\ ((n + 1) + 1) - 1 = n + 1
    OBVIOUS
  <2> HIDE DEF N
  <2> QED
    BY <1>6, <2>1, Zenon
<1> HIDE DEF E, R, N
<1>14. E = [r \in R |-> E[r]]
  BY <1>13 DEF V
<1>15. \A r \in R : S(E)[r] = E[r]
  BY <1>12, <1>13, Zenon
<1>16. \A r \in R : Searched(E, B, bad, total, r) = E[r]
  BY <1>15 DEF S
<1>17. E = [r \in R |-> Searched(E, B, bad, total, r)]
  BY <1>14, <1>16
<1>18. Search(E, n, B, bad, total)
  BY <1>17, Zenon DEF Search, R
<1> QED
  BY <1>18

\* From a weight that is good on, it comes to one.
LEMMA SearchFinds ==
  ASSUME NEW n \in Nat, NEW B, NEW bad, NEW total \in Nat, NEW F, Search(F, n, B, bad, total),
         0 \notin bad, n >= 1
  PROVE  \E w \in 0..n : w \notin bad /\ F[<<0, n>>] = B[w]
<1> DEFINE R == (0..n) \X (0..n)
           Finds(r) == \E w \in 0..n : w \notin bad /\ F[r] = B[w]
           T == {k \in Nat : \A r \in R : r[1] < r[2] /\ r[1] \notin bad /\ Gap(r) <= k => Finds(r)}
<1>1. \A r \in R : F[r] = Searched(F, B, bad, total, r)
  <2>1. F = [r \in R |-> Searched(F, B, bad, total, r)]
    BY Zenon DEF Search
  <2> HIDE DEF R
  <2> QED
    BY <2>1, Zenon
<1>2. 0 \in T
  <2>1. ASSUME NEW r \in R, r[1] < r[2] PROVE ~(Gap(r) <= 0)
    BY <2>1 DEF Gap
  <2> QED
    BY <2>1
<1>3. ASSUME NEW k \in T PROVE k + 1 \in T
  <2>1. k \in Nat
    OBVIOUS
  <2>2. ASSUME NEW r \in R, r[1] < r[2], r[1] \notin bad, Gap(r) <= k + 1 PROVE Finds(r)
    <3> DEFINE m == Middle(r)
               p == <<r[1], m>>
               q == <<m, r[2]>>
               Stop == m = total \/ r[2] - m <= 1
    <3>1. /\ m \in 0..n /\ Gap(r) \in 0..n /\ (p = r \/ Gap(p) < Gap(r)) /\ (~Stop => Gap(q) < Gap(r))
          /\ r[1] <= m /\ m < r[2] /\ (~Stop => r[1] < m)
      BY <2>2, Closer
    <3>2. p \in R /\ q \in R /\ p[1] = r[1] /\ p[2] = m /\ q[1] = m /\ q[2] = r[2] /\ r[1] \in Nat /\ r[2] \in Nat
      BY <3>1
    <3>3. F[r] = IF m \in bad THEN F[p] ELSE IF Stop THEN B[m] ELSE F[q]
      BY <1>1, Zenon DEF Searched
    <3>4. Gap(p) \in Int /\ Gap(q) \in Int
      <4>1. \A x \in R : Gap(x) \in 0..n
        BY Closer
      <4> HIDE DEF R, p, q
      <4>2. Gap(p) \in 0..n /\ Gap(q) \in 0..n
        BY <3>2, <4>1, Zenon
      <4> QED
        BY <4>2
    <3>5. \A z \in R : z[1] < z[2] /\ z[1] \notin bad /\ Gap(z) <= k => Finds(z)
      OBVIOUS
    <3> HIDE DEF T, R, m, p, q, Stop, Finds
    <3>6. CASE m \in bad
      <4>1. r[1] # m
        BY <2>2, <3>6
      <4>2. p[1] < p[2] /\ p[1] \notin bad
        BY <2>2, <3>1, <3>2, <4>1
      <4>3. p # r
        BY <3>1, <3>2
      <4>4. Gap(p) <= k
        BY <2>1, <2>2, <3>1, <3>4, <4>3
      <4>5. Finds(p)
        BY <3>2, <3>5, <4>2, <4>4
      <4>6. F[r] = F[p]
        BY <3>3, <3>6
      <4> QED
        BY <4>5, <4>6 DEF Finds
    <3>7. CASE m \notin bad /\ Stop
      <4>1. F[r] = B[m]
        BY <3>3, <3>7
      <4> QED
        BY <3>1, <3>7, <4>1 DEF Finds
    <3>8. CASE m \notin bad /\ ~Stop
      <4>1. q[1] < q[2] /\ q[1] \notin bad
        BY <3>1, <3>2, <3>8
      <4>2. Gap(q) <= k
        BY <2>1, <2>2, <3>1, <3>4, <3>8
      <4>3. Finds(q)
        BY <3>2, <3>5, <4>1, <4>2
      <4>4. F[r] = F[q]
        BY <3>3, <3>8
      <4> QED
        BY <4>3, <4>4 DEF Finds
    <3> QED
      BY <3>6, <3>7, <3>8
  <2> HIDE DEF R, Finds
  <2> QED
    BY <2>1, <2>2
<1> HIDE DEF T
<1>4. T = Nat
  <2>1. T \in SUBSET Nat
    BY DEF T
  <2> QED
    BY <1>2, <1>3, <2>1, Counting
<1> DEFINE z == <<0, n>>
<1>5. z \in R /\ z[1] < z[2] /\ z[1] \notin bad /\ Gap(z) = n
  BY DEF Gap
<1> HIDE DEF z, R, Finds
<1>6. n \in T /\ n <= n
  BY <1>4
<1>7. Finds(z)
  BY <1>5, <1>6 DEF T
<1> QED
  BY <1>7 DEF Finds, z

-----------------------------------------------------------------------------
(* Trees of what is encoded *)

LEMMA Totals ==
  ASSUME NEW n \in Nat, NEW histo \in [0..(n - 1) -> Nat]
  PROVE  DataCount(histo) \in Nat /\ \A c \in 0..(n - 1) : histo[c] <= DataCount(histo)
<1> DEFINE seq == [k \in 1..n |-> k]
           Rec(f) == f = [k \in 0..n |-> IF k = 0 THEN 0 ELSE f[k - 1] + histo[seq[k] - 1]]
           g == [q \in Nat \X Nat |-> q[2] + (IF q[1] \in 1..n THEN histo[q[1] - 1] ELSE 0)]
<1>1. NumCodes(histo) = n
  <2>1. 0 \in Int /\ n - 1 \in Int /\ (IF 0 > n - 1 THEN 0 ELSE (n - 1) - 0 + 1) = n
    OBVIOUS
  <2>2. Cardinality(0..(n - 1)) = IF 0 > n - 1 THEN 0 ELSE (n - 1) - 0 + 1
    BY <2>1, FS_Interval
  <2>3. Cardinality(0..(n - 1)) = n
    BY <2>2
  <2>4. DOMAIN histo = 0..(n - 1)
    OBVIOUS
  <2> QED
    BY <2>3, <2>4, Zenon DEF NumCodes
<1>2. Len(seq) = n /\ \A k \in 1..n : seq[k] = k
  OBVIOUS
<1> HIDE DEF seq
<1>3. DataCount(histo) = (CHOOSE f : Rec(f))[n]
  <2>1. DataCount(histo) = Fold(LAMBDA t, i : t + histo[i - 1], 0, seq)
    BY <1>1, Zenon DEF DataCount, seq
  <2>2. Fold(LAMBDA t, i : t + histo[i - 1], 0, seq)
        = (CHOOSE f : f = [k \in 0..Len(seq) |-> IF k = 0 THEN 0 ELSE f[k - 1] + histo[seq[k] - 1]])[Len(seq)]
    BY Zenon DEF Fold
  <2> QED
    BY <1>2, <2>1, <2>2, Zenon
<1>4. \A k \in 1..n : k - 1 \in 0..(n - 1)
  OBVIOUS
<1>5. g \in [Nat \X Nat -> Nat]
  <2>1. ASSUME NEW q \in Nat \X Nat PROVE q[2] + (IF q[1] \in 1..n THEN histo[q[1] - 1] ELSE 0) \in Nat
    <3>1. q[2] \in Nat /\ (q[1] \in 1..n => histo[q[1] - 1] \in Nat)
      BY <1>4
    <3> QED
      BY <3>1
  <2> QED
    BY <2>1
<1> HIDE DEF g
<1>6. PICK e : Ran(Nat, g, 0, n, e)
  BY <1>5, Recursion
<1>7. e \in [0..n -> Nat] /\ e[0] = 0 /\ \A k \in 1..n : e[k] = e[k - 1] + histo[k - 1]
  <2>1. e \in [0..n -> Nat] /\ e[0] = 0 /\ \A k \in 1..n : e[k] = g[<<k, e[k - 1]>>]
    BY <1>6, Zenon DEF Ran
  <2>2. ASSUME NEW k \in 1..n PROVE e[k] = e[k - 1] + histo[k - 1]
    <3>1. k \in Nat /\ e[k - 1] \in Nat
      BY <2>1
    <3>2. <<k, e[k - 1]>> \in Nat \X Nat /\ <<k, e[k - 1]>>[2] = e[k - 1] /\ <<k, e[k - 1]>>[1] = k
      BY <3>1
    <3>3. g[<<k, e[k - 1]>>] = e[k - 1] + histo[k - 1]
      BY <3>2 DEF g
    <3> QED
      BY <2>1, <3>3, Zenon
  <2> QED
    BY <2>1, <2>2
<1>8. Rec(e)
  BY <1>2, <1>7
<1> DEFINE f == CHOOSE h : Rec(h)
<1>9. Rec(f)
  BY <1>8, Zenon
<1>10. DataCount(histo) = f[n]
  BY <1>3, Zenon
<1> HIDE DEF f
<1>11. f[0] = 0 /\ \A k \in 1..n : f[k] = f[k - 1] + histo[k - 1]
  <2>1. 0 \in 0..n /\ \A k \in 1..n : k \in 0..n /\ k # 0
    OBVIOUS
  <2>2. \A k \in 1..n : f[k] = f[k - 1] + histo[seq[k] - 1]
    BY <1>9, <2>1, Zenon
  <2> QED
    BY <1>2, <1>9, <2>1, <2>2, Zenon
<1>12. \A k \in 0..n : e[k] = f[k]
  <2>1. Alike(n, e, f)
    BY <1>7, <1>11, Zenon DEF Alike
  <2> QED
    BY <2>1, Agree
<1>13. DataCount(histo) = e[n]
  <2>1. n \in 0..n
    OBVIOUS
  <2> QED
    BY <1>10, <1>12, <2>1, Zenon
<1> DEFINE T == {k \in Nat : k <= n => \A c \in 0..(k - 1) : histo[c] <= e[k]}
<1>14. 0 \in T
  OBVIOUS
<1>15. ASSUME NEW k \in T PROVE k + 1 \in T
  <2>1. k \in Nat
    OBVIOUS
  <2>2. ASSUME k + 1 <= n, NEW c \in 0..((k + 1) - 1) PROVE histo[c] <= e[k + 1]
    <3>1. k + 1 \in 1..n /\ (k + 1) - 1 = k /\ k \in 0..(n - 1) /\ k \in 0..n /\ c \in 0..(n - 1) /\ k <= n
      BY <2>1, <2>2
    <3>2. e[k + 1] = e[k] + histo[k] /\ e[k] \in Nat /\ histo[k] \in Nat /\ histo[c] \in Nat
      BY <1>7, <3>1
    <3>3. CASE c = k
      BY <3>2, <3>3
    <3>4. CASE c # k
      <4>1. c \in 0..(k - 1)
        BY <2>1, <2>2, <3>4
      <4>2. histo[c] <= e[k]
        BY <3>1, <4>1
      <4> QED
        BY <3>2, <4>2
    <3> QED
      BY <3>3, <3>4
  <2> QED
    BY <2>1, <2>2
<1> HIDE DEF T
<1>16. T = Nat
  <2>1. T \in SUBSET Nat
    BY DEF T
  <2> QED
    BY <1>14, <1>15, <2>1, Counting
<1>17. \A c \in 0..(n - 1) : histo[c] <= e[n]
  <2>1. n \in T /\ n <= n
    BY <1>16
  <2> QED
    BY <2>1 DEF T
<1>18. e[n] \in Nat
  BY <1>7
<1> QED
  BY <1>13, <1>17, <1>18

LEMMA Bisected ==
  ASSUME NEW histo, Counted(histo), UsedOf(histo) # {}, NEW total \in Nat \ {0}, NEW maxbits \in 1..25,
         Shallow(Cardinality(UsedOf(histo)), maxbits)
  PROVE  \E w \in Nat : /\ Bisect(histo, total, maxbits) = BuildTree(histo, total, w)
                        /\ \A c \in DOMAIN histo : BuildTree(histo, total, w)[c] <= maxbits
<1> DEFINE n == 2 * total
           W == 0..n
           D == DOMAIN histo
           B == [w \in W |-> BuildTree(histo, total, w)]
           bad == {w \in W : \E c \in D : B[w][c] > maxbits}
           F == CHOOSE f : Search(f, n, B, bad, total)
<1>1. n \in Nat /\ n >= 1 /\ total \in Nat
  OBVIOUS
<1>2. \A w \in W : B[w] = BuildTree(histo, total, w) /\ DOMAIN BuildTree(histo, total, w) = D
                   /\ \A c \in D : BuildTree(histo, total, w)[c] \in Nat
  <2> TAKE w \in W
  <2>1. w \in Nat
    BY <1>1
  <2>2. PICK d : BuiltFrom(BuildTree(histo, total, w), histo, d)
    BY <2>1, Built
  <2> DEFINE t == BuildTree(histo, total, w)
  <2> HIDE DEF t
  <2>3. DOMAIN t = D /\ t \in [D -> Nat]
    BY <2>2 DEF BuiltFrom, t
  <2>4. \A c \in D : t[c] \in Nat
    BY <2>3
  <2>5. B[w] = t
    BY DEF t
  <2> QED
    BY <2>3, <2>4, <2>5 DEF t
<1>3. 0 \notin bad
  <2>1. 0 \in W /\ maxbits \in Nat /\ maxbits >= 1 /\ 0 \in Nat
    BY <1>1
  <2>2. \A c \in D : BuildTree(histo, total, 0)[c] <= maxbits
    BY <2>1, Built
  <2> HIDE DEF B, W
  <2>3. \A c \in D : B[0][c] <= maxbits /\ B[0][c] \in Nat
    BY <1>2, <2>1, <2>2
  <2> QED
    BY <2>1, <2>3
<1>4. B \in [W -> {B[w] : w \in W}]
  OBVIOUS
<1> HIDE DEF B, bad
<1>5. \E f : Search(f, n, B, bad, total)
  <2> DEFINE X == {B[w] : w \in W}
  <2> HIDE DEF X, n
  <2> QED
    BY <1>1, <1>4, SearchExists DEF X
<1>6. Search(F, n, B, bad, total)
  BY <1>5, Zenon
<1>7. PICK w \in W : w \notin bad /\ F[<<0, n>>] = B[w]
  <2> HIDE DEF n, F
  <2> QED
    BY <1>1, <1>3, <1>6, SearchFinds
<1>8. Bisect(histo, total, maxbits) = F[<<0, n>>]
  <2> DEFINE G(f) == [r \in W \X W |->
               IF \E c \in DOMAIN BuildTree(histo, total, (r[1] + r[2]) \div 2) :
                     BuildTree(histo, total, (r[1] + r[2]) \div 2)[c] > maxbits
               THEN f[<<r[1], (r[1] + r[2]) \div 2>>]
               ELSE IF (r[1] + r[2]) \div 2 = total \/ r[2] - (r[1] + r[2]) \div 2 <= 1
               THEN BuildTree(histo, total, (r[1] + r[2]) \div 2)
               ELSE f[<<(r[1] + r[2]) \div 2, r[2]>>]]
  <2>1. Bisect(histo, total, maxbits) = (CHOOSE f : f = G(f))[<<0, n>>]
    BY Zenon DEF Bisect
  <2>2. \A f : G(f) = [r \in W \X W |-> Searched(f, B, bad, total, r)]
    <3> TAKE f
    <3>1. ASSUME NEW r \in W \X W
          PROVE  /\ Middle(r) = (r[1] + r[2]) \div 2 /\ B[Middle(r)] = BuildTree(histo, total, Middle(r))
                 /\ Middle(r) \in bad <=> \E c \in DOMAIN BuildTree(histo, total, Middle(r)) :
                                            BuildTree(histo, total, Middle(r))[c] > maxbits
      <4>1. Middle(r) \in W
        BY <1>1, Closer
      <4>2. B[Middle(r)] = BuildTree(histo, total, Middle(r)) /\ DOMAIN BuildTree(histo, total, Middle(r)) = D
        BY <1>2, <4>1
      <4>3. Middle(r) = (r[1] + r[2]) \div 2
        BY Zenon DEF Middle
      <4> HIDE DEF W
      <4>4. Middle(r) \in bad <=> \E c \in D : B[Middle(r)][c] > maxbits
        BY <4>1 DEF bad
      <4> QED
        BY <4>2, <4>3, <4>4, Zenon
    <3> HIDE DEF W
    <3>2. \A r \in W \X W : Searched(f, B, bad, total, r)
             = IF \E c \in DOMAIN BuildTree(histo, total, (r[1] + r[2]) \div 2) :
                     BuildTree(histo, total, (r[1] + r[2]) \div 2)[c] > maxbits
               THEN f[<<r[1], (r[1] + r[2]) \div 2>>]
               ELSE IF (r[1] + r[2]) \div 2 = total \/ r[2] - (r[1] + r[2]) \div 2 <= 1
               THEN BuildTree(histo, total, (r[1] + r[2]) \div 2)
               ELSE f[<<(r[1] + r[2]) \div 2, r[2]>>]
      BY <3>1, Zenon DEF Searched
    <3> QED
      BY <3>2, Zenon
  <2> HIDE DEF G
  <2>3. \A f : f = G(f) <=> Search(f, n, B, bad, total)
    BY <2>2, Zenon DEF Search
  <2>4. (CHOOSE f : f = G(f)) = F
    BY <2>3
  <2> QED
    BY <2>1, <2>4, Zenon
<1>9. B[w] = BuildTree(histo, total, w) /\ \A c \in D : BuildTree(histo, total, w)[c] <= maxbits
  <2>1. B[w] = BuildTree(histo, total, w) /\ \A c \in D : BuildTree(histo, total, w)[c] \in Nat
    BY <1>2
  <2>2. \A c \in D : ~(B[w][c] > maxbits)
    BY <1>7 DEF bad
  <2> QED
    BY <2>1, <2>2
<1>10. w \in Nat
  BY <1>1
<1> QED
  BY <1>7, <1>8, <1>9, <1>10, Zenon

LEMMA HistoIs ==
  ASSUME NEW n \in Nat, NEW source \in Seq(0..(n - 1))
  PROVE  /\ HistoOf(source, 0..(n - 1)) \in [0..(n - 1) -> Nat] /\ Counted(HistoOf(source, 0..(n - 1)))
         /\ \A k \in 1..Len(source) : source[k] \in UsedOf(HistoOf(source, 0..(n - 1)))
         /\ Cardinality(UsedOf(HistoOf(source, 0..(n - 1)))) \in Nat
         /\ Cardinality(UsedOf(HistoOf(source, 0..(n - 1)))) <= n
<1> DEFINE C == 0..(n - 1)
           m == Len(source)
           P(c) == {k \in 1..m : source[k] = c}
           h == HistoOf(source, C)
           f == [c \in C |-> Cardinality(P(c))]
<1>1. m \in Nat /\ DOMAIN source = 1..m /\ \A k \in 1..m : source[k] \in C
  OBVIOUS
<1>2. h = f
  <2>1. h = Table([c \in C |-> Cardinality({k \in DOMAIN source : source[k] = c})])
    BY Zenon DEF HistoOf
  <2>2. h = Table(f)
    BY <1>1, <2>1, Zenon
  <2> HIDE DEF h, f
  <2> QED
    BY <2>2, TableIs, Zenon
<1> HIDE DEF h, C, m
<1>3. IsFiniteSet(1..m)
  <2>1. 1 \in Int /\ m \in Int
    BY <1>1
  <2> QED
    BY <2>1, FS_Interval
<1>4. ASSUME NEW c PROVE IsFiniteSet(P(c)) /\ Cardinality(P(c)) \in Nat
  <2>1. P(c) \in SUBSET (1..m)
    OBVIOUS
  <2> HIDE DEF P
  <2> QED
    BY <1>3, <2>1, FS_Subset, FS_CardinalityType
<1>5. h \in [C -> Nat]
  BY <1>2, <1>4
<1>6. IsFiniteSet(C) /\ Cardinality(C) = n /\ C \in SUBSET Nat
  <2>1. 0 \in Int /\ n - 1 \in Int /\ (IF 0 > n - 1 THEN 0 ELSE (n - 1) - 0 + 1) = n
    OBVIOUS
  <2>2. IsFiniteSet(0..(n - 1)) /\ Cardinality(0..(n - 1)) = IF 0 > n - 1 THEN 0 ELSE (n - 1) - 0 + 1
    BY <2>1, FS_Interval
  <2> QED
    BY <2>2 DEF C
<1>7. ASSUME NEW k \in 1..m PROVE source[k] \in UsedOf(h)
  <2> DEFINE c == source[k]
  <2>1. k \in P(c) /\ c \in C
    BY <1>1
  <2>2. Cardinality(P(c)) # 0
    <3>1. IsFiniteSet(P(c)) /\ P(c) # {}
      BY <1>4, <2>1
    <3> HIDE DEF P, c
    <3> QED
      BY <3>1, FS_EmptySet
  <2>3. h[c] = Cardinality(P(c))
    BY <1>2, <2>1
  <2>4. DOMAIN h = C
    BY <1>5
  <2> HIDE DEF P, c
  <2>5. c \in UsedOf(h)
    BY <2>1, <2>2, <2>3, <2>4 DEF UsedOf
  <2> QED
    BY <2>5 DEF c
<1>8. Counted(h)
  BY <1>5, <1>6 DEF Counted
<1>9. UsedOf(h) \in SUBSET C
  BY <1>5 DEF UsedOf
<1>10. Cardinality(UsedOf(h)) \in Nat /\ Cardinality(UsedOf(h)) <= n
  <2> DEFINE U == UsedOf(h)
  <2>1. U \in SUBSET C
    BY <1>9
  <2> HIDE DEF U
  <2>2. IsFiniteSet(U) /\ Cardinality(U) <= Cardinality(C)
    BY <1>6, <2>1, FS_Subset
  <2> QED
    BY <1>6, <2>2, FS_CardinalityType DEF U
<1> QED
  BY <1>5, <1>7, <1>8, <1>10 DEF h, C, m

LEMMA FewerShallow ==
  ASSUME NEW n \in Nat, NEW b, Shallow(n, b), NEW k \in Nat, k <= n
  PROVE  Shallow(k, b)
<1>1. PICK m : Growing(m, b, n)
  BY DEF Shallow
<1>2. b \in Nat /\ m \in [0..(b + 1) -> Nat] /\ n < m[b + 1]
  BY <1>1 DEF Growing
<1>3. b + 1 \in 0..(b + 1) /\ m[b + 1] \in Nat
  BY <1>2
<1>4. k < m[b + 1]
  BY <1>2, <1>3
<1>5. Growing(m, b, k)
  BY <1>1, <1>4 DEF Growing
<1> QED
  BY <1>5 DEF Shallow

\* The coder of the v5 map, that of run lengths, and those of bytes and of sound.
LEMMA CodersShallow == Shallow(16, 8) /\ Shallow(24, 6) /\ Shallow(272, 16)
<1> DEFINE at(d) == IF d = 0 THEN 1 ELSE IF d = 1 THEN 2 ELSE IF d = 2 THEN 3 ELSE IF d = 3 THEN 5 ELSE
                    IF d = 4 THEN 8 ELSE IF d = 5 THEN 12 ELSE IF d = 6 THEN 18 ELSE IF d = 7 THEN 27 ELSE
                    IF d = 8 THEN 41 ELSE IF d = 9 THEN 62 ELSE IF d = 10 THEN 93 ELSE IF d = 11 THEN 140 ELSE
                    IF d = 12 THEN 210 ELSE 300
           m(b) == [d \in 0..(b + 1) |-> at(d)]
<1>1. ASSUME NEW b \in Nat, b >= 6 PROVE m(b) \in [0..(b + 1) -> Nat] /\ m(b)[0] = 1
  BY <1>1
<1>2. ASSUME NEW b \in Nat, NEW d \in 0..b PROVE 2 * m(b)[d + 1] <= 3 * m(b)[d] + 1
  <2>1. d \in 0..(b + 1) /\ d + 1 \in 0..(b + 1)
    OBVIOUS
  <2>2. m(b)[d] = at(d) /\ m(b)[d + 1] = at(d + 1)
    BY <2>1, Zenon
  <2>3. 2 * at(d + 1) <= 3 * at(d) + 1
    OBVIOUS
  <2> QED
    BY <2>2, <2>3
<1>3. ASSUME NEW b \in Nat, b >= 6 PROVE m(b)[b + 1] = at(b + 1)
  OBVIOUS
<1>4. at(8 + 1) = 62 /\ at(6 + 1) = 27 /\ at(16 + 1) = 300
  OBVIOUS
<1> HIDE DEF m, at
<1>5. ASSUME NEW b \in Nat, b >= 6, NEW n \in Nat, n < at(b + 1) PROVE Shallow(n, b)
  <2>1. m(b)[0] = 1 /\ m(b)[b + 1] = at(b + 1)
    BY <1>1, <1>3, <1>5, Zenon
  <2>3. m(b)[0] <= 1
    BY <2>1
  <2>4. n < m(b)[b + 1]
    BY <1>5, <2>1, Zenon
  <2>2. Growing(m(b), b, n)
    BY <1>1, <1>2, <1>5, <2>3, <2>4, Zenon DEF Growing
  <2> QED
    BY <2>2 DEF Shallow
<1> QED
  BY <1>4, <1>5

\* Whatever is encoded, the tree that is computed for it is accepted, has a code for all of
\* it, and the codes fit their lengths (huffman.cpp: compute_tree_from_histo, build_tree).
THEOREM ComputedTreesFit ==
  ASSUME NEW n \in Nat, NEW maxbits \in 1..25, Shallow(n, maxbits),
         NEW source \in Seq(0..(n - 1)), source # <<>>,
         NEW tree, tree = ComputeTree(HistoOf(source, 0..(n - 1)), maxbits)
  PROVE  CodeTree(tree, maxbits) /\ ConsistentTree(tree, maxbits) /\ Fits(tree) /\ source \in Seq(Used(tree))
<1> DEFINE h == HistoOf(source, 0..(n - 1))
           total == DataCount(h)
<1>1. /\ h \in [0..(n - 1) -> Nat] /\ Counted(h) /\ \A k \in 1..Len(source) : source[k] \in UsedOf(h)
      /\ Cardinality(UsedOf(h)) \in Nat /\ Cardinality(UsedOf(h)) <= n
  BY HistoIs
<1> HIDE DEF h
<1>2. Len(source) \in Nat /\ 1 \in 1..Len(source)
  OBVIOUS
<1>3. UsedOf(h) # {}
  BY <1>1, <1>2
<1>4. total \in Nat \ {0}
  <2>1. total \in Nat /\ \A c \in 0..(n - 1) : h[c] <= total
    BY <1>1, Totals
  <2>2. PICK c \in UsedOf(h) : TRUE
    BY <1>3
  <2>3. c \in 0..(n - 1) /\ h[c] # 0
    BY <1>1, <2>2 DEF UsedOf
  <2>4. h[c] \in Nat /\ h[c] <= total
    BY <1>1, <2>1, <2>3
  <2> QED
    BY <2>1, <2>3, <2>4
<1>5. Shallow(Cardinality(UsedOf(h)), maxbits)
  BY <1>1, FewerShallow
<1>6. tree = Bisect(h, total, maxbits)
  BY Zenon DEF ComputeTree, h
<1> HIDE DEF total
<1>7. PICK w \in Nat : /\ Bisect(h, total, maxbits) = BuildTree(h, total, w)
                       /\ \A c \in DOMAIN h : BuildTree(h, total, w)[c] <= maxbits
  BY <1>1, <1>3, <1>4, <1>5, Bisected
<1> DEFINE t == BuildTree(h, total, w)
<1>8. CodeTree(t, maxbits) /\ ConsistentTree(t, maxbits) /\ Fits(t) /\ Used(t) = UsedOf(h)
  BY <1>1, <1>3, <1>4, <1>7, BuiltTreesFit
<1>9. tree = t
  BY <1>6, <1>7
<1> HIDE DEF t
<1>10. \A k \in 1..Len(source) : source[k] \in Used(tree)
  BY <1>1, <1>8, <1>9, Zenon
<1>11. source \in Seq(Used(tree))
  <2> DEFINE U == Used(tree)
  <2>1. \A k \in 1..Len(source) : source[k] \in U
    BY <1>10
  <2> HIDE DEF U
  <2>2. source \in Seq(U)
    BY <1>2, <2>1
  <2> QED
    BY <2>2 DEF U
<1> QED
  BY <1>8, <1>9, <1>11, Zenon

\* What is encoded with the tree that is computed for it is decoded again (huffman.cpp:
\* compute_tree_from_histo, encode_one, decode_one), unless the buffer was too small.
THEOREM AnythingComesBack ==
  ASSUME NEW n \in Nat, NEW maxbits \in 1..25, Shallow(n, maxbits),
         NEW source \in Seq(0..(n - 1)), source # <<>>,
         NEW tree, tree = ComputeTree(HistoOf(source, 0..(n - 1)), maxbits),
         NEW dlength \in Nat,
         NEW out, out = FlushOut(EncodeAll(BitstreamOut(dlength), Coder(tree), source)), ~OutOverflow(out)
  PROVE  DecodeAll(BitstreamIn(Output(out)), Coder(tree), maxbits, Len(source))[1] = source
<1>1. CodeTree(tree, maxbits) /\ ConsistentTree(tree, maxbits) /\ Fits(tree) /\ source \in Seq(Used(tree))
  BY ComputedTreesFit
<1> QED
  BY <1>1, CodesComeBack
=============================================================================
