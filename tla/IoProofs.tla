------------------------------ MODULE IoProofs ------------------------------
(***************************************************************************)
(* Proofs about the file adapters of ioprocs.cpp, ioprocsvec.h,            *)
(* ioprocsfill.h, corefile.cpp, minimal_osd.cpp and chd_shim.cpp, for any  *)
(* file, any offsets and lengths, any sequence of calls and any pattern of *)
(* short, interrupted and failing transfers.                               *)
(***************************************************************************)
EXTENDS Io, TLAPS

Bytes == Seq(Nat)
Hosts == [data : Bytes, pos : Nat, last : {"none", "in", "out"}, bad : BOOLEAN,
          undefined : BOOLEAN]
\* Input and output of the stream were kept apart.
Defined(g) == g.undefined = FALSE
Adapters == [ptr : Nat, dangling_read : BOOLEAN, dangling_write : BOOLEAN, size : Nat,
             elements : Nat, base : Nat, buffer : Bytes, filler : Nat]

Errors == Faults \union {"ok", "badf", "invalid", "nospace", "nomem", "io", "unsupported"}

\* What m_dangling_read and m_dangling_write promise: while the stream is in input, or in
\* output, the flag of that direction is set.
Clean(g, b) == (g.last = "in" => b.dangling_read = TRUE) /\ (g.last = "out" => b.dangling_write = TRUE)

\* A vector has whole elements, and the adapter's size lies within those it has counted.
Whole(g, b) == Len(g.data) % Width = 0 /\ b.size <= b.elements * Width

\* What every method leaves behind, for the method's adapter b; and what the methods of
\* the stdio adapters leave behind.
Fit(r, b) == /\ r.f \in Hosts /\ r.a \in Adapters /\ Defined(r.f)
             /\ r.a.filler = b.filler /\ r.err \in Errors /\ r.out \in Bytes
Settled(r, b) == Fit(r, b) /\ Clean(r.f, r.a)

-----------------------------------------------------------------------------
(* Pieces of files *)

LEMMA LeastMost ==
  ASSUME NEW m \in Nat, NEW n \in Nat
  PROVE  /\ Least(m, n) \in Nat /\ Least(m, n) <= m /\ Least(m, n) <= n
         /\ Most(m, n) \in Nat /\ Most(m, n) >= m /\ Most(m, n) >= n
BY DEF Least, Most

LEMMA SubSeqFacts ==
  ASSUME NEW s \in Bytes, NEW m \in Nat, NEW n \in Nat, m > 0, n <= Len(s)
  PROVE  /\ SubSeq(s, m, n) \in Bytes
         /\ Len(SubSeq(s, m, n)) = IF m <= n THEN n - m + 1 ELSE 0
BY DEF Bytes

\* A piece of a file is at most as long as asked for, and empty only at the end.
LEMMA PieceFacts ==
  ASSUME NEW s \in Bytes, NEW o \in Nat, NEW n \in Nat
  PROVE  /\ Piece(s, o, n) \in Bytes
         /\ Len(Piece(s, o, n)) \in Nat /\ Len(Piece(s, o, n)) <= n
         /\ Piece(s, o, n) = <<>> /\ n > 0 => o >= Len(s)
<1>1. Len(s) \in Nat /\ <<>> \in Bytes /\ Len(<<>>) = 0
  BY DEF Bytes
<1>2. CASE o >= Len(s)
  BY <1>1, <1>2 DEF Piece
<1>3. CASE ~(o >= Len(s))
  <2> DEFINE m == Least(o + n, Len(s))
  <2>1. m \in Nat /\ m <= o + n /\ m <= Len(s) /\ (n > 0 => m > o)
    BY <1>1, <1>3 DEF Least
  <2>2. Piece(s, o, n) = SubSeq(s, o + 1, m)
    BY <1>3 DEF Piece
  <2> HIDE DEF m
  <2>3. /\ SubSeq(s, o + 1, m) \in Bytes
        /\ Len(SubSeq(s, o + 1, m)) = IF o + 1 <= m THEN m - (o + 1) + 1 ELSE 0
    BY <2>1, SubSeqFacts
  <2> QED
    BY <1>1, <2>1, <2>2, <2>3
<1> QED
  BY <1>2, <1>3

LEMMA RepeatFacts ==
  ASSUME NEW b \in Nat, NEW n \in Int
  PROVE  /\ Repeat(b, n) \in Bytes
         /\ n >= 0 => Len(Repeat(b, n)) = n
         /\ \A k \in 1..n : Repeat(b, n)[k] = b
<1>1. CASE n >= 0
  BY <1>1 DEF Repeat, Bytes
<1>2. CASE n < 0
  <2>1. 1..n = 1..0
    BY <1>2
  <2> QED
    BY <1>2, <2>1 DEF Repeat, Bytes
<1> QED
  BY <1>1, <1>2

LEMMA OverlayType ==
  ASSUME NEW s \in Bytes, NEW o \in Nat, NEW w \in Bytes, NEW b \in Nat
  PROVE  Overlay(s, o, w, b) \in Bytes
<1>1. Len(s) \in Nat /\ Len(w) \in Nat
  BY DEF Bytes
<1>2. \A k \in 1..Len(s) : s[k] \in Nat
  BY DEF Bytes
<1>3. \A k \in 1..Len(w) : w[k] \in Nat
  BY DEF Bytes
<1>4. Most(Len(s), o + Len(w)) \in Nat
  BY <1>1 DEF Most
<1>5. ASSUME NEW m \in Nat
      PROVE  [k \in 1..m |-> IF k > o /\ k <= o + Len(w) THEN w[k - o]
                             ELSE IF k <= Len(s) THEN s[k] ELSE b] \in Seq(Nat)
  <2>1. ASSUME NEW k \in 1..m, k > o, k <= o + Len(w) PROVE w[k - o] \in Nat
    <3>1. k - o \in 1..Len(w)
      BY <1>1, <2>1
    <3> QED
      BY <1>3, <3>1
  <2>2. ASSUME NEW k \in 1..m, k <= Len(s) PROVE s[k] \in Nat
    BY <1>1, <1>2, <2>2
  <2>3. \A k \in 1..m : (IF k > o /\ k <= o + Len(w) THEN w[k - o]
                          ELSE IF k <= Len(s) THEN s[k] ELSE b) \in Nat
    BY <2>1, <2>2
  <2> QED
    BY <2>3
<1> QED
  BY <1>4, <1>5 DEF Overlay, Bytes

-----------------------------------------------------------------------------
(* The C stream *)

LEMMA HostFields ==
  ASSUME NEW g \in Hosts
  PROVE  /\ g.data \in Bytes /\ Len(g.data) \in Nat /\ g.pos \in Nat
         /\ g.last \in {"none", "in", "out"} /\ g.bad \in BOOLEAN /\ g.undefined \in BOOLEAN
BY DEF Hosts, Bytes

\* Replacing the bytes of a host.
LEMMA DataFacts ==
  ASSUME NEW g \in Hosts, NEW d \in Bytes, NEW h, h = [g EXCEPT !.data = d]
  PROVE  /\ h \in Hosts /\ h.data = d /\ h.pos = g.pos /\ h.last = g.last
         /\ (Defined(g) => Defined(h))
BY DEF Hosts, Defined

\* A seek keeps everything but the position; where it succeeds, input and output may follow.
LEMMA FseekFacts ==
  ASSUME NEW g \in Hosts, NEW p \in Nat, NEW r \in Fseek(g, p)
  PROVE  /\ r.f \in Hosts /\ r.f.data = g.data /\ (Defined(g) => Defined(r.f))
         /\ r.out = <<>>
         /\ r.err = "ok" => r.f.last = "none" /\ r.f.pos = p
         /\ r.err # "ok" => r.f = g /\ r.err \in Faults
<1>1. CASE r.err = "ok"
  <2>1. r.f = [g EXCEPT !.pos = p, !.last = "none"] /\ r.out = <<>>
    BY <1>1, FaultAssumption DEF Fseek, Fail, Out
  <2>2. r.f \in Hosts
    BY <2>1 DEF Hosts, Defined
  <2>3. r.f.data = g.data /\ (Defined(g) => Defined(r.f)) /\ r.f.last = "none" /\ r.f.pos = p
    BY <2>1 DEF Hosts, Defined
  <2> QED
    BY <1>1, <2>1, <2>2, <2>3
<1>2. CASE r.err # "ok"
  <2>1. r.f = g /\ r.out = <<>> /\ r.err \in Faults
    BY <1>2, FaultAssumption DEF Fseek, Fail, Out
  <2> QED
    BY <1>2, <2>1
<1> QED
  BY <1>1, <1>2

LEMMA ErroredFacts ==
  ASSUME NEW g \in Hosts
  PROVE  /\ Errored(g) \in Hosts /\ Errored(g).data = g.data /\ Errored(g).pos = g.pos
         /\ Errored(g).last = g.last /\ (Defined(g) => Defined(Errored(g)))
BY DEF Errored, Hosts, Defined

LEMMA ClearerrFacts ==
  ASSUME NEW g \in Hosts
  PROVE  /\ Clearerr(g) \in Hosts /\ Clearerr(g).data = g.data /\ Clearerr(g).pos = g.pos
         /\ Clearerr(g).last = g.last /\ (Defined(g) => Defined(Clearerr(g)))
BY DEF Clearerr, Hosts, Defined

LEMMA FflushFacts ==
  ASSUME NEW g \in Hosts, NEW r \in Fflush(g)
  PROVE  /\ r.f \in Hosts /\ r.f.data = g.data /\ (Defined(g) => Defined(r.f))
         /\ r.f.pos = g.pos /\ r.out = <<>>
         /\ r.f.last \in {g.last, "none"}
         /\ r.err = "ok" => r.f.last # "out"
         /\ r.err # "ok" => r.f.last = g.last /\ r.err \in Faults
<1>1. CASE r.err = "ok"
  <2>1. PICK l \in {"none", "in"} : l \in {g.last, "none"} /\ r.f = [g EXCEPT !.last = l] /\ r.out = <<>>
    BY <1>1, FaultAssumption, HostFields DEF Fflush, Out
  <2>2. r.f \in Hosts
    BY <2>1 DEF Hosts, Defined
  <2>3. r.f.data = g.data /\ (Defined(g) => Defined(r.f)) /\ r.f.last = l /\ r.f.pos = g.pos
    BY <2>1 DEF Hosts, Defined
  <2> QED
    BY <1>1, <2>1, <2>2, <2>3
<1>2. CASE r.err # "ok"
  <2>1. PICK e \in Faults : r = Out(Errored(g), e, <<>>)
    <3>1. r # Out([g EXCEPT !.last = IF @ = "out" THEN "none" ELSE @], "ok", <<>>)
      BY <1>2 DEF Out
    <3> QED
      BY <3>1, Zenon DEF Fflush
  <2>2. r.f = Errored(g) /\ r.out = <<>> /\ r.err \in Faults
    BY <2>1 DEF Out
  <2> QED
    BY <1>2, <2>2, ErroredFacts
<1> QED
  BY <1>1, <1>2

LEMMA AfterInputFacts ==
  ASSUME NEW g \in Hosts, NEW k \in Nat, NEW mode \in {"none", "in"}
  PROVE  /\ AfterInput(g, k, mode) \in Hosts /\ AfterInput(g, k, mode).data = g.data
         /\ AfterInput(g, k, mode).pos = g.pos + k /\ AfterInput(g, k, mode).last = mode
         /\ g.last # "out" /\ Defined(g) => Defined(AfterInput(g, k, mode))
<1>1. g.pos + k \in Nat
  BY HostFields
<1>2. AfterInput(g, k, mode) \in Hosts
  BY <1>1 DEF AfterInput, Hosts
<1>3. /\ AfterInput(g, k, mode).data = g.data /\ AfterInput(g, k, mode).pos = g.pos + k
      /\ AfterInput(g, k, mode).last = mode
  BY DEF AfterInput, Hosts
<1>4. g.last # "out" /\ Defined(g) => Defined(AfterInput(g, k, mode))
  BY DEF AfterInput, Hosts, Defined
<1> QED
  BY <1>2, <1>3, <1>4

\* fread: at most what was asked for, nothing only at the end; it leaves the stream in
\* input when all came or an error did, and is defined unless output came right before.
LEMMA FreadFacts ==
  ASSUME NEW g \in Hosts, NEW n \in Nat, NEW r \in Fread(g, n)
  PROVE  /\ r.f \in Hosts /\ r.f.data = g.data
         /\ r.out \in Bytes /\ Len(r.out) <= n /\ r.f.pos = g.pos + Len(r.out)
         /\ r.err \in Faults \union {"ok"}
         /\ g.last # "out" /\ Defined(g) => Defined(r.f) /\ r.f.last # "out"
         /\ r.f.last = "in" => Len(r.out) = n \/ r.err # "ok"
         /\ r.err = "ok" /\ r.out = <<>> /\ n > 0 => g.pos >= Len(g.data)
<1>1. g.data \in Bytes /\ g.pos \in Nat /\ <<>> \in Bytes /\ Len(<<>>) = 0
  BY DEF Hosts, Bytes
<1>2. CASE n = 0
  BY <1>1, <1>2 DEF Fread, Out, Hosts
<1>3. CASE n # 0
  <2> DEFINE in == Piece(g.data, g.pos, n)
  <2>1. r \in Input(g, n, in)
    BY <1>3 DEF Fread
  <2>2. /\ in \in Bytes /\ Len(in) \in Nat /\ Len(in) <= n
        /\ in = <<>> /\ n > 0 => g.pos >= Len(g.data)
    BY <1>1, PieceFacts
  <2> HIDE DEF in
  <2>3. CASE r = WholeInput(g, n, in)
    <3> DEFINE mode == IF Len(in) < n THEN "none" ELSE "in"
    <3>1. mode \in {"none", "in"} /\ (mode = "in" => Len(in) = n)
      BY <2>2
    <3>2. r = Out(AfterInput(g, Len(in), mode), "ok", in)
      BY <2>3 DEF WholeInput
    <3> HIDE DEF mode
    <3>3. r.f = AfterInput(g, Len(in), mode) /\ r.err = "ok" /\ r.out = in
      BY <3>2 DEF Out
    <3> DEFINE h == AfterInput(g, Len(in), mode)
    <3>6. h \in Hosts /\ h.data = g.data /\ h.pos = g.pos + Len(in) /\ h.last = mode
      BY <2>2, <3>1, AfterInputFacts
    <3> HIDE DEF h
    <3>4. r.f \in Hosts /\ r.f.data = g.data /\ r.f.pos = g.pos + Len(in) /\ r.f.last = mode
      BY <3>3, <3>6 DEF h
    <3>5. g.last # "out" /\ Defined(g) => Defined(r.f)
      BY <2>2, <3>1, <3>3, AfterInputFacts
    <3> QED
      BY <2>2, <3>1, <3>3, <3>4, <3>5
  <2>4. ASSUME NEW k \in 0..Least(Len(in), n - 1), NEW e \in Faults,
               r = CutInput(g, in, k, e)
        PROVE  /\ r.f \in Hosts /\ r.f.data = g.data
               /\ r.out \in Bytes /\ Len(r.out) <= n /\ r.f.pos = g.pos + Len(r.out)
               /\ g.last # "out" /\ Defined(g) => Defined(r.f) /\ r.f.last # "out"
               /\ r.err # "ok" /\ r.err \in Faults
    <3>1. k \in Nat /\ k <= Len(in) /\ k <= n
      BY <1>3, <2>2 DEF Least
    <3>2. SubSeq(in, 1, k) \in Bytes /\ Len(SubSeq(in, 1, k)) = k
      BY <2>2, <3>1, SubSeqFacts
    <3> DEFINE h == AfterInput(g, k, "in")
    <3>3. r.f = Errored(h) /\ r.err = e /\ r.out = SubSeq(in, 1, k)
      BY <2>4 DEF CutInput, Out
    <3>4. h \in Hosts /\ h.data = g.data /\ h.pos = g.pos + k /\ h.last = "in"
      BY <3>1, AfterInputFacts
    <3>5. g.last # "out" /\ Defined(g) => Defined(h)
      BY <3>1, AfterInputFacts
    <3> HIDE DEF h
    <3>6. /\ r.f \in Hosts /\ r.f.data = h.data /\ r.f.pos = h.pos /\ r.f.last = h.last
          /\ (Defined(h) => Defined(r.f))
      BY <3>3, <3>4, ErroredFacts
    <3> QED
      BY <3>1, <3>2, <3>3, <3>4, <3>5, <3>6, FaultAssumption
  <2>5. \/ r = WholeInput(g, n, in)
        \/ \E k \in 0..Least(Len(in), n - 1), e \in Faults :
             r = CutInput(g, in, k, e)
    BY <2>1 DEF Input
  <2> QED
    BY <2>3, <2>4, <2>5
<1> QED
  BY <1>2, <1>3

LEMMA AfterOutputFacts ==
  ASSUME NEW g \in Hosts, NEW w \in Bytes
  PROVE  /\ AfterOutput(g, w) \in Hosts /\ AfterOutput(g, w).last = "out"
         /\ g.last # "in" /\ Defined(g) => Defined(AfterOutput(g, w))
<1> DEFINE d == Overlay(g.data, g.pos, w, 0)
           h == AfterOutput(g, w)
<1>1. d \in Bytes /\ g.pos + Len(w) \in Nat
  <2>1. Len(w) \in Nat /\ g.pos \in Nat /\ g.data \in Bytes
    BY HostFields DEF Bytes
  <2>2. d \in Bytes
    BY <2>1, OverlayType
  <2> HIDE DEF d
  <2> QED
    BY <2>1, <2>2
<1>2. h = [g EXCEPT !.data = d, !.pos = g.pos + Len(w), !.last = "out",
                    !.undefined = g.undefined \/ g.last = "in"]
  BY DEF AfterOutput
<1> HIDE DEF d, h
<1>3. h \in Hosts
  BY <1>1, <1>2 DEF Hosts
<1>4. h.last = "out"
  BY <1>2 DEF Hosts
<1>5. g.last # "in" /\ Defined(g) => Defined(h)
  BY <1>2 DEF Hosts, Defined
<1> QED
  BY <1>3, <1>4, <1>5 DEF h

\* fwrite: at most what was given, defined unless input came right before.
LEMMA FwriteFacts ==
  ASSUME NEW g \in Hosts, NEW w \in Bytes, NEW r \in Fwrite(g, w)
  PROVE  /\ r.f \in Hosts /\ r.out \in Bytes /\ Len(r.out) <= Len(w)
         /\ r.err \in Faults \union {"ok"}
         /\ g.last # "in" /\ Defined(g) => Defined(r.f) /\ r.f.last # "in"
<1>0. Len(w) \in Nat
  BY DEF Bytes
<1>1. CASE r = Out(g, "ok", w)
  BY <1>0, <1>1 DEF Out
<1>2. CASE r = Out(AfterOutput(g, w), "ok", w)
  <2>1. r.f = AfterOutput(g, w) /\ r.out = w /\ r.err = "ok"
    BY <1>2 DEF Out
  <2>2. r.f \in Hosts /\ r.f.last = "out"
    BY <2>1, AfterOutputFacts
  <2>3. g.last # "in" /\ Defined(g) => Defined(r.f)
    BY <2>1, AfterOutputFacts
  <2> QED
    BY <1>0, <2>1, <2>2, <2>3
<1>3. ASSUME NEW k \in 0..(Len(w) - 1), NEW e \in Faults,
             r = CutOutput(g, w, k, e)
      PROVE  /\ r.f \in Hosts /\ r.out \in Bytes /\ Len(r.out) <= Len(w) /\ r.err \in Faults
             /\ g.last # "in" /\ Defined(g) => Defined(r.f) /\ r.f.last # "in"
  <2>0. k \in Nat /\ k <= Len(w)
    BY <1>0
  <2>1. SubSeq(w, 1, k) \in Bytes /\ Len(SubSeq(w, 1, k)) = k
    BY <2>0, SubSeqFacts
  <2> DEFINE h == AfterOutput(g, SubSeq(w, 1, k))
  <2>2. r.f = Errored(h) /\ r.out = SubSeq(w, 1, k) /\ r.err = e
    BY <1>3 DEF CutOutput, Out
  <2>3. h \in Hosts /\ h.last = "out"
    BY <2>1, AfterOutputFacts
  <2>4. g.last # "in" /\ Defined(g) => Defined(h)
    BY <2>1, AfterOutputFacts
  <2> HIDE DEF h
  <2>5. r.f \in Hosts /\ r.f.last = h.last /\ (Defined(h) => Defined(r.f))
    BY <2>2, <2>3, ErroredFacts
  <2> QED
    BY <2>0, <2>1, <2>2, <2>3, <2>4, <2>5
<1>4. \/ r = Out(g, "ok", w)
      \/ r = Out(AfterOutput(g, w), "ok", w)
      \/ \E k \in 0..(Len(w) - 1), e \in Faults :
           r = CutOutput(g, w, k, e)
  BY DEF Fwrite
<1> QED
  BY <1>1, <1>2, <1>3, <1>4


-----------------------------------------------------------------------------
(* The stdio adapters *)

LEMMA NothingFacts == <<>> \in Bytes /\ Len(<<>>) = 0 /\ Faults \subseteq Errors /\ "ok" \in Errors
BY DEF Bytes, Errors

LEMMA AdapterFields ==
  ASSUME NEW b \in Adapters
  PROVE  /\ b.ptr \in Nat /\ b.dangling_read \in BOOLEAN /\ b.dangling_write \in BOOLEAN
         /\ b.size \in Nat /\ b.elements \in Nat /\ b.base \in Nat /\ b.buffer \in Bytes
         /\ b.filler \in Nat
BY DEF Adapters

LEMMA DanglingFacts ==
  ASSUME NEW b \in Adapters, NEW x \in BOOLEAN, NEW y \in BOOLEAN
  PROVE  /\ Dangling(b, x, y) \in Adapters /\ Dangling(b, x, y).filler = b.filler
         /\ Dangling(b, x, y).dangling_read = x /\ Dangling(b, x, y).dangling_write = y
         /\ Dangling(b, x, y).ptr = b.ptr
BY DEF Dangling, Adapters

\* Reading from a stream that is not in output.
LEMMA StdioReadFacts ==
  ASSUME NEW g \in Hosts, NEW b \in Adapters, NEW n \in Nat, Defined(g), g.last # "out",
         NEW r \in StdioRead(g, b, n)
  PROVE  /\ Settled(r, b) /\ r.f.data = g.data /\ Len(r.out) <= n
         /\ r.f.pos = g.pos + Len(r.out)
         /\ r.err = "ok" /\ r.out = <<>> /\ n > 0 => g.pos >= Len(g.data)
<1>1. PICK q \in Fread(g, n) : r = ReadDone(b, n, q)
  BY DEF StdioRead
<1>2. /\ q.f \in Hosts /\ q.f.data = g.data /\ q.out \in Bytes /\ Len(q.out) <= n
      /\ q.f.pos = g.pos + Len(q.out) /\ q.err \in Faults \union {"ok"}
      /\ Defined(q.f) /\ q.f.last # "out"
      /\ q.f.last = "in" => Len(q.out) = n \/ q.err # "ok"
      /\ q.err = "ok" /\ q.out = <<>> /\ n > 0 => g.pos >= Len(g.data)
  BY FreadFacts
<1> DEFINE x == (Len(q.out) = n \/ q.err # "ok")
<1>3. x \in BOOLEAN /\ b.dangling_write \in BOOLEAN
  BY AdapterFields
<1>4. /\ r.f = Clearerr(q.f) /\ r.a = Dangling(b, x, b.dangling_write) /\ r.err = q.err
      /\ r.out = q.out
  BY <1>1 DEF ReadDone, R
<1>5. q.f.last = "in" => x = TRUE
  BY <1>2
<1> HIDE DEF x
<1>6. r.a \in Adapters /\ r.a.filler = b.filler /\ r.a.dangling_read = x
  BY <1>3, <1>4, DanglingFacts
<1>7. /\ r.f \in Hosts /\ r.f.data = q.f.data /\ r.f.pos = q.f.pos /\ r.f.last = q.f.last
      /\ (Defined(q.f) => Defined(r.f))
  BY <1>2, <1>4, ClearerrFacts
<1>8. Clean(r.f, r.a)
  BY <1>2, <1>5, <1>6, <1>7 DEF Clean
<1>9. Settled(r, b)
  BY <1>2, <1>4, <1>6, <1>7, <1>8, NothingFacts DEF Settled, Fit
<1> QED
  BY <1>2, <1>4, <1>7, <1>9

\* Writing to a stream that is not in input.
LEMMA StdioWriteFacts ==
  ASSUME NEW g \in Hosts, NEW b \in Adapters, NEW w \in Bytes, Defined(g), g.last # "in",
         NEW r \in StdioWrite(g, b, w)
  PROVE  Settled(r, b) /\ Len(r.out) <= Len(w)
<1>1. PICK q \in Fwrite(g, w) : r = WriteDone(b, q)
  BY DEF StdioWrite
<1>2. /\ q.f \in Hosts /\ q.out \in Bytes /\ Len(q.out) <= Len(w)
      /\ q.err \in Faults \union {"ok"} /\ Defined(q.f) /\ q.f.last # "in"
  BY FwriteFacts
<1>3. b.dangling_read \in BOOLEAN /\ TRUE \in BOOLEAN
  BY AdapterFields
<1>4. /\ r.f = Clearerr(q.f) /\ r.a = Dangling(b, b.dangling_read, TRUE) /\ r.err = q.err
      /\ r.out = q.out
  BY <1>1, Zenon DEF WriteDone, R
<1>6. r.a \in Adapters /\ r.a.filler = b.filler /\ r.a.dangling_write = TRUE
  BY <1>3, <1>4 DEF Dangling, Adapters
<1>7. r.f \in Hosts /\ r.f.last = q.f.last /\ (Defined(q.f) => Defined(r.f))
  BY <1>2, <1>4, ClearerrFacts
<1>8. Clean(r.f, r.a)
  BY <1>2, <1>6, <1>7 DEF Clean
<1>9. Settled(r, b)
  BY <1>2, <1>4, <1>6, <1>7, <1>8, NothingFacts DEF Settled, Fit
<1> QED
  BY <1>2, <1>4, <1>9


\* A stream in neither input nor output fits any flags.
LEMMA NoneClean ==
  ASSUME NEW g, NEW b, g.last = "none"
  PROVE  Clean(g, b)
BY DEF Clean

\* The three ways a method forgets what dangled.
LEMMA ForgetFacts ==
  ASSUME NEW b \in Adapters
  PROVE  /\ Dangling(b, FALSE, FALSE) \in Adapters /\ Dangling(b, FALSE, FALSE).filler = b.filler
         /\ Dangling(b, FALSE, TRUE) \in Adapters /\ Dangling(b, FALSE, TRUE).filler = b.filler
         /\ Dangling(b, FALSE, b.dangling_write) \in Adapters
         /\ Dangling(b, FALSE, b.dangling_write).filler = b.filler
         /\ Dangling(b, b.dangling_read, FALSE) \in Adapters
         /\ Dangling(b, b.dangling_read, FALSE).filler = b.filler
<1>1. b.dangling_read \in BOOLEAN /\ b.dangling_write \in BOOLEAN
  BY AdapterFields
<1>2. \A x, y \in BOOLEAN : Dangling(b, x, y) \in Adapters /\ Dangling(b, x, y).filler = b.filler
  BY DanglingFacts
<1> QED
  BY <1>1, <1>2, Zenon

LEMMA NotDoneFacts ==
  ASSUME NEW g \in Hosts, NEW b \in Adapters, Defined(g), Clean(g, b), NEW p \in Nat,
         NEW s \in Fseek(g, p), NEW r \in NotDone(b, s)
  PROVE  /\ Settled(r, b) /\ r.f.data = g.data /\ r.out = <<>>
         /\ r.err # "ok" => r.f.pos = g.pos
<1>1. r = R(s.f, b, s.err, <<>>)
  BY DEF NotDone
<1>2. /\ s.f \in Hosts /\ s.f.data = g.data /\ (Defined(g) => Defined(s.f))
      /\ s.err = "ok" => s.f.last = "none"
      /\ s.err # "ok" => s.f = g /\ s.err \in Faults
  BY FseekFacts
<1>3. r.f = s.f /\ r.a = b /\ r.err = s.err /\ r.out = <<>>
  BY <1>1 DEF R
<1>4. Clean(s.f, b)
  BY <1>2, NoneClean
<1> QED
  BY <1>2, <1>3, <1>4, NothingFacts DEF Settled, Fit

\* fsetpos at the end of a method.
LEMMA RestoredFacts ==
  ASSUME NEW r, NEW b, Settled(r, b), NEW old \in Nat, NEW q \in Restored(r, old)
  PROVE  /\ Settled(q, b) /\ q.f.data = r.f.data /\ q.out = r.out
         /\ q.err = "ok" => r.err = "ok"
<1>1. PICK s \in Fseek(r.f, old) : q = RestoredBy(r, s)
  BY DEF Restored
<1>2. /\ r.f \in Hosts /\ r.a \in Adapters /\ Defined(r.f) /\ r.a.filler = b.filler
      /\ r.err \in Errors /\ r.out \in Bytes /\ Clean(r.f, r.a)
  BY DEF Settled, Fit
<1>3. /\ s.f \in Hosts /\ s.f.data = r.f.data /\ (Defined(r.f) => Defined(s.f))
      /\ s.err = "ok" => s.f.last = "none"
      /\ s.err # "ok" => s.f = r.f /\ s.err \in Faults
  BY <1>2, FseekFacts
<1>4. CASE s.err = "ok"
  <2>1. q = R(s.f, Dangling(r.a, FALSE, FALSE), r.err, r.out)
    BY <1>1, <1>4, Zenon DEF RestoredBy
  <2>2. q.f = s.f /\ q.a = Dangling(r.a, FALSE, FALSE) /\ q.err = r.err /\ q.out = r.out
    BY <2>1, Zenon DEF R
  <2>3. q.a \in Adapters /\ q.a.filler = b.filler
    BY <1>2, <2>2, ForgetFacts, Zenon
  <2>4. Clean(q.f, q.a)
    BY <1>3, <1>4, <2>2, NoneClean
  <2>5. /\ q.f \in Hosts /\ Defined(q.f) /\ q.f.data = r.f.data /\ q.err \in Errors
        /\ q.out \in Bytes
    BY <1>2, <1>3, <2>2
  <2> QED
    BY <2>2, <2>3, <2>4, <2>5 DEF Settled, Fit
<1>5. CASE s.err # "ok"
  <2>1. /\ q.f = r.f /\ q.a = r.a /\ q.out = r.out /\ q.err \in Errors
        /\ q.err # "ok"
    BY <1>1, <1>2, <1>3, <1>5, NothingFacts DEF RestoredBy, R
  <2> QED
    BY <1>2, <2>1 DEF Settled, Fit
<1> QED
  BY <1>4, <1>5


LEMMA NotLocatedFacts ==
  ASSUME NEW g \in Hosts, NEW b \in Adapters, Defined(g), Clean(g, b), NEW r \in NotLocated(g, b)
  PROVE  Settled(r, b) /\ r.f = g /\ r.out = <<>> /\ r.err # "ok"
<1>1. PICK e \in Faults : r = R(g, b, e, <<>>)
  BY DEF NotLocated
<1>2. r.f = g /\ r.a = b /\ r.err = e /\ r.out = <<>>
  BY <1>1 DEF R
<1> QED
  BY <1>2, NothingFacts, FaultAssumption DEF Settled, Fit

\* A read after a seek.
LEMMA ReadLocatedFacts ==
  ASSUME NEW g \in Hosts, NEW b \in Adapters, Defined(g), Clean(g, b), NEW o \in Nat,
         NEW n \in Nat, NEW s \in Fseek(g, o), NEW r \in ReadLocated(b, n, s)
  PROVE  /\ Settled(r, b) /\ r.f.data = g.data /\ Len(r.out) <= n
         /\ r.err = "ok" /\ r.out = <<>> /\ n > 0 => o >= Len(g.data)
<1>1. /\ s.f \in Hosts /\ s.f.data = g.data /\ (Defined(g) => Defined(s.f))
      /\ s.err = "ok" => s.f.last = "none" /\ s.f.pos = o
      /\ s.err # "ok" => s.f = g /\ s.err \in Faults
  BY FseekFacts
<1>2. CASE s.err = "ok"
  <2> DEFINE c == Dangling(b, b.dangling_read, FALSE)
  <2>1. c \in Adapters /\ c.filler = b.filler
    BY ForgetFacts, Zenon
  <2>2. r \in StdioRead(s.f, c, n)
    BY <1>2, Zenon DEF ReadLocated
  <2> HIDE DEF c
  <2>3. s.f \in Hosts /\ Defined(s.f) /\ s.f.last # "out"
    BY <1>1, <1>2
  <2>4. /\ Settled(r, c) /\ r.f.data = s.f.data /\ Len(r.out) <= n
        /\ r.err = "ok" /\ r.out = <<>> /\ n > 0 => s.f.pos >= Len(s.f.data)
    BY <2>1, <2>2, <2>3, StdioReadFacts
  <2>5. Settled(r, b)
    BY <2>1, <2>4 DEF Settled, Fit
  <2> QED
    BY <1>1, <1>2, <2>4, <2>5
<1>3. CASE s.err # "ok"
  <2>1. r \in NotDone(b, s)
    BY <1>3, Zenon DEF ReadLocated
  <2>2. Settled(r, b) /\ r.f.data = g.data /\ r.out = <<>>
    BY <2>1, NotDoneFacts
  <2>3. r.err # "ok"
    BY <1>3, <2>1 DEF NotDone, R
  <2> QED
    BY <2>2, <2>3, NothingFacts
<1> QED
  BY <1>2, <1>3

\* A write after a seek.
LEMMA WriteLocatedFacts ==
  ASSUME NEW g \in Hosts, NEW b \in Adapters, Defined(g), Clean(g, b), NEW o \in Nat,
         NEW w \in Bytes, NEW s \in Fseek(g, o), NEW r \in WriteLocated(b, w, s)
  PROVE  Settled(r, b) /\ Len(r.out) <= Len(w)
<1>1. /\ s.f \in Hosts /\ (Defined(g) => Defined(s.f))
      /\ s.err = "ok" => s.f.last = "none"
  BY FseekFacts
<1>2. CASE s.err = "ok"
  <2> DEFINE c == Dangling(b, FALSE, b.dangling_write)
  <2>1. c \in Adapters /\ c.filler = b.filler
    BY ForgetFacts, Zenon
  <2>2. r \in StdioWrite(s.f, c, w)
    BY <1>2, Zenon DEF WriteLocated
  <2> HIDE DEF c
  <2>3. s.f \in Hosts /\ Defined(s.f) /\ s.f.last # "in"
    BY <1>1, <1>2
  <2>4. Settled(r, c) /\ Len(r.out) <= Len(w)
    BY <2>1, <2>2, <2>3, StdioWriteFacts
  <2>5. Settled(r, b)
    BY <2>1, <2>4 DEF Settled, Fit
  <2> QED
    BY <2>4, <2>5
<1>3. CASE s.err # "ok"
  <2>1. r \in NotDone(b, s)
    BY <1>3, Zenon DEF WriteLocated
  <2>2. Settled(r, b) /\ r.out = <<>>
    BY <2>1, NotDoneFacts
  <2>3. Len(w) \in Nat
    BY DEF Bytes
  <2> QED
    BY <2>2, <2>3, NothingFacts
<1> QED
  BY <1>2, <1>3

\* stdio_read::read_some.
LEMMA StdioReadSomeFacts ==
  ASSUME NEW g \in Hosts, NEW b \in Adapters, Defined(g), Clean(g, b), NEW n \in Nat,
         NEW r \in StdioReadSome(g, b, n)
  PROVE  /\ Settled(r, b) /\ r.f.data = g.data /\ Len(r.out) <= n
         /\ r.f.pos = g.pos + Len(r.out)
         /\ r.err = "ok" /\ r.out = <<>> /\ n > 0 => g.pos >= Len(g.data)
<1>0. g.last \in {"none", "in", "out"} /\ g.pos \in Nat
  BY HostFields
<1>1. CASE ~b.dangling_write
  <2>1. g.last # "out"
    BY <1>1 DEF Clean
  <2>2. r \in StdioRead(g, b, n)
    BY <1>1, Zenon DEF StdioReadSome
  <2> QED
    BY <2>1, <2>2, StdioReadFacts
<1>2. CASE b.dangling_write
  <2>1. PICK s \in Fflush(g) : r \in ReadFlushed(b, n, s)
    BY <1>2 DEF StdioReadSome
  <2>2. /\ s.f \in Hosts /\ s.f.data = g.data /\ Defined(s.f) /\ s.f.pos = g.pos
        /\ s.f.last \in {g.last, "none"} /\ (s.err = "ok" => s.f.last # "out")
        /\ s.err # "ok" => s.f.last = g.last /\ s.err \in Faults
    BY FflushFacts
  <2>3. CASE s.err = "ok"
    <3> DEFINE c == Dangling(b, b.dangling_read, FALSE)
    <3>1. c \in Adapters /\ c.filler = b.filler
      BY ForgetFacts, Zenon
    <3>2. r \in StdioRead(s.f, c, n)
      BY <2>1, <2>3, Zenon DEF ReadFlushed
    <3> HIDE DEF c
    <3>3. s.f \in Hosts /\ Defined(s.f) /\ s.f.last # "out"
      BY <2>2, <2>3
    <3>4. /\ Settled(r, c) /\ r.f.data = s.f.data /\ Len(r.out) <= n
          /\ r.f.pos = s.f.pos + Len(r.out)
          /\ r.err = "ok" /\ r.out = <<>> /\ n > 0 => s.f.pos >= Len(s.f.data)
      BY <3>1, <3>2, <3>3, StdioReadFacts
    <3>5. Settled(r, b)
      BY <3>1, <3>4 DEF Settled, Fit
    <3> QED
      BY <2>2, <3>4, <3>5
  <2>4. CASE s.err # "ok"
    <3>1. r = R(Clearerr(s.f), b, s.err, <<>>)
      BY <2>1, <2>4 DEF ReadFlushed
    <3>2. r.f = Clearerr(s.f) /\ r.a = b /\ r.err = s.err /\ r.out = <<>>
      BY <3>1 DEF R
    <3>3. /\ r.f \in Hosts /\ r.f.data = g.data /\ r.f.pos = g.pos /\ r.f.last = g.last
          /\ Defined(r.f)
      BY <2>2, <2>4, <3>2, ClearerrFacts
    <3>4. Clean(r.f, r.a)
      BY <3>2, <3>3 DEF Clean
    <3>5. r.err \in Errors /\ r.err # "ok" /\ r.out \in Bytes /\ Len(r.out) = 0
      BY <2>2, <2>4, <3>2, NothingFacts
    <3>6. Settled(r, b)
      BY <3>2, <3>3, <3>4, <3>5 DEF Settled, Fit
    <3> QED
      BY <1>0, <3>3, <3>5, <3>6
  <2> QED
    BY <2>3, <2>4
<1> QED
  BY <1>1, <1>2

\* stdio_read::read_some_at.
LEMMA StdioReadSomeAtFacts ==
  ASSUME NEW g \in Hosts, NEW b \in Adapters, Defined(g), Clean(g, b), NEW o \in Nat,
         NEW n \in Nat, NEW r \in StdioReadSomeAt(g, b, o, n)
  PROVE  /\ Settled(r, b) /\ r.f.data = g.data /\ Len(r.out) <= n
         /\ r.err = "ok" /\ r.out = <<>> /\ n > 0 => o >= Len(g.data)
<1>1. CASE r \in NotLocated(g, b)
  BY <1>1, NotLocatedFacts, NothingFacts
<1>2. CASE r \notin NotLocated(g, b)
  <2>1. PICK s \in Fseek(g, o) : r \in AllRestored(ReadLocated(b, n, s), g.pos)
    BY <1>2 DEF StdioReadSomeAt
  <2>2. PICK q \in ReadLocated(b, n, s) : r \in Restored(q, g.pos)
    BY <2>1 DEF AllRestored
  <2>3. /\ Settled(q, b) /\ q.f.data = g.data /\ Len(q.out) <= n
        /\ q.err = "ok" /\ q.out = <<>> /\ n > 0 => o >= Len(g.data)
    BY <2>2, ReadLocatedFacts
  <2>4. /\ Settled(r, b) /\ r.f.data = q.f.data /\ r.out = q.out
        /\ r.err = "ok" => q.err = "ok"
    BY <2>2, <2>3, HostFields, RestoredFacts
  <2> QED
    BY <2>3, <2>4
<1> QED
  BY <1>1, <1>2

\* stdio_read_write::write_some and write_some_at.
LEMMA StdioWriteSomeFacts ==
  ASSUME NEW g \in Hosts, NEW b \in Adapters, Defined(g), Clean(g, b), NEW w \in Bytes,
         NEW r \in StdioWriteSome(g, b, w)
  PROVE  Settled(r, b) /\ Len(r.out) <= Len(w)
<1>1. CASE ~b.dangling_read
  <2>1. g.last # "in"
    BY <1>1 DEF Clean
  <2>2. r \in StdioWrite(g, b, w)
    BY <1>1, Zenon DEF StdioWriteSome
  <2> QED
    BY <2>1, <2>2, StdioWriteFacts
<1>2. CASE b.dangling_read
  <2>1. PICK s \in Fseek(g, g.pos) : r \in WriteLocated(b, w, s)
    BY <1>2 DEF StdioWriteSome
  <2> QED
    BY <2>1, HostFields, WriteLocatedFacts
<1> QED
  BY <1>1, <1>2

LEMMA StdioWriteSomeAtFacts ==
  ASSUME NEW g \in Hosts, NEW b \in Adapters, Defined(g), Clean(g, b), NEW o \in Nat,
         NEW w \in Bytes, NEW r \in StdioWriteSomeAt(g, b, o, w)
  PROVE  Settled(r, b) /\ Len(r.out) <= Len(w)
<1>0. Len(w) \in Nat
  BY DEF Bytes
<1>1. CASE r \in NotLocated(g, b)
  BY <1>0, <1>1, NotLocatedFacts, NothingFacts
<1>2. CASE r \notin NotLocated(g, b)
  <2>1. PICK s \in Fseek(g, o) : r \in AllRestored(WriteLocated(b, w, s), g.pos)
    BY <1>2 DEF StdioWriteSomeAt
  <2>2. PICK q \in WriteLocated(b, w, s) : r \in Restored(q, g.pos)
    BY <2>1 DEF AllRestored
  <2>3. Settled(q, b) /\ Len(q.out) <= Len(w)
    BY <2>2, WriteLocatedFacts
  <2>4. Settled(r, b) /\ r.out = q.out
    BY <2>2, <2>3, HostFields, RestoredFacts
  <2> QED
    BY <2>3, <2>4
<1> QED
  BY <1>1, <1>2


\* length, seek and flush.
LEMMA StdioLengthFacts ==
  ASSUME NEW g \in Hosts, NEW b \in Adapters, Defined(g), Clean(g, b),
         NEW r \in StdioLength(g, b)
  PROVE  Settled(r, b)
<1>0. g.pos \in Nat /\ Len(g.data) \in Nat
  BY HostFields
<1>1. CASE r \in NotLocated(g, b)
  BY <1>1, NotLocatedFacts
<1>2. CASE r \notin NotLocated(g, b)
  <2>1. PICK s \in Fseek(g, Len(g.data)) : r \in AllRestored(Measured(g, b, s), g.pos)
    BY <1>2 DEF StdioLength
  <2>2. PICK q \in Measured(g, b, s) : r \in Restored(q, g.pos)
    BY <2>1 DEF AllRestored
  <2>3. Settled(q, b)
    <3>1. CASE s.err = "ok"
      <4>1. q = R(s.f, Dangling(b, FALSE, FALSE), "ok", <<Len(g.data)>>)
        BY <2>2, <3>1 DEF Measured
      <4>2. /\ q.f = s.f /\ q.a = Dangling(b, FALSE, FALSE) /\ q.err = "ok"
            /\ q.out = <<Len(g.data)>>
        BY <4>1, Zenon DEF R
      <4>3. q.a \in Adapters /\ q.a.filler = b.filler
        BY <4>2, ForgetFacts, Zenon
      <4>4. s.f \in Hosts /\ (Defined(g) => Defined(s.f)) /\ s.f.last = "none"
        BY <1>0, <3>1, FseekFacts
      <4>5. q.out \in Bytes
        BY <1>0, <4>2 DEF Bytes
      <4>6. Clean(q.f, q.a)
        BY <4>2, <4>4, NoneClean
      <4> QED
        BY <4>2, <4>3, <4>4, <4>5, <4>6, NothingFacts DEF Settled, Fit
    <3>2. CASE s.err # "ok"
      <4>1. q \in NotDone(b, s)
        BY <2>2, <3>2, Zenon DEF Measured
      <4> QED
        BY <1>0, <4>1, NotDoneFacts
    <3> QED
      BY <3>1, <3>2
  <2> QED
    BY <1>0, <2>2, <2>3, RestoredFacts
<1> QED
  BY <1>1, <1>2

LEMMA StdioSeekFacts ==
  ASSUME NEW g \in Hosts, NEW b \in Adapters, Defined(g), Clean(g, b), NEW to \in Int,
         NEW r \in StdioSeek(g, b, to)
  PROVE  Settled(r, b)
<1>1. CASE to \notin 0..Top
  <2>1. r = R(g, b, "invalid", <<>>)
    BY <1>1 DEF StdioSeek
  <2>2. r.f = g /\ r.a = b /\ r.err = "invalid" /\ r.out = <<>>
    BY <2>1 DEF R
  <2> QED
    BY <2>2, NothingFacts DEF Settled, Fit, Errors
<1>2. CASE to \in 0..Top
  <2>1. PICK s \in Fseek(g, to) : r \in NotDone(b, s)
    BY <1>2 DEF StdioSeek
  <2>2. to \in Nat
    BY <1>2, WidthAssumption
  <2> QED
    BY <2>1, <2>2, NotDoneFacts
<1> QED
  BY <1>1, <1>2

LEMMA StdioFlushFacts ==
  ASSUME NEW g \in Hosts, NEW b \in Adapters, Defined(g), Clean(g, b), NEW r \in StdioFlush(g, b)
  PROVE  Settled(r, b)
<1>1. PICK s \in Fflush(g) : r = FlushDone(b, s)
  BY DEF StdioFlush
<1>2. /\ s.f \in Hosts /\ Defined(s.f) /\ s.f.last \in {g.last, "none"}
      /\ (s.err = "ok" => s.f.last # "out")
      /\ s.err # "ok" => s.f.last = g.last /\ s.err \in Faults
  BY FflushFacts
<1>3. CASE s.err = "ok"
  <2> DEFINE c == Dangling(b, b.dangling_read, FALSE)
  <2>1. c \in Adapters /\ c.filler = b.filler
    BY ForgetFacts, Zenon
  <2>2. b.dangling_read \in BOOLEAN /\ FALSE \in BOOLEAN
    BY AdapterFields
  <2>3. c.dangling_read = b.dangling_read
    BY <2>2 DEF Dangling, Adapters
  <2>4. r.f = s.f /\ r.a = c /\ r.err = "ok" /\ r.out = <<>>
    BY <1>1, <1>3, Zenon DEF FlushDone, R
  <2> HIDE DEF c
  <2>5. Clean(r.f, r.a)
    BY <1>2, <1>3, <2>3, <2>4 DEF Clean
  <2> QED
    BY <1>2, <2>1, <2>4, <2>5, NothingFacts DEF Settled, Fit
<1>4. CASE s.err # "ok"
  <2>1. r.f = Clearerr(s.f) /\ r.a = b /\ r.err = s.err /\ r.out = <<>>
    BY <1>1, <1>4, Zenon DEF FlushDone, R
  <2>2. r.f \in Hosts /\ r.f.last = g.last /\ Defined(r.f)
    BY <1>2, <1>4, <2>1, ClearerrFacts
  <2>3. Clean(r.f, r.a)
    BY <2>1, <2>2 DEF Clean
  <2> QED
    BY <1>2, <1>4, <2>1, <2>2, <2>3, NothingFacts DEF Settled, Fit
<1> QED
  BY <1>3, <1>4

-----------------------------------------------------------------------------
(* The filler: a write behind the end *)

\* What closing the gap leaves may be followed by an output.
LEMMA GapClosedFacts ==
  ASSUME NEW g \in Hosts, NEW b \in Adapters, Defined(g), g.last = "none", NEW o \in Nat,
         NEW r \in GapClosed(g, b, o)
  PROVE  Settled(r, b) /\ r.f.last # "in" /\ r.out = <<>>
<1>0. g.pos \in Nat /\ b.filler \in Nat /\ Clean(g, b)
  BY HostFields, AdapterFields, NoneClean
<1>1. CASE o > g.pos
  <2> DEFINE w == Repeat(b.filler, o - g.pos)
  <2>1. w \in Bytes
    BY <1>0, <1>1, RepeatFacts
  <2>2. r \in Filled(g, b, o)
    BY <1>1, Zenon DEF GapClosed
  <2>3. PICK q \in Fwrite(g, w) : r = FillDone(b, q)
    BY <2>2 DEF Filled
  <2> HIDE DEF w
  <2>4. q.f \in Hosts /\ q.err \in Faults \union {"ok"} /\ Defined(q.f) /\ q.f.last # "in"
    BY <2>1, <2>3, FwriteFacts
  <2>5. r.f = q.f /\ r.a = Dangling(b, FALSE, TRUE) /\ r.err = q.err /\ r.out = <<>>
    BY <2>3, Zenon DEF FillDone, R
  <2>6. r.a \in Adapters /\ r.a.filler = b.filler
    BY <2>5, ForgetFacts, Zenon
  <2>7. r.a.dangling_write = TRUE
    BY <2>5 DEF Dangling, Adapters
  <2>8. Clean(r.f, r.a)
    BY <2>4, <2>5, <2>7 DEF Clean
  <2> QED
    BY <2>4, <2>5, <2>6, <2>8, NothingFacts DEF Settled, Fit
<1>2. CASE o < g.pos
  <2>0. ~(o > g.pos)
    BY <1>0, <1>2
  <2>1. r \in SeekBack(g, b, o)
    BY <1>2, <2>0, Zenon DEF GapClosed
  <2>2. PICK s \in Fseek(g, o) : r \in NotDone(b, s)
    BY <2>1 DEF SeekBack
  <2>3. Settled(r, b) /\ r.out = <<>>
    BY <1>0, <2>2, NotDoneFacts
  <2>4. r.f = s.f
    BY <2>2 DEF NotDone, R
  <2>5. s.f.last # "in"
    BY <2>2, FseekFacts
  <2> QED
    BY <2>3, <2>4, <2>5
<1>3. CASE ~(o > g.pos) /\ ~(o < g.pos)
  <2>1. r = R(g, b, "ok", <<>>)
    BY <1>3 DEF GapClosed
  <2>2. r.f = g /\ r.a = b /\ r.err = "ok" /\ r.out = <<>>
    BY <2>1 DEF R
  <2> QED
    BY <1>0, <2>2, NothingFacts DEF Settled, Fit
<1> QED
  BY <1>1, <1>2, <1>3

\* Giving up: the position is put back, and the error is the first one.
LEMMA GiveUpFacts ==
  ASSUME NEW r, NEW b, Settled(r, b), NEW o \in Nat, NEW q \in GiveUp(r, o)
  PROVE  Settled(q, b) /\ q.out = <<>>
<1>1. PICK s \in Fseek(r.f, o) : q = GaveUp(r, s)
  BY DEF GiveUp
<1>2. /\ r.f \in Hosts /\ r.a \in Adapters /\ Defined(r.f) /\ r.a.filler = b.filler
      /\ r.err \in Errors /\ Clean(r.f, r.a)
  BY DEF Settled, Fit
<1>3. /\ s.f \in Hosts /\ (Defined(r.f) => Defined(s.f))
      /\ s.err = "ok" => s.f.last = "none"
      /\ s.err # "ok" => s.f = r.f /\ s.err \in Faults
  BY <1>2, FseekFacts
<1>4. /\ Clearerr(s.f) \in Hosts /\ (Defined(s.f) => Defined(Clearerr(s.f)))
      /\ Clearerr(s.f).last = s.f.last
  BY <1>3, ClearerrFacts
<1>5. CASE s.err = "ok"
  <2>1. /\ q.f = Clearerr(s.f) /\ q.a = Dangling(r.a, FALSE, FALSE) /\ q.err = r.err
        /\ q.out = <<>>
    BY <1>1, <1>5, Zenon DEF GaveUp, R
  <2>2. q.a \in Adapters /\ q.a.filler = b.filler
    BY <1>2, <2>1, ForgetFacts, Zenon
  <2>3. Clean(q.f, q.a)
    BY <1>3, <1>4, <1>5, <2>1, NoneClean
  <2> QED
    BY <1>2, <1>3, <1>4, <2>1, <2>2, <2>3, NothingFacts DEF Settled, Fit
<1>6. CASE s.err # "ok"
  <2>1. q.f = Clearerr(s.f) /\ q.a = r.a /\ q.err = r.err /\ q.out = <<>>
    BY <1>1, <1>6, Zenon DEF GaveUp, R
  <2>2. Clean(q.f, q.a)
    BY <1>2, <1>3, <1>4, <1>6, <2>1 DEF Clean
  <2> QED
    BY <1>2, <1>3, <1>4, <2>1, <2>2, NothingFacts DEF Settled, Fit
<1> QED
  BY <1>5, <1>6

\* Once the gap is closed.
LEMMA WriteBehindFacts ==
  ASSUME NEW g \in Hosts, NEW b, NEW s, Settled(s, b), s.f.last # "in", s.out = <<>>,
         NEW w \in Bytes, NEW r \in WriteBehind(g, s, w)
  PROVE  Settled(r, b) /\ Len(r.out) <= Len(w)
<1>0. Len(w) \in Nat /\ s.f \in Hosts /\ s.a \in Adapters /\ Defined(s.f) /\ s.a.filler = b.filler
  BY DEF Bytes, Settled, Fit
<1>1. CASE s.err = "ok"
  <2>1. r \in StdioWrite(s.f, s.a, w)
    BY <1>1, Zenon DEF WriteBehind
  <2>2. Settled(r, s.a) /\ Len(r.out) <= Len(w)
    BY <1>0, <2>1, StdioWriteFacts
  <2> QED
    BY <1>0, <2>2 DEF Settled, Fit
<1>2. CASE s.err # "ok" /\ g.pos > Len(g.data)
  <2>1. r \in GiveUp(s, g.pos)
    BY <1>2, Zenon DEF WriteBehind
  <2> QED
    BY <1>0, <2>1, HostFields, GiveUpFacts, NothingFacts
<1>3. CASE s.err # "ok" /\ ~(g.pos > Len(g.data))
  <2>1. r = s
    BY <1>3 DEF WriteBehind
  <2> QED
    BY <1>0, <2>1, NothingFacts
<1> QED
  BY <1>1, <1>2, <1>3

LEMMA WriteBehindAtFacts ==
  ASSUME NEW b, NEW s, Settled(s, b), s.f.last # "in", s.out = <<>>,
         NEW w \in Bytes, NEW r \in WriteBehindAt(s, w)
  PROVE  Settled(r, b) /\ Len(r.out) <= Len(w)
<1>0. /\ Len(w) \in Nat /\ s.f \in Hosts /\ s.a \in Adapters /\ Defined(s.f)
      /\ s.a.filler = b.filler /\ s.err \in Errors /\ Clean(s.f, s.a)
  BY DEF Bytes, Settled, Fit
<1>1. CASE s.err = "ok"
  <2>1. r \in StdioWrite(s.f, s.a, w)
    BY <1>1, Zenon DEF WriteBehindAt
  <2>2. Settled(r, s.a) /\ Len(r.out) <= Len(w)
    BY <1>0, <2>1, StdioWriteFacts
  <2> QED
    BY <1>0, <2>2 DEF Settled, Fit
<1>2. CASE s.err # "ok"
  <2>1. r = R(Clearerr(s.f), s.a, s.err, <<>>)
    BY <1>2 DEF WriteBehindAt
  <2>2. r.f = Clearerr(s.f) /\ r.a = s.a /\ r.err = s.err /\ r.out = <<>>
    BY <2>1 DEF R
  <2>3. r.f \in Hosts /\ r.f.last = s.f.last /\ Defined(r.f)
    BY <1>0, <2>2, ClearerrFacts
  <2>4. Clean(r.f, r.a)
    BY <1>0, <2>2, <2>3 DEF Clean
  <2> QED
    BY <1>0, <2>2, <2>3, <2>4, NothingFacts DEF Settled, Fit
<1> QED
  BY <1>1, <1>2

\* stdio_filler::write_some and write_some_at.
LEMMA FillerWriteSomeFacts ==
  ASSUME NEW g \in Hosts, NEW b \in Adapters, Defined(g), Clean(g, b), NEW w \in Bytes,
         NEW r \in FillerWriteSome(g, b, w)
  PROVE  Settled(r, b) /\ Len(r.out) <= Len(w)
<1>0. Len(w) \in Nat /\ g.pos \in Nat /\ Len(g.data) \in Nat
  BY HostFields DEF Bytes
<1>1. CASE r \in NotLocated(g, b)
  BY <1>0, <1>1, NotLocatedFacts, NothingFacts
<1>2. CASE r \notin NotLocated(g, b)
  <2>1. PICK e \in Fseek(g, Len(g.data)) : r \in FilledWrite(g, b, w, e)
    BY <1>2 DEF FillerWriteSome
  <2>2. /\ e.f \in Hosts /\ (Defined(g) => Defined(e.f))
        /\ e.err = "ok" => e.f.last = "none"
        /\ e.err # "ok" => e.f = g /\ e.err \in Faults
    BY <1>0, FseekFacts
  <2>3. CASE e.err # "ok"
    <3> DEFINE q == R(e.f, b, e.err, <<>>)
    <3>1. r \in GiveUp(q, g.pos)
      BY <2>1, <2>3, Zenon DEF FilledWrite
    <3>2. q.f = e.f /\ q.a = b /\ q.err = e.err /\ q.out = <<>>
      BY DEF R
    <3> HIDE DEF q
    <3>3. Settled(q, b)
      BY <2>2, <2>3, <3>2, NothingFacts DEF Settled, Fit
    <3> QED
      BY <1>0, <3>1, <3>3, GiveUpFacts, NothingFacts
  <2>4. CASE e.err = "ok"
    <3> DEFINE c == Dangling(b, FALSE, FALSE)
    <3>1. c \in Adapters /\ c.filler = b.filler
      BY ForgetFacts, Zenon
    <3>2. PICK s \in GapClosed(e.f, c, g.pos) : r \in WriteBehind(g, s, w)
      BY <2>1, <2>4 DEF FilledWrite
    <3> HIDE DEF c
    <3>3. Settled(s, c) /\ s.f.last # "in" /\ s.out = <<>>
      BY <1>0, <2>2, <2>4, <3>1, <3>2, GapClosedFacts
    <3>4. Settled(r, c) /\ Len(r.out) <= Len(w)
      BY <3>2, <3>3, WriteBehindFacts
    <3> QED
      BY <3>1, <3>4 DEF Settled, Fit
  <2> QED
    BY <2>3, <2>4
<1> QED
  BY <1>1, <1>2

LEMMA FillerWriteSomeAtFacts ==
  ASSUME NEW g \in Hosts, NEW b \in Adapters, Defined(g), Clean(g, b), NEW o \in Nat,
         NEW w \in Bytes, NEW r \in FillerWriteSomeAt(g, b, o, w)
  PROVE  Settled(r, b) /\ Len(r.out) <= Len(w)
<1>0. Len(w) \in Nat /\ g.pos \in Nat /\ Len(g.data) \in Nat
  BY HostFields DEF Bytes
<1>1. CASE r \in NotLocated(g, b)
  BY <1>0, <1>1, NotLocatedFacts, NothingFacts
<1>2. CASE r \notin NotLocated(g, b)
  <2>1. PICK e \in Fseek(g, Len(g.data)) : r \in AllRestored(FilledWriteAt(b, o, w, e), g.pos)
    BY <1>2 DEF FillerWriteSomeAt
  <2>2. PICK q \in FilledWriteAt(b, o, w, e) : r \in Restored(q, g.pos)
    BY <2>1 DEF AllRestored
  <2>3. /\ e.f \in Hosts /\ (Defined(g) => Defined(e.f))
        /\ e.err = "ok" => e.f.last = "none"
    BY <1>0, FseekFacts
  <2>4. Settled(q, b) /\ Len(q.out) <= Len(w)
    <3>1. CASE e.err # "ok"
      <4>1. q \in NotDone(b, e)
        BY <2>2, <3>1, Zenon DEF FilledWriteAt
      <4> QED
        BY <1>0, <4>1, NotDoneFacts, NothingFacts
    <3>2. CASE e.err = "ok"
      <4> DEFINE c == Dangling(b, FALSE, FALSE)
      <4>1. c \in Adapters /\ c.filler = b.filler
        BY ForgetFacts, Zenon
      <4>2. PICK s \in GapClosed(e.f, c, o) : q \in WriteBehindAt(s, w)
        BY <2>2, <3>2 DEF FilledWriteAt
      <4> HIDE DEF c
      <4>3. Settled(s, c) /\ s.f.last # "in" /\ s.out = <<>>
        BY <2>3, <3>2, <4>1, <4>2, GapClosedFacts
      <4>4. Settled(q, c) /\ Len(q.out) <= Len(w)
        BY <4>2, <4>3, WriteBehindAtFacts
      <4> QED
        BY <4>1, <4>4 DEF Settled, Fit
    <3> QED
      BY <3>1, <3>2
  <2>5. Settled(r, b) /\ r.out = q.out
    BY <1>0, <2>2, <2>4, RestoredFacts
  <2> QED
    BY <2>4, <2>5
<1> QED
  BY <1>1, <1>2


-----------------------------------------------------------------------------
(* Memory, osd_file, the Rust caller's object, core_file *)

LEMMA JoinFacts ==
  ASSUME NEW s \in Bytes, NEW u \in Bytes
  PROVE  /\ s \o u \in Bytes /\ Len(s \o u) = Len(s) + Len(u) /\ Len(s) \in Nat /\ Len(u) \in Nat
         /\ s \o u = <<>> => s = <<>> /\ u = <<>>
<1>1. s \o u \in Bytes /\ Len(s \o u) = Len(s) + Len(u) /\ Len(s) \in Nat /\ Len(u) \in Nat
  BY DEF Bytes
<1>2. ASSUME s \o u = <<>> PROVE s = <<>> /\ u = <<>>
  <2>1. Len(s) = 0 /\ Len(u) = 0
    BY <1>1, <1>2
  <2> QED
    BY <2>1 DEF Bytes
<1> QED
  BY <1>1, <1>2

\* What a read that starts at o gives, of at most n bytes: the file keeps its bytes, the
\* pointer stays, and nothing comes with success only where the adapter's end is reached.
ReadFrom(r, g, b, o, n, end) ==
  /\ Fit(r, b) /\ r.f.data = g.data /\ r.a.ptr = b.ptr /\ Len(r.out) <= n
  /\ r.err = "ok" /\ r.out = <<>> /\ n > 0 => o >= end

LEMMA RamReadFacts ==
  ASSUME NEW g \in Hosts, NEW b \in Adapters, Defined(g), NEW o \in Nat, NEW n \in Nat,
         NEW r \in RamReadAt(g, b, o, n)
  PROVE  ReadFrom(r, g, b, o, n, Len(g.data)) /\ r.a = b
<1>1. r = R(g, b, "ok", Piece(g.data, o, n))
  BY DEF RamReadAt
<1>2. r.f = g /\ r.a = b /\ r.err = "ok" /\ r.out = Piece(g.data, o, n)
  BY <1>1 DEF R
<1> DEFINE p == Piece(g.data, o, n)
<1>3. p \in Bytes /\ Len(p) <= n /\ (p = <<>> /\ n > 0 => o >= Len(g.data))
  BY HostFields, PieceFacts
<1>4. r.out = p
  BY <1>2
<1> HIDE DEF p
<1> QED
  BY <1>2, <1>3, <1>4, NothingFacts DEF ReadFrom, Fit

\* A file whose descriptor the model has no other name for is read after its position was
\* set, and written after its position was set: never in the middle of the other.
LEMMA OsdReadFacts ==
  ASSUME ~OsdSeekFails, NEW g \in Hosts, Defined(g), NEW o \in Nat, NEW n \in Nat,
         NEW r \in OsdRead(g, o, n)
  PROVE  /\ r.f \in Hosts /\ r.f.data = g.data /\ Defined(r.f) /\ r.err \in Errors
         /\ r.out \in Bytes /\ Len(r.out) <= n
         /\ r.err = "ok" /\ r.out = <<>> /\ n > 0 => o >= Len(g.data)
<1>1. PICK s \in OsdSeek(g, o) : r \in OsdTransfer(Fread(s.f, n), n)
  BY DEF OsdRead
<1>2. s \in Fseek(g, o) /\ s.err = "ok"
  BY DEF OsdSeek
<1>3. /\ s.f \in Hosts /\ s.f.data = g.data /\ Defined(s.f) /\ s.f.last # "out"
      /\ s.f.pos = o
  BY <1>2, FseekFacts
<1>4. PICK q \in Fread(s.f, n) : r = Transferred(q, n)
  BY <1>1 DEF OsdTransfer
<1>5. /\ q.f \in Hosts /\ q.f.data = g.data /\ Defined(q.f) /\ q.out \in Bytes
      /\ Len(q.out) <= n /\ q.err \in Faults \union {"ok"}
      /\ q.err = "ok" /\ q.out = <<>> /\ n > 0 => o >= Len(g.data)
  BY <1>3, <1>4, FreadFacts
<1>6. r.f = q.f /\ r.out = q.out /\ r.err \in {q.err, "io"}
  BY <1>4 DEF Transferred, Out
<1> QED
  BY <1>5, <1>6 DEF Errors

LEMMA OsdWriteFacts ==
  ASSUME ~OsdSeekFails, NEW g \in Hosts, Defined(g), NEW o \in Nat, NEW w \in Bytes,
         NEW r \in OsdWrite(g, o, w)
  PROVE  /\ r.f \in Hosts /\ Defined(r.f) /\ r.err \in Errors
         /\ r.out \in Bytes /\ Len(r.out) <= Len(w)
<1>1. PICK s \in OsdSeek(g, o) : r \in OsdTransfer(Fwrite(s.f, w), Len(w))
  BY DEF OsdWrite
<1>2. s \in Fseek(g, o) /\ s.err = "ok"
  BY DEF OsdSeek
<1>3. s.f \in Hosts /\ Defined(s.f) /\ s.f.last # "in"
  BY <1>2, FseekFacts
<1>4. PICK q \in Fwrite(s.f, w) : r = Transferred(q, Len(w))
  BY <1>1 DEF OsdTransfer
<1>5. /\ q.f \in Hosts /\ Defined(q.f) /\ q.out \in Bytes
      /\ Len(q.out) <= Len(w) /\ q.err \in Faults \union {"ok"}
  BY <1>3, <1>4, FwriteFacts
<1>6. r.f = q.f /\ r.out = q.out /\ r.err \in {q.err, "io"}
  BY <1>4 DEF Transferred, Out
<1> QED
  BY <1>5, <1>6 DEF Errors

LEMMA OsdReadAtFacts ==
  ASSUME ~OsdSeekFails, NEW g \in Hosts, NEW b \in Adapters, Defined(g), NEW o \in Nat,
         NEW n \in Nat, NEW r \in OsdReadAt(g, b, o, n)
  PROVE  ReadFrom(r, g, b, o, n, Len(g.data)) /\ r.a = b
<1>1. PICK q \in OsdRead(g, o, n) : r = R(q.f, b, q.err, IF q.err = "ok" THEN q.out ELSE <<>>)
  BY DEF OsdReadAt
<1>2. /\ q.f \in Hosts /\ q.f.data = g.data /\ Defined(q.f) /\ q.err \in Errors
      /\ q.out \in Bytes /\ Len(q.out) <= n
      /\ q.err = "ok" /\ q.out = <<>> /\ n > 0 => o >= Len(g.data)
  BY OsdReadFacts
<1>3. r.f = q.f /\ r.a = b /\ r.err = q.err /\ r.out = IF q.err = "ok" THEN q.out ELSE <<>>
  BY <1>1 DEF R
<1> QED
  BY <1>2, <1>3, NothingFacts DEF ReadFrom, Fit

LEMMA OsdWriteAtFacts ==
  ASSUME ~OsdSeekFails, NEW g \in Hosts, NEW b \in Adapters, Defined(g), NEW o \in Nat,
         NEW w \in Bytes, NEW r \in OsdWriteAt(g, b, o, w)
  PROVE  Fit(r, b) /\ Len(r.out) <= Len(w)
<1>1. PICK q \in OsdWrite(g, o, w) : r = R(q.f, b, q.err, IF q.err = "ok" THEN q.out ELSE <<>>)
  BY DEF OsdWriteAt
<1>2. /\ q.f \in Hosts /\ Defined(q.f) /\ q.err \in Errors
      /\ q.out \in Bytes /\ Len(q.out) <= Len(w)
  BY OsdWriteFacts
<1>3. r.f = q.f /\ r.a = b /\ r.err = q.err /\ r.out = IF q.err = "ok" THEN q.out ELSE <<>>
  BY <1>1 DEF R
<1>4. Len(w) \in Nat
  BY DEF Bytes
<1> QED
  BY <1>2, <1>3, <1>4, NothingFacts DEF Fit

\* osd_file::flush, whose failure is not looked at; read and write set the position again.
LEMMA OsdFlushFacts ==
  ASSUME NEW g \in Hosts, Defined(g), NEW r \in OsdFlush(g)
  PROVE  r.f \in Hosts /\ Defined(r.f) /\ r.err \in Errors /\ r.out \in Bytes
<1>1. PICK q \in Fflush(g) : r = Out(q.f, "ok", <<>>)
  BY DEF OsdFlush
<1>2. r.f = q.f /\ r.err = "ok" /\ r.out = <<>>
  BY <1>1 DEF Out
<1> QED
  BY <1>2, FflushFacts, NothingFacts


LEMMA RustReadFacts ==
  ASSUME NEW g \in Hosts, NEW b \in Adapters, Defined(g), NEW o \in Nat, NEW n \in Nat,
         NEW r \in RustReadAt(g, b, o, n)
  PROVE  ReadFrom(r, g, b, o, n, Len(g.data)) /\ r.a = b
<1>1. CASE \E k \in Taken(n) : r = R(g, b, "ok", Piece(g.data, o, k))
  <2>1. PICK k \in Taken(n) : r = R(g, b, "ok", Piece(g.data, o, k))
    BY <1>1
  <2>2. k \in Nat /\ k <= n /\ (n > 0 => k > 0)
    BY DEF Taken
  <2> DEFINE p == Piece(g.data, o, k)
  <2>3. p \in Bytes /\ Len(p) \in Nat /\ Len(p) <= k /\ (p = <<>> /\ k > 0 => o >= Len(g.data))
    BY <2>2, HostFields, PieceFacts
  <2>4. r.f = g /\ r.a = b /\ r.err = "ok" /\ r.out = p
    BY <2>1 DEF R
  <2> HIDE DEF p
  <2> QED
    BY <2>2, <2>3, <2>4, NothingFacts DEF ReadFrom, Fit
<1>2. CASE \E k \in {0, n} : r = R(g, b, "io", Repeat(0, k))
  <2>1. PICK k \in {0, n} : r = R(g, b, "io", Repeat(0, k))
    BY <1>2
  <2> DEFINE p == Repeat(0, k)
  <2>2. p \in Bytes /\ Len(p) = k
    BY RepeatFacts
  <2>3. r.f = g /\ r.a = b /\ r.err = "io" /\ r.out = p
    BY <2>1 DEF R
  <2> HIDE DEF p
  <2> QED
    BY <2>2, <2>3 DEF ReadFrom, Fit, Errors
<1> QED
  BY <1>1, <1>2 DEF RustReadAt

LEMMA RustWriteFacts ==
  ASSUME NEW g \in Hosts, NEW b \in Adapters, Defined(g), NEW o \in Nat, NEW w \in Bytes,
         NEW r \in RustWriteAt(g, b, o, w)
  PROVE  Fit(r, b) /\ Len(r.out) <= Len(w)
<1>0. Len(w) \in Nat /\ g.data \in Bytes
  BY HostFields DEF Bytes
<1>1. CASE \E k \in Taken(Len(w)) :
             r = R([g EXCEPT !.data = Overlay(@, o, SubSeq(w, 1, k), 0)], b, "ok", SubSeq(w, 1, k))
  <2>1. PICK k \in Taken(Len(w)) :
             r = R([g EXCEPT !.data = Overlay(@, o, SubSeq(w, 1, k), 0)], b, "ok", SubSeq(w, 1, k))
    BY <1>1
  <2>2. k \in Nat /\ k <= Len(w)
    BY <1>0 DEF Taken
  <2> DEFINE u == SubSeq(w, 1, k)
             d == Overlay(g.data, o, u, 0)
  <2>3. u \in Bytes /\ Len(u) = k
    BY <2>2, SubSeqFacts
  <2>4. r.f = [g EXCEPT !.data = d] /\ r.a = b /\ r.err = "ok" /\ r.out = u
    BY <2>1 DEF R
  <2> HIDE DEF u
  <2>5. d \in Bytes
    BY <1>0, <2>3, OverlayType
  <2> HIDE DEF d
  <2>6. r.f \in Hosts /\ Defined(r.f)
    BY <2>4, <2>5, DataFacts
  <2> QED
    BY <2>2, <2>3, <2>4, <2>6, NothingFacts DEF Fit
<1>2. CASE \E k \in {0, Len(w)} : r = R(g, b, "io", Repeat(0, k))
  <2>1. PICK k \in {0, Len(w)} : r = R(g, b, "io", Repeat(0, k))
    BY <1>2
  <2> DEFINE p == Repeat(0, k)
  <2>2. p \in Bytes /\ Len(p) = k
    BY <1>0, RepeatFacts
  <2>3. r.f = g /\ r.a = b /\ r.err = "io" /\ r.out = p
    BY <2>1 DEF R
  <2> HIDE DEF p
  <2> QED
    BY <1>0, <2>2, <2>3 DEF Fit, Errors
<1> QED
  BY <1>1, <1>2 DEF RustWriteAt

LEMMA MemoryReadFacts ==
  ASSUME NEW g \in Hosts, NEW b \in Adapters, Defined(g), NEW o \in Nat, NEW n \in Nat,
         NEW r \in MemoryReadAt(g, b, o, n)
  PROVE  ReadFrom(r, g, b, o, n, Least(b.size, Len(g.data))) /\ r.a = b
<1>0. g.data \in Bytes /\ Len(g.data) \in Nat /\ b.size \in Nat
  BY HostFields, AdapterFields
<1> DEFINE m == Least(b.size - o, n)
           p == [k \in 1..m |-> IF o + k <= Len(g.data) THEN g.data[o + k] ELSE Garbage]
<1>1. CASE o < b.size
  <2>1. r = R(g, b, "ok", p)
    BY <1>1 DEF MemoryReadAt
  <2>2. m \in Nat /\ m <= n /\ (n > 0 => m > 0)
    BY <1>0, <1>1 DEF Least
  <2> HIDE DEF m
  <2>3. \A k \in 1..m : (IF o + k <= Len(g.data) THEN g.data[o + k] ELSE Garbage) \in Nat
    <3>1. ASSUME NEW k \in 1..m, o + k <= Len(g.data) PROVE g.data[o + k] \in Nat
      <4>1. o + k \in 1..Len(g.data)
        BY <1>0, <2>2, <3>1
      <4> QED
        BY <1>0, <4>1 DEF Bytes
    <3> QED
      BY <3>1, BufferAssumption
  <2>4. p \in Bytes /\ Len(p) = m
    BY <2>2, <2>3 DEF Bytes
  <2>5. r.f = g /\ r.a = b /\ r.err = "ok" /\ r.out = p
    BY <2>1, Zenon DEF R
  <2> HIDE DEF p
  <2> QED
    BY <2>2, <2>4, <2>5, NothingFacts DEF ReadFrom, Fit
<1>2. CASE ~(o < b.size)
  <2>1. r = R(g, b, "ok", <<>>)
    BY <1>2 DEF MemoryReadAt
  <2>2. r.f = g /\ r.a = b /\ r.err = "ok" /\ r.out = <<>>
    BY <2>1 DEF R
  <2>3. o >= Least(b.size, Len(g.data))
    BY <1>0, <1>2 DEF Least
  <2> QED
    BY <2>2, <2>3, NothingFacts DEF ReadFrom, Fit
<1> QED
  BY <1>1, <1>2

\* core_osd_file: the buffer is whatever the last read of the file left in it.
LEMMA BufferFacts ==
  ASSUME NEW b \in Adapters, NEW o \in Nat, NEW d \in Bytes
  PROVE  /\ [b EXCEPT !.base = o, !.buffer = d] \in Adapters
         /\ [b EXCEPT !.base = o, !.buffer = d].filler = b.filler
         /\ [b EXCEPT !.base = o, !.buffer = d].ptr = b.ptr
         /\ [b EXCEPT !.buffer = d] \in Adapters /\ [b EXCEPT !.buffer = d].filler = b.filler
BY DEF Adapters

LEMMA CoreReadFacts ==
  ASSUME ~OsdSeekFails, NEW g \in Hosts, NEW b \in Adapters, Defined(g), NEW o \in Nat,
         NEW n \in Nat, NEW r \in CoreReadSomeAt(g, b, o, n)
  PROVE  ReadFrom(r, g, b, o, n, Len(g.data))
<1> DEFINE got == Buffered(b, o, n)
<1>1. got \in Bytes /\ Len(got) \in Nat /\ Len(got) <= n
  <2>1. b.base \in Nat /\ b.buffer \in Bytes
    BY AdapterFields
  <2>2. CASE o >= b.base /\ o < b.base + Len(b.buffer)
    <3>1. o - b.base \in Nat
      BY <2>1, <2>2
    <3>2. got = Piece(b.buffer, o - b.base, n)
      BY <2>2 DEF Buffered
    <3> HIDE DEF got
    <3> QED
      BY <2>1, <3>1, <3>2, PieceFacts
  <2>3. CASE ~(o >= b.base /\ o < b.base + Len(b.buffer))
    <3>1. got = <<>>
      BY <2>3 DEF Buffered
    <3> HIDE DEF got
    <3> QED
      BY <3>1, NothingFacts
  <2> QED
    BY <2>2, <2>3
<1>2. r \in CoreRest(g, b, o, n, got)
  BY DEF CoreReadSomeAt
<1> HIDE DEF got
<1> DEFINE p == o + Len(got)
           m == n - Len(got)
<1>3. p \in Nat /\ m \in Nat /\ p >= o /\ BufferSize \in Nat /\ BufferSize > 0
  BY <1>1, BufferAssumption
<1>4. CASE Len(got) = n
  <2>1. r = R(g, b, "ok", got)
    BY <1>2, <1>4 DEF CoreRest
  <2>2. r.f = g /\ r.a = b /\ r.err = "ok" /\ r.out = got
    BY <2>1 DEF R
  <2> QED
    BY <1>1, <1>4, <2>2, NothingFacts DEF ReadFrom, Fit
<1>5. CASE r \in Refill(g, b, p, m, got) /\ Len(got) # n
  <2>1. PICK q \in OsdRead(g, p, BufferSize) :
          r = IF q.err = "ok" THEN R(q.f, [b EXCEPT !.base = p, !.buffer = q.out], "ok",
                                     got \o Piece(q.out, 0, m))
              ELSE R(q.f, [b EXCEPT !.base = p, !.buffer = <<>>], q.err, got)
    BY <1>5 DEF Refill
  <2> HIDE DEF p, m
  <2>2. /\ q.f \in Hosts /\ q.f.data = g.data /\ Defined(q.f) /\ q.err \in Errors
        /\ q.out \in Bytes
        /\ q.err = "ok" /\ q.out = <<>> => p >= Len(g.data)
    BY <1>3, OsdReadFacts
  <2>3. CASE q.err = "ok"
    <3> DEFINE u == Piece(q.out, 0, m)
               c == [b EXCEPT !.base = p, !.buffer = q.out]
    <3>1. /\ u \in Bytes /\ Len(u) \in Nat /\ Len(u) <= m
          /\ u = <<>> /\ m > 0 => 0 >= Len(q.out)
      BY <1>3, <2>2, PieceFacts
    <3>2. c \in Adapters /\ c.filler = b.filler /\ c.ptr = b.ptr
      BY <1>3, <2>2, BufferFacts
    <3>3. r.f = q.f /\ r.a = c /\ r.err = "ok" /\ r.out = got \o u
      BY <2>1, <2>3 DEF R
    <3> HIDE DEF u, c
    <3>4. /\ got \o u \in Bytes /\ Len(got \o u) = Len(got) + Len(u)
          /\ got \o u = <<>> => got = <<>> /\ u = <<>>
      BY <1>1, <3>1, JoinFacts
    <3>5. Len(got \o u) <= n
      BY <1>1, <3>1, <3>4 DEF m
    <3>6. got = <<>> /\ u = <<>> /\ n > 0 => o >= Len(g.data)
      <4>1. ASSUME got = <<>>, u = <<>>, n > 0 PROVE o >= Len(g.data)
        <5>1. m > 0 /\ p = o
          BY <4>1, NothingFacts DEF m, p
        <5>2. q.out = <<>>
          BY <2>2, <3>1, <4>1, <5>1 DEF Bytes
        <5> QED
          BY <2>2, <2>3, <5>1, <5>2
      <4> QED
        BY <4>1
    <3> QED
      BY <2>2, <3>2, <3>3, <3>4, <3>5, <3>6, NothingFacts DEF ReadFrom, Fit
  <2>4. CASE q.err # "ok"
    <3> DEFINE c == [b EXCEPT !.base = p, !.buffer = <<>>]
    <3>1. c \in Adapters /\ c.filler = b.filler /\ c.ptr = b.ptr
      BY <1>3, NothingFacts, BufferFacts, ZenonT(60)
    <3>2. r.f = q.f /\ r.a = c /\ r.err = q.err /\ r.out = got
      BY <2>1, <2>4 DEF R
    <3> HIDE DEF c
    <3> QED
      BY <1>1, <2>2, <2>4, <3>1, <3>2 DEF ReadFrom, Fit
  <2> QED
    BY <2>3, <2>4
<1>6. CASE r \in Direct(g, b, p, m, got) /\ Len(got) # n
  <2>1. PICK q \in OsdRead(g, p, m) :
          r = R(q.f, b, q.err, IF q.err = "ok" THEN got \o q.out ELSE got)
    BY <1>6 DEF Direct
  <2> HIDE DEF p, m
  <2>2. /\ q.f \in Hosts /\ q.f.data = g.data /\ Defined(q.f) /\ q.err \in Errors
        /\ q.out \in Bytes /\ Len(q.out) <= m
        /\ q.err = "ok" /\ q.out = <<>> /\ m > 0 => p >= Len(g.data)
    BY <1>3, OsdReadFacts
  <2>3. /\ r.f = q.f /\ r.a = b /\ r.err = q.err
        /\ r.out = IF q.err = "ok" THEN got \o q.out ELSE got
    BY <2>1 DEF R
  <2>4. /\ got \o q.out \in Bytes /\ Len(got \o q.out) = Len(got) + Len(q.out)
        /\ got \o q.out = <<>> => got = <<>> /\ q.out = <<>>
    BY <1>1, <2>2, JoinFacts
  <2>5. Len(got \o q.out) <= n
    BY <1>1, <2>2, <2>4, JoinFacts DEF m
  <2>6. got = <<>> /\ n > 0 => m > 0 /\ p = o
    BY NothingFacts DEF m, p
  <2> QED
    BY <1>1, <2>2, <2>3, <2>4, <2>5, <2>6 DEF ReadFrom, Fit
<1>7. Len(got) = n \/ r \in Refill(g, b, p, m, got) \/ r \in Direct(g, b, p, m, got)
  BY <1>2 DEF CoreRest
<1> QED
  BY <1>4, <1>5, <1>6, <1>7


LEMMA SizeFacts ==
  ASSUME NEW b \in Adapters, NEW n \in Nat
  PROVE  /\ [b EXCEPT !.size = n] \in Adapters /\ [b EXCEPT !.size = n].filler = b.filler
         /\ [b EXCEPT !.buffer = <<>>, !.size = n] \in Adapters
         /\ [b EXCEPT !.buffer = <<>>, !.size = n].filler = b.filler
BY NothingFacts DEF Adapters

LEMMA CoreWriteFacts ==
  ASSUME ~OsdSeekFails, NEW g \in Hosts, NEW b \in Adapters, Defined(g), NEW o \in Nat,
         NEW w \in Bytes, NEW r \in CoreWriteSomeAt(g, b, o, w)
  PROVE  Fit(r, b) /\ Len(r.out) <= Len(w)
<1>1. PICK q \in OsdWrite(g, o, w) :
        r = IF q.err = "ok" THEN R(q.f, [b EXCEPT !.buffer = <<>>, !.size = Most(@, o + Len(q.out))], "ok", q.out)
            ELSE R(q.f, [b EXCEPT !.buffer = <<>>], q.err, <<>>)
  BY DEF CoreWriteSomeAt
<1>2. /\ q.f \in Hosts /\ Defined(q.f) /\ q.err \in Errors
      /\ q.out \in Bytes /\ Len(q.out) <= Len(w)
  BY OsdWriteFacts
<1>3. Len(w) \in Nat /\ Len(q.out) \in Nat /\ b.size \in Nat
  BY <1>2, AdapterFields DEF Bytes
<1>4. CASE q.err = "ok"
  <2> DEFINE n == Most(b.size, o + Len(q.out))
             c == [b EXCEPT !.buffer = <<>>, !.size = n]
  <2>1. n \in Nat
    BY <1>3 DEF Most
  <2>2. r.f = q.f /\ r.a = c /\ r.err = "ok" /\ r.out = q.out
    BY <1>1, <1>4 DEF R
  <2> HIDE DEF n
  <2>3. c \in Adapters /\ c.filler = b.filler
    BY <2>1, SizeFacts
  <2> HIDE DEF c
  <2> QED
    BY <1>2, <2>2, <2>3, NothingFacts DEF Fit
<1>5. CASE q.err # "ok"
  <2> DEFINE c == [b EXCEPT !.buffer = <<>>]
  <2>1. r.f = q.f /\ r.a = c /\ r.err = q.err /\ r.out = <<>>
    BY <1>1, <1>5 DEF R
  <2>2. c \in Adapters /\ c.filler = b.filler
    BY NothingFacts, BufferFacts
  <2> HIDE DEF c
  <2> QED
    BY <1>2, <1>3, <2>1, <2>2, NothingFacts DEF Fit
<1> QED
  BY <1>4, <1>5

LEMMA GrownFacts ==
  ASSUME NEW s \in Bytes, NEW n \in Nat, n >= Len(s)
  PROVE  Grown(s, n) \in Bytes /\ Len(Grown(s, n)) = n
<1>1. Len(s) \in Nat /\ n - Len(s) \in Nat
  BY DEF Bytes
<1> DEFINE u == Repeat(0, n - Len(s))
<1>2. u \in Bytes /\ Len(u) = n - Len(s)
  BY <1>1, RepeatFacts
<1> HIDE DEF u
<1>3. s \o u \in Bytes /\ Len(s \o u) = Len(s) + Len(u)
  BY <1>2, JoinFacts
<1> QED
  BY <1>1, <1>2, <1>3 DEF Grown, u

LEMMA CoreTruncateFacts ==
  ASSUME NEW g \in Hosts, NEW b \in Adapters, Defined(g), NEW n \in Nat,
         NEW r \in CoreTruncate(g, b, n)
  PROVE  Fit(r, b)
<1>0. g.data \in Bytes /\ Len(g.data) \in Nat
  BY HostFields
<1>1. PICK t \in OsdTruncate(g, n) :
        r = R(t.f, IF t.err = "ok" THEN [b EXCEPT !.size = n] ELSE b, t.err, <<>>)
  BY DEF CoreTruncate
<1>2. t.f \in Hosts /\ Defined(t.f) /\ t.err \in Errors
  <2> DEFINE d == IF n <= Len(g.data) THEN SubSeq(g.data, 1, n) ELSE Grown(g.data, n)
  <2>1. CASE t = Out([g EXCEPT !.data = d], "ok", <<>>)
    <3>1. d \in Bytes
      <4>1. CASE n <= Len(g.data)
        BY <1>0, <4>1, SubSeqFacts
      <4>2. CASE ~(n <= Len(g.data))
        BY <1>0, <4>2, GrownFacts
      <4> QED
        BY <4>1, <4>2
    <3>2. t.f = [g EXCEPT !.data = d] /\ t.err = "ok"
      BY <2>1 DEF Out
    <3> HIDE DEF d
    <3> QED
      BY <3>1, <3>2, DataFacts, NothingFacts
  <2>2. CASE t \in Fail(g)
    <3>1. t.f = g /\ t.err \in Faults
      BY <2>2 DEF Fail, Out
    <3> QED
      BY <3>1, NothingFacts
  <2> QED
    BY <2>1, <2>2 DEF OsdTruncate
<1>3. r.f = t.f /\ r.a \in {b, [b EXCEPT !.size = n]} /\ r.err = t.err /\ r.out = <<>>
  BY <1>1 DEF R
<1>4. r.a \in Adapters /\ r.a.filler = b.filler
  BY <1>3, SizeFacts
<1> QED
  BY <1>2, <1>3, <1>4, NothingFacts DEF Fit

LEMMA CoreFlushFacts ==
  ASSUME NEW g \in Hosts, NEW b \in Adapters, Defined(g), NEW r \in CoreFlush(g, b)
  PROVE  Fit(r, b)
<1>1. PICK q \in OsdFlush(g) : r = R(q.f, [b EXCEPT !.buffer = <<>>], q.err, <<>>)
  BY DEF CoreFlush
<1> DEFINE c == [b EXCEPT !.buffer = <<>>]
<1>2. c \in Adapters /\ c.filler = b.filler
  BY NothingFacts, BufferFacts
<1>3. r.f = q.f /\ r.a = c /\ r.err = q.err /\ r.out = <<>>
  BY <1>1 DEF R
<1> HIDE DEF c
<1>4. q.f \in Hosts /\ Defined(q.f) /\ q.err \in Errors
  BY <1>1, OsdFlushFacts
<1> QED
  BY <1>2, <1>3, <1>4, NothingFacts DEF Fit

LEMMA MemoryTruncateFacts ==
  ASSUME NEW g \in Hosts, NEW b \in Adapters, Defined(g), NEW n \in Nat,
         NEW r \in MemoryTruncate(g, b, n)
  PROVE  Fit(r, b)
<1>1. r = IF b.size < n THEN R(g, b, "io", <<>>) ELSE R(g, [b EXCEPT !.size = n], "ok", <<>>)
  BY DEF MemoryTruncate
<1>2. /\ r.f = g /\ r.a \in {b, [b EXCEPT !.size = n]} /\ r.err \in {"io", "ok"}
      /\ r.out = <<>>
  BY <1>1 DEF R
<1>4. [b EXCEPT !.size = n] \in Adapters /\ [b EXCEPT !.size = n].filler = b.filler
  BY SizeFacts
<1>3. r.a \in Adapters /\ r.a.filler = b.filler
  BY <1>2, <1>4
<1> QED
  BY <1>2, <1>3, NothingFacts DEF Fit, Errors

\* seek of the adapters with a pointer of their own.
LEMMA PointerFacts ==
  ASSUME NEW b \in Adapters, NEW n \in Nat
  PROVE  /\ [b EXCEPT !.ptr = n] \in Adapters /\ [b EXCEPT !.ptr = n].filler = b.filler
         /\ [b EXCEPT !.ptr = n].ptr = n
         /\ [b EXCEPT !.ptr = n].size = b.size /\ [b EXCEPT !.ptr = n].elements = b.elements
BY DEF Adapters

LEMMA PointerSeekFacts ==
  ASSUME NEW b \in Adapters, NEW from \in Int, NEW offset \in Int
  PROVE  /\ PointerSeek(b, from, offset).a \in Adapters
         /\ PointerSeek(b, from, offset).a.filler = b.filler
         /\ PointerSeek(b, from, offset).a.size = b.size
         /\ PointerSeek(b, from, offset).a.elements = b.elements
         /\ PointerSeek(b, from, offset).err \in Errors
<1>1. CASE from + offset \in 0..Top
  <2>1. from + offset \in Nat
    BY <1>1, WidthAssumption
  <2>2. PointerSeek(b, from, offset) = [a |-> [b EXCEPT !.ptr = from + offset], err |-> "ok"]
    BY <1>1 DEF PointerSeek
  <2>3. /\ PointerSeek(b, from, offset).a = [b EXCEPT !.ptr = from + offset]
        /\ PointerSeek(b, from, offset).err = "ok"
    BY <2>2
  <2> QED
    BY <2>1, <2>3, PointerFacts, NothingFacts
<1>2. CASE from + offset \notin 0..Top
  BY <1>2 DEF PointerSeek, Errors
<1> QED
  BY <1>1, <1>2

LEMMA RustSeekFacts ==
  ASSUME NEW b \in Adapters, NEW from \in Int, NEW offset \in Int
  PROVE  /\ RustSeek(b, from, offset).a \in Adapters
         /\ RustSeek(b, from, offset).a.filler = b.filler
         /\ RustSeek(b, from, offset).err \in Errors
<1>1. (from + offset) % (Top + 1) \in Nat
  BY WidthAssumption
<1>2. /\ RustSeek(b, from, offset).a = [b EXCEPT !.ptr = (from + offset) % (Top + 1)]
      /\ RustSeek(b, from, offset).err = "ok"
  BY DEF RustSeek
<1> QED
  BY <1>1, <1>2, PointerFacts, NothingFacts

LEMMA AddOffsetFacts ==
  ASSUME NEW b \in Adapters, NEW n \in Nat
  PROVE  /\ AddOffset(b, n) \in Adapters /\ AddOffset(b, n).filler = b.filler
         /\ AddOffset(b, n).ptr = b.ptr + n /\ AddOffset(b, n).size = Most(b.size, b.ptr + n)
<1>1. b.ptr \in Nat /\ b.size \in Nat /\ b.ptr + n \in Nat
  BY AdapterFields
<1>2. Most(b.size, b.ptr + n) \in Nat
  BY <1>1 DEF Most
<1> DEFINE m == Most(b.size, b.ptr + n)
<1>3. AddOffset(b, n) = [b EXCEPT !.ptr = b.ptr + n, !.size = m]
  BY DEF AddOffset
<1> HIDE DEF m
<1>4. m \in Nat
  BY <1>2 DEF m
<1>5. /\ AddOffset(b, n) \in Adapters /\ AddOffset(b, n).filler = b.filler
      /\ AddOffset(b, n).ptr = b.ptr + n /\ AddOffset(b, n).size = m
  BY <1>1, <1>3, <1>4 DEF Adapters
<1> QED
  BY <1>5 DEF m


-----------------------------------------------------------------------------
(* Vectors *)

LEMMA WidthFacts ==
  ASSUME NEW n \in Nat
  PROVE  /\ n \div Width \in Nat /\ (n \div Width) * Width <= n
         /\ n % Width = 0 => (n \div Width) * Width = n
         /\ (n * Width) % Width = 0
<1>1. Width \in Nat /\ Width > 0
  BY WidthAssumption
<1> QED
  BY <1>1

\* The bytes of the elements that hold n bytes.
LEMMA RequiredFacts ==
  ASSUME NEW n \in Nat, NEW m, m = ((n + Width - 1) \div Width) * Width
  PROVE  m \in Nat /\ m >= n /\ m % Width = 0
<1>1. Width \in Nat /\ Width > 0
  BY WidthAssumption
<1> DEFINE q == (n + Width - 1) \div Width
<1>2. q \in Nat /\ q * Width >= n
  BY <1>1
<1>3. m = q * Width
  OBVIOUS
<1> HIDE DEF q
<1>4. q * Width \in Nat
  BY <1>1, <1>2
<1> QED
  BY <1>2, <1>3, <1>4, WidthFacts

LEMMA OverlayLength ==
  ASSUME NEW s \in Bytes, NEW o \in Nat, NEW w \in Bytes, NEW b \in Nat,
         w # <<>> => o + Len(w) <= Len(s)
  PROVE  Len(Overlay(s, o, w, b)) = Len(s)
<1>1. Len(s) \in Nat /\ Len(w) \in Nat
  BY DEF Bytes
<1>2. CASE w = <<>>
  BY <1>2 DEF Overlay
<1>3. CASE w # <<>>
  <2>1. Most(Len(s), o + Len(w)) = Len(s)
    BY <1>1, <1>3 DEF Most
  <2> QED
    BY <1>1, <1>3, <2>1 DEF Overlay
<1> QED
  BY <1>2, <1>3

LEMMA ZeroedFacts ==
  ASSUME NEW s \in Bytes, NEW from \in Int, NEW to \in Int
  PROVE  Zeroed(s, from, to) \in Bytes /\ Len(Zeroed(s, from, to)) = Len(s)
<1>1. Len(s) \in Nat /\ DOMAIN s = 1..Len(s) /\ \A k \in 1..Len(s) : s[k] \in Nat
  BY DEF Bytes
<1>2. Zeroed(s, from, to) = [k \in 1..Len(s) |-> IF k > from /\ k <= to THEN 0 ELSE s[k]]
  BY <1>1 DEF Zeroed
<1>3. \A k \in 1..Len(s) : (IF k > from /\ k <= to THEN 0 ELSE s[k]) \in Nat
  BY <1>1
<1> QED
  BY <1>1, <1>2, <1>3 DEF Bytes

\* check_resized counts the elements again.
LEMMA CheckResizedFacts ==
  ASSUME NEW g \in Hosts, NEW b \in Adapters, Whole(g, b)
  PROVE  /\ CheckResized(g, b) \in Adapters /\ CheckResized(g, b).filler = b.filler
         /\ CheckResized(g, b).ptr = b.ptr
         /\ CheckResized(g, b).size <= Len(g.data)
         /\ CheckResized(g, b).elements = Len(g.data) \div Width
         /\ Whole(g, CheckResized(g, b))
<1>0. Len(g.data) \in Nat /\ b.size \in Nat
  BY HostFields, AdapterFields
<1> DEFINE e == Len(g.data) \div Width
<1>1. e \in Nat /\ e * Width = Len(g.data)
  BY <1>0, WidthFacts DEF Whole
<1>2. CASE e # b.elements
  <2>1. CheckResized(g, b) = [b EXCEPT !.elements = e, !.size = Len(g.data)]
    BY <1>2 DEF CheckResized
  <2> HIDE DEF e
  <2>2. /\ CheckResized(g, b) \in Adapters /\ CheckResized(g, b).filler = b.filler
        /\ CheckResized(g, b).ptr = b.ptr /\ CheckResized(g, b).size = Len(g.data)
        /\ CheckResized(g, b).elements = e
    BY <1>0, <1>1, <2>1 DEF Adapters
  <2> QED
    BY <1>0, <1>1, <2>2 DEF Whole, e
<1>3. CASE e = b.elements
  <2>1. CheckResized(g, b) = b
    BY <1>3 DEF CheckResized
  <2>2. b.size <= Len(g.data)
    BY <1>0, <1>1, <1>3 DEF Whole
  <2> QED
    BY <1>3, <2>1, <2>2
<1> QED
  BY <1>2, <1>3

\* What the adapter has counted it does not count again.
LEMMA CountedFacts ==
  ASSUME NEW g, NEW b, b.elements = Len(g.data) \div Width
  PROVE  CheckResized(g, b) = b
BY DEF CheckResized

LEMMA VecReadFacts ==
  ASSUME NEW g \in Hosts, NEW b \in Adapters, Defined(g), Whole(g, b), NEW o \in Nat,
         NEW n \in Nat, NEW r \in VecReadAt(g, b, o, n)
  PROVE  /\ ReadFrom(r, g, b, o, n, r.a.size) /\ Whole(r.f, r.a) /\ r.f = g
         /\ r.a.elements = Len(g.data) \div Width
<1> DEFINE c == CheckResized(g, b)
<1>1. /\ c \in Adapters /\ c.filler = b.filler /\ c.ptr = b.ptr /\ c.size <= Len(g.data)
      /\ c.elements = Len(g.data) \div Width /\ Whole(g, c)
  BY CheckResizedFacts
<1>2. r = VecRead(g, c, o, n)
  BY DEF VecReadAt
<1> HIDE DEF c
<1>3. g.data \in Bytes /\ Len(g.data) \in Nat /\ c.size \in Nat
  BY <1>1, HostFields, AdapterFields
<1> DEFINE s == SubSeq(g.data, 1, c.size)
           p == Piece(s, o, n)
<1>4. s \in Bytes /\ Len(s) = c.size
  BY <1>1, <1>3, SubSeqFacts
<1>5. r.f = g /\ r.a = c /\ r.err = "ok" /\ r.out = p
  BY <1>2 DEF VecRead, R
<1> HIDE DEF s
<1>6. p \in Bytes /\ Len(p) <= n /\ (p = <<>> /\ n > 0 => o >= Len(s))
  BY <1>4, PieceFacts
<1> HIDE DEF p
<1> QED
  BY <1>1, <1>4, <1>5, <1>6, NothingFacts DEF ReadFrom, Fit

\* What is written in storage s that has room up to limit.
LEMMA VecStoredFacts ==
  ASSUME NEW g \in Hosts, NEW b \in Adapters, Defined(g), NEW o \in Nat, NEW w \in Bytes,
         NEW s \in Bytes, Len(s) % Width = 0, b.size <= Len(s),
         NEW limit \in Nat, limit <= Len(s), limit <= o + Len(w),
         NEW err \in Errors
  PROVE  /\ Fit(VecStored(g, b, o, w, s, limit, err), b)
         /\ Whole(VecStored(g, b, o, w, s, limit, err).f, VecStored(g, b, o, w, s, limit, err).a)
         /\ Len(VecStored(g, b, o, w, s, limit, err).out) <= Len(w)
<1>0. Len(w) \in Nat /\ Len(s) \in Nat /\ b.size \in Nat
  BY AdapterFields DEF Bytes
<1> DEFINE took == IF limit > o THEN SubSeq(w, 1, limit - o) ELSE <<>>
           gap  == IF o > b.size THEN Least(Len(s), o) ELSE b.size
           z == Zeroed(s, b.size, gap)
           d == Overlay(z, o, took, 0)
           size == IF limit > o THEN Most(gap, limit) ELSE gap
           e == Len(s) \div Width
           c == [b EXCEPT !.elements = e, !.size = size]
           rc == IF err = "ok" /\ Len(took) < Len(w) THEN "nospace" ELSE err
<1>1. took \in Bytes /\ Len(took) <= Len(w) /\ (took # <<>> => o + Len(took) <= Len(s))
  <2>1. CASE limit > o
    <3>1. limit - o \in Nat /\ limit - o <= Len(w)
      BY <1>0, <2>1
    <3>2. SubSeq(w, 1, limit - o) \in Bytes /\ Len(SubSeq(w, 1, limit - o)) = limit - o
      BY <3>1, SubSeqFacts
    <3> QED
      BY <1>0, <2>1, <3>1, <3>2
  <2>2. CASE ~(limit > o)
    BY <1>0, <2>2, NothingFacts
  <2> QED
    BY <2>1, <2>2
<1>2. gap \in Nat /\ gap <= Len(s)
  BY <1>0 DEF Least
<1>3. size \in Nat /\ size <= Len(s)
  BY <1>0, <1>2 DEF Most
<1>4. e \in Nat /\ e * Width = Len(s)
  BY <1>0, WidthFacts
<1>5. rc \in Errors
  BY DEF Errors
<1>6. VecStored(g, b, o, w, s, limit, err) = R([g EXCEPT !.data = d], c, rc, took)
  BY DEF VecStored
<1> HIDE DEF took, gap, size, e, rc
<1>7. z \in Bytes /\ Len(z) = Len(s)
  BY <1>0, <1>2, ZeroedFacts
<1> HIDE DEF z
<1>8. d \in Bytes /\ Len(d) = Len(s)
  <2>1. d \in Bytes
    BY <1>1, <1>7, OverlayType
  <2>2. took # <<>> => o + Len(took) <= Len(z)
    BY <1>1, <1>7
  <2>3. Len(d) = Len(z)
    BY <1>1, <1>7, <2>2, OverlayLength
  <2> QED
    BY <1>7, <2>1, <2>3
<1> HIDE DEF d
<1>9. c \in Adapters /\ c.filler = b.filler /\ c.size = size /\ c.elements = e
  BY <1>3, <1>4 DEF Adapters
<1> HIDE DEF c
<1> DEFINE r == VecStored(g, b, o, w, s, limit, err)
<1>10. r.f = [g EXCEPT !.data = d] /\ r.a = c /\ r.err = rc /\ r.out = took
  BY <1>6 DEF R
<1> HIDE DEF r
<1>11. r.f \in Hosts /\ Defined(r.f) /\ r.f.data = d
  BY <1>8, <1>10, DataFacts
<1>12. Fit(r, b)
  BY <1>1, <1>5, <1>9, <1>10, <1>11 DEF Fit
<1>13. Whole(r.f, r.a)
  <2>1. Len(r.f.data) % Width = 0
    BY <1>8, <1>11
  <2>2. r.a.size <= r.a.elements * Width
    <3>1. r.a.size = size /\ r.a.elements = e
      BY <1>9, <1>10
    <3> QED
      BY <1>3, <1>4, <3>1
  <2> QED
    BY <2>1, <2>2 DEF Whole
<1>14. Len(r.out) <= Len(w)
  BY <1>1, <1>10
<1> QED
  BY <1>12, <1>13, <1>14 DEF r


LEMMA VecWriteFacts ==
  ASSUME NEW g \in Hosts, NEW b \in Adapters, Defined(g), Whole(g, b), NEW o \in Nat,
         NEW w \in Bytes, NEW r \in VecWriteAt(g, b, o, w)
  PROVE  Fit(r, b) /\ Whole(r.f, r.a) /\ Len(r.out) <= Len(w)
<1> DEFINE c == CheckResized(g, b)
           target == o + Len(w)
<1>0. Len(w) \in Nat /\ g.data \in Bytes /\ Len(g.data) \in Nat
  BY HostFields DEF Bytes
<1>1. /\ c \in Adapters /\ c.filler = b.filler /\ c.size <= Len(g.data)
      /\ c.elements = Len(g.data) \div Width /\ Whole(g, c)
  BY CheckResizedFacts
<1>2. r \in VecWrite(g, c, o, w, target)
  BY DEF VecWriteAt
<1> HIDE DEF c
<1>3. c.size \in Nat /\ Len(g.data) % Width = 0 /\ target \in Nat /\ target >= o
  BY <1>0, <1>1, AdapterFields DEF Whole
<1>4. SUFFICES Fit(r, c) /\ Whole(r.f, r.a) /\ Len(r.out) <= Len(w)
  BY <1>1 DEF Fit
<1>5. CASE target <= Len(g.data)
  <2> DEFINE d == Overlay(g.data, o, w, 0)
             n == IF w = <<>> THEN c.size ELSE Most(c.size, target)
  <2>1. r = VecInPlace(g, c, o, w, target)
    BY <1>2, <1>5 DEF VecWrite
  <2>2. d \in Bytes /\ Len(d) = Len(g.data)
    <3>1. d \in Bytes
      BY <1>0, OverlayType
    <3>2. w # <<>> => o + Len(w) <= Len(g.data)
      BY <1>5
    <3>3. Len(d) = Len(g.data)
      BY <1>0, <3>2, OverlayLength
    <3> QED
      BY <3>1, <3>3
  <2>3. n \in Nat /\ n <= Len(g.data)
    BY <1>0, <1>1, <1>3, <1>5 DEF Most
  <2>4. r.f = [g EXCEPT !.data = d] /\ r.a = [c EXCEPT !.size = n] /\ r.err = "ok" /\ r.out = w
    BY <2>1 DEF VecInPlace, R
  <2> HIDE DEF d, n
  <2>5. r.f \in Hosts /\ Defined(r.f) /\ r.f.data = d
    BY <2>2, <2>4, DataFacts
  <2>6. /\ r.a \in Adapters /\ r.a.filler = c.filler /\ r.a.size = n
        /\ r.a.elements = c.elements
    BY <1>1, <2>3, <2>4 DEF Adapters
  <2>7. Whole(r.f, r.a)
    <3>1. Len(r.f.data) % Width = 0
      BY <1>3, <2>2, <2>5
    <3>2. r.a.size <= r.a.elements * Width
      <4>1. (Len(g.data) \div Width) * Width = Len(g.data)
        BY <1>0, <1>3, WidthFacts
      <4> QED
        BY <1>1, <2>3, <2>6, <4>1
    <3> QED
      BY <3>1, <3>2 DEF Whole
  <2> QED
    BY <1>0, <2>4, <2>5, <2>6, <2>7, NothingFacts DEF Fit
<1>6. CASE ~(target <= Len(g.data))
  <2> DEFINE required == ((target + Width - 1) \div Width) * Width
             s == Grown(g.data, required)
             short == Least(target, Len(g.data))
  <2>1. required \in Nat /\ required >= target /\ required % Width = 0
    BY <1>3, RequiredFacts
  <2>2. \/ r = VecStored(g, c, o, w, s, target, "ok")
        \/ r = VecStored(g, c, o, w, g.data, short, "nomem")
    BY <1>2, <1>6 DEF VecWrite
  <2> HIDE DEF required
  <2>3. s \in Bytes /\ Len(s) = required
    BY <1>0, <1>3, <1>6, <2>1, GrownFacts
  <2>4. short \in Nat /\ short <= Len(g.data) /\ short <= target
    BY <1>0, <1>3 DEF Least
  <2> HIDE DEF s, short
  <2>5. CASE r = VecStored(g, c, o, w, s, target, "ok")
    <3>1. /\ Len(s) % Width = 0 /\ c.size <= Len(s) /\ target <= Len(s)
          /\ target <= o + Len(w)
      BY <1>0, <1>1, <1>3, <1>6, <2>1, <2>3
    <3>2. "ok" \in Errors
      BY DEF Errors
    <3> HIDE DEF target
    <3> QED
      BY <1>1, <1>3, <2>3, <2>5, <3>1, <3>2, VecStoredFacts
  <2>6. CASE r = VecStored(g, c, o, w, g.data, short, "nomem")
    <3>1. short <= o + Len(w)
      BY <2>4
    <3>2. "nomem" \in Errors
      BY DEF Errors
    <3> QED
      BY <1>0, <1>1, <1>3, <2>4, <2>6, <3>1, <3>2, VecStoredFacts
  <2> QED
    BY <2>2, <2>5, <2>6
<1> QED
  BY <1>5, <1>6


-----------------------------------------------------------------------------
(* The methods of an adapter of any kind *)

Good(k, g, b) == /\ k \in Kinds /\ g \in Hosts /\ b \in Adapters /\ Defined(g)
                 /\ b.filler = FillerOf(k)
                 /\ k \in Stdios => Clean(g, b)
                 /\ k \in Vectors => Whole(g, b)
Sound(k, r) == Good(k, r.f, r.a) /\ r.err \in Errors /\ r.out \in Bytes

\* Where the bytes of the adapter end.
EndOf(k, g, b) ==
  CASE k \in Vectors -> CheckResized(g, b).size
    [] k = "memory" -> Least(b.size, Len(g.data))
    [] OTHER -> Len(g.data)

LEMMA GoodFields ==
  ASSUME NEW k, NEW g, NEW b, Good(k, g, b)
  PROVE  /\ k \in AllKinds /\ g \in Hosts /\ b \in Adapters /\ Defined(g)
         /\ g.data \in Bytes /\ Len(g.data) \in Nat /\ g.pos \in Nat
         /\ b.ptr \in Nat /\ b.size \in Nat /\ b.filler \in Nat
         /\ b.filler = FillerOf(k)
         /\ k \in Stdios => Clean(g, b)
         /\ k \in Vectors => Whole(g, b)
BY KindAssumption, HostFields, AdapterFields DEF Good

LEMMA FitDone ==
  ASSUME NEW k, NEW g, NEW b, Good(k, g, b), NEW r, Fit(r, b),
         k \in Stdios => Clean(r.f, r.a), k \in Vectors => Whole(r.f, r.a)
  PROVE  Sound(k, r)
BY DEF Sound, Good, Fit

LEMMA KindsApart ==
  ASSUME NEW k
  PROVE  /\ k \in Rams => k \notin Stdios /\ k \notin Vectors /\ k # "memory"
         /\ k \in Vectors => k \notin Stdios /\ k \notin Rams
         /\ k \in Stdios => k \notin Vectors /\ k \notin Rams /\ k # "memory"
         /\ k = "osd" => k \notin Stdios /\ k \notin Vectors /\ k \notin Rams /\ k # "memory"
         /\ k = "rust" => k \notin Stdios /\ k \notin Vectors /\ k \notin Rams /\ k # "memory"
         /\ k \in Proxied => k \notin Stdios /\ k \notin Vectors /\ k \notin Rams /\ k # "memory"
         /\ k = "memory" => k \notin Stdios /\ k \notin Vectors /\ k \notin Rams
         /\ k \in AllKinds => \/ k \in Rams \/ k \in Vectors \/ k \in Stdios \/ k = "osd"
                              \/ k = "rust" \/ k \in Proxied \/ k = "memory"
BY DEF Rams, Vectors, Stdios, Proxied, AllKinds

\* Where an adapter is not one of a vector or of memory, the end is the file's.
LEMMA EndFacts ==
  ASSUME NEW k, NEW g, NEW b
  PROVE  /\ k \notin Vectors /\ k # "memory" => EndOf(k, g, b) = Len(g.data)
         /\ k = "memory" => EndOf(k, g, b) = Least(b.size, Len(g.data))
         /\ k \in Vectors => EndOf(k, g, b) = CheckResized(g, b).size
BY KindsApart DEF EndOf

\* read_some_at.
LEMMA ReadSomeAtFacts ==
  ASSUME ~OsdSeekFails, Good(kind, f, a), NEW o \in Nat, NEW n \in Nat, NEW r \in ReadSomeAt(o, n)
  PROVE  /\ Sound(kind, r) /\ Len(r.out) <= n
         /\ kind \notin Stdios => r.a.ptr = a.ptr
         /\ r.err = "ok" /\ r.out = <<>> /\ n > 0 => o >= EndOf(kind, r.f, r.a)
         /\ kind = "memory" => r.f = f /\ r.a = a
<1>1. /\ kind \in AllKinds /\ f \in Hosts /\ a \in Adapters /\ Defined(f)
      /\ (kind \in Stdios => Clean(f, a)) /\ (kind \in Vectors => Whole(f, a))
  BY GoodFields
<1>2. ASSUME kind \notin Stdios, kind \notin Vectors, kind # "memory",
             ReadFrom(r, f, a, o, n, Len(f.data))
      PROVE  /\ Sound(kind, r) /\ Len(r.out) <= n
             /\ kind \notin Stdios => r.a.ptr = a.ptr
             /\ r.err = "ok" /\ r.out = <<>> /\ n > 0 => o >= EndOf(kind, r.f, r.a)
  <2>1. /\ Fit(r, a) /\ r.f.data = f.data /\ r.a.ptr = a.ptr /\ Len(r.out) <= n
        /\ r.err = "ok" /\ r.out = <<>> /\ n > 0 => o >= Len(f.data)
    BY <1>2 DEF ReadFrom
  <2>2. EndOf(kind, r.f, r.a) = Len(f.data)
    BY <1>2, <2>1, EndFacts
  <2>3. Sound(kind, r)
    BY <1>2, <2>1, FitDone
  <2> QED
    BY <2>1, <2>2, <2>3
<1>3. CASE kind \in Rams
  <2>1. r \in RamReadAt(f, a, o, n)
    BY <1>3 DEF ReadSomeAt, Rams, Vectors, Stdios, Proxied
  <2> QED
    BY <1>1, <1>2, <1>3, <2>1, RamReadFacts, KindsApart
<1>4. CASE kind \in Vectors
  <2>1. r \in VecReadAt(f, a, o, n)
    BY <1>4 DEF ReadSomeAt, Rams, Vectors, Stdios, Proxied
  <2>2. /\ ReadFrom(r, f, a, o, n, r.a.size) /\ Whole(r.f, r.a) /\ r.f = f
        /\ r.a.elements = Len(f.data) \div Width
    BY <1>1, <1>4, <2>1, VecReadFacts
  <2>3. /\ Fit(r, a) /\ r.a.ptr = a.ptr /\ Len(r.out) <= n
        /\ r.err = "ok" /\ r.out = <<>> /\ n > 0 => o >= r.a.size
    BY <2>2 DEF ReadFrom
  <2>4. EndOf(kind, r.f, r.a) = r.a.size
    BY <1>4, <2>2, EndFacts, CountedFacts
  <2>5. kind \notin Stdios /\ kind # "memory"
    BY <1>4, KindsApart
  <2>6. Sound(kind, r)
    BY <2>2, <2>3, <2>5, FitDone
  <2> QED
    BY <2>3, <2>4, <2>5, <2>6
<1>5. CASE kind \in Stdios
  <2>1. r \in StdioReadSomeAt(f, a, o, n)
    BY <1>5 DEF ReadSomeAt, Rams, Vectors, Stdios, Proxied
  <2>2. /\ Settled(r, a) /\ r.f.data = f.data /\ Len(r.out) <= n
        /\ r.err = "ok" /\ r.out = <<>> /\ n > 0 => o >= Len(f.data)
    BY <1>1, <1>5, <2>1, StdioReadSomeAtFacts
  <2>3. kind \notin Vectors /\ kind # "memory"
    BY <1>5, KindsApart
  <2>4. Sound(kind, r)
    BY <2>2, <2>3, FitDone DEF Settled
  <2>5. EndOf(kind, r.f, r.a) = Len(f.data)
    BY <2>2, <2>3, EndFacts
  <2> QED
    BY <1>5, <2>2, <2>3, <2>4, <2>5
<1>6. CASE kind = "osd"
  <2>1. r \in OsdReadAt(f, a, o, n)
    BY <1>6 DEF ReadSomeAt, Rams, Vectors, Stdios, Proxied
  <2> QED
    BY <1>1, <1>2, <1>6, <2>1, OsdReadAtFacts, KindsApart
<1>7. CASE kind = "rust"
  <2>1. r \in RustReadAt(f, a, o, n)
    BY <1>7 DEF ReadSomeAt, Rams, Vectors, Stdios, Proxied
  <2> QED
    BY <1>1, <1>2, <1>7, <2>1, RustReadFacts, KindsApart
<1>8. CASE kind \in Proxied
  <2>1. r \in CoreReadSomeAt(f, a, o, n)
    BY <1>8 DEF ReadSomeAt, Rams, Vectors, Stdios, Proxied
  <2> QED
    BY <1>1, <1>2, <1>8, <2>1, CoreReadFacts, KindsApart
<1>9. CASE kind = "memory"
  <2>1. r \in MemoryReadAt(f, a, o, n)
    BY <1>9 DEF ReadSomeAt, Rams, Vectors, Stdios, Proxied
  <2>2. ReadFrom(r, f, a, o, n, Least(a.size, Len(f.data))) /\ r.a = a
    BY <1>1, <2>1, MemoryReadFacts
  <2>3. /\ Fit(r, a) /\ r.f.data = f.data /\ Len(r.out) <= n
        /\ r.err = "ok" /\ r.out = <<>> /\ n > 0 => o >= Least(a.size, Len(f.data))
    BY <2>2 DEF ReadFrom
  <2>4. kind \notin Stdios /\ kind \notin Vectors
    BY <1>9, KindsApart
  <2>5. Sound(kind, r)
    BY <2>3, <2>4, FitDone
  <2>6. EndOf(kind, r.f, r.a) = Least(a.size, Len(f.data))
    BY <1>9, <2>2, <2>3, EndFacts
  <2>7. r.f = f
    BY <2>1 DEF MemoryReadAt, R
  <2> QED
    BY <2>2, <2>3, <2>5, <2>6, <2>7
<1> QED
  BY <1>1, <1>3, <1>4, <1>5, <1>6, <1>7, <1>8, <1>9, KindsApart


\* The position of the next transfer.
At(k, g, b) == IF k \in Stdios THEN g.pos ELSE b.ptr

\* read_some moves the position on by what came.
LEMMA ReadSomeFacts ==
  ASSUME ~OsdSeekFails, Good(kind, f, a), NEW n \in Nat, NEW r \in ReadSome(n)
  PROVE  /\ Sound(kind, r) /\ Len(r.out) <= n
         /\ At(kind, r.f, r.a) = At(kind, f, a) + Len(r.out)
         /\ r.err = "ok" /\ r.out = <<>> /\ n > 0 => At(kind, f, a) >= EndOf(kind, r.f, r.a)
<1>1. /\ kind \in AllKinds /\ f \in Hosts /\ a \in Adapters /\ Defined(f)
      /\ (kind \in Stdios => Clean(f, a)) /\ a.ptr \in Nat
  BY GoodFields
<1>2. CASE kind \in Stdios
  <2>1. r \in StdioReadSome(f, a, n)
    BY <1>2, Zenon DEF ReadSome
  <2>2. /\ Settled(r, a) /\ r.f.data = f.data /\ Len(r.out) <= n
        /\ r.f.pos = f.pos + Len(r.out)
        /\ r.err = "ok" /\ r.out = <<>> /\ n > 0 => f.pos >= Len(f.data)
    BY <1>1, <1>2, <2>1, StdioReadSomeFacts
  <2>3. kind \notin Vectors /\ kind # "memory"
    BY <1>2, KindsApart
  <2>4. Sound(kind, r)
    BY <2>2, <2>3, FitDone DEF Settled
  <2>5. EndOf(kind, r.f, r.a) = Len(f.data)
    BY <2>2, <2>3, EndFacts
  <2>6. At(kind, f, a) = f.pos /\ At(kind, r.f, r.a) = r.f.pos
    BY <1>2 DEF At
  <2> QED
    BY <2>2, <2>4, <2>5, <2>6
<1>3. CASE kind \notin Stdios
  <2>1. PICK q \in ReadSomeAt(a.ptr, n) : r = Moved(q)
    BY <1>3 DEF ReadSome
  <2>2. /\ Sound(kind, q) /\ Len(q.out) <= n /\ q.a.ptr = a.ptr
        /\ q.err = "ok" /\ q.out = <<>> /\ n > 0 => a.ptr >= EndOf(kind, q.f, q.a)
    BY <1>1, <1>3, <2>1, ReadSomeAtFacts
  <2>3. /\ q.f \in Hosts /\ q.a \in Adapters /\ Defined(q.f) /\ Len(q.f.data) \in Nat
        /\ q.a.size \in Nat /\ q.err \in Errors /\ q.out \in Bytes /\ q.a.filler = FillerOf(kind)
        /\ (kind \in Vectors => Whole(q.f, q.a)) /\ kind \in Kinds
    BY <2>2, GoodFields DEF Sound, Good
  <2>4. Len(q.out) \in Nat
    BY <2>3 DEF Bytes
  <2>5. At(kind, f, a) = a.ptr /\ At(kind, r.f, r.a) = r.a.ptr
    BY <1>3 DEF At
  <2>6. CASE kind \in Proxied \union {"memory"}
    <3> DEFINE c == AddOffset(q.a, Len(q.out))
    <3>1. /\ c \in Adapters /\ c.filler = q.a.filler /\ c.ptr = q.a.ptr + Len(q.out)
          /\ c.size = Most(q.a.size, q.a.ptr + Len(q.out))
      BY <2>3, <2>4, AddOffsetFacts
    <3>2. r.f = q.f /\ r.a = c /\ r.err = q.err /\ r.out = q.out
      BY <2>1, <2>6, Zenon DEF Moved, R
    <3> HIDE DEF c
    <3>3. kind \notin Vectors
      BY <2>6, KindsApart
    <3>4. Sound(kind, r)
      BY <1>3, <2>3, <3>1, <3>2, <3>3 DEF Sound, Good
    <3>5. r.err = "ok" /\ r.out = <<>> /\ n > 0 => a.ptr >= EndOf(kind, r.f, r.a)
      <4>1. CASE kind \in Proxied
        <5>1. kind # "memory"
          BY <4>1, KindsApart
        <5>2. EndOf(kind, r.f, r.a) = Len(q.f.data) /\ EndOf(kind, q.f, q.a) = Len(q.f.data)
          BY <3>2, <3>3, <5>1, EndFacts
        <5> QED
          BY <2>2, <3>2, <5>2
      <4>2. CASE kind = "memory"
        <5>1. /\ EndOf(kind, r.f, r.a) = Least(c.size, Len(q.f.data))
              /\ EndOf(kind, q.f, q.a) = Least(q.a.size, Len(q.f.data))
          BY <3>2, <4>2, EndFacts
        <5>2. ASSUME r.err = "ok", r.out = <<>>, n > 0 PROVE a.ptr >= EndOf(kind, r.f, r.a)
          <6>1. c.size = Most(q.a.size, a.ptr)
            BY <1>1, <2>2, <3>1, <3>2, <5>2, NothingFacts
          <6>2. a.ptr >= Least(q.a.size, Len(q.f.data))
            BY <2>2, <3>2, <5>1, <5>2
          <6>3. a.ptr >= Least(Most(q.a.size, a.ptr), Len(q.f.data))
            BY <1>1, <2>3, <6>2 DEF Least, Most
          <6> QED
            BY <5>1, <6>1, <6>3
        <5> QED
          BY <5>2
      <4> QED
        BY <2>6, <4>1, <4>2
    <3> QED
      BY <2>2, <2>5, <3>1, <3>2, <3>4, <3>5
  <2>7. CASE kind \notin Proxied \union {"memory"}
    <3> DEFINE m == q.a.ptr + Len(q.out)
               c == [q.a EXCEPT !.ptr = m]
    <3>1. r.f = q.f /\ r.a = c /\ r.err = q.err /\ r.out = q.out
      BY <2>1, <2>7, Zenon DEF Moved, R
    <3>2. m \in Nat
      BY <1>1, <2>2, <2>4
    <3> HIDE DEF m
    <3>3. /\ c \in Adapters /\ c.filler = q.a.filler /\ c.ptr = m /\ c.size = q.a.size
          /\ c.elements = q.a.elements
      BY <2>3, <3>2, PointerFacts
    <3> HIDE DEF c
    <3>4. kind \in Vectors => Whole(r.f, r.a)
      BY <2>3, <3>1, <3>3 DEF Whole
    <3>5. Sound(kind, r)
      BY <1>3, <2>3, <3>1, <3>3, <3>4 DEF Sound, Good
    <3>6. EndOf(kind, r.f, r.a) = EndOf(kind, q.f, q.a)
      <4>1. CASE kind \in Vectors
        <5>1. EndOf(kind, r.f, r.a) = CheckResized(r.f, r.a).size
          BY <4>1, EndFacts
        <5>2. EndOf(kind, q.f, q.a) = CheckResized(q.f, q.a).size
          BY <4>1, EndFacts
        <5>3. q.a.elements = Len(q.f.data) \div Width
          <6>1. Whole(f, a)
            BY <4>1, GoodFields
          <6>2. q \in VecReadAt(f, a, a.ptr, n)
            BY <2>1, <4>1 DEF ReadSomeAt, Rams, Vectors, Stdios, Proxied
          <6> QED
            BY <1>1, <6>1, <6>2, VecReadFacts
        <5>4. CheckResized(q.f, q.a) = q.a /\ CheckResized(r.f, r.a) = r.a
          BY <3>1, <3>3, <5>3, CountedFacts
        <5> QED
          BY <3>1, <3>3, <5>1, <5>2, <5>4
      <4>2. CASE kind \notin Vectors
        <5>1. EndOf(kind, r.f, r.a) = Len(r.f.data) /\ EndOf(kind, q.f, q.a) = Len(q.f.data)
          BY <2>7, <4>2, EndFacts
        <5> QED
          BY <3>1, <5>1
      <4> QED
        BY <4>1, <4>2
    <3> QED
      BY <2>2, <2>5, <3>1, <3>3, <3>5, <3>6 DEF m
  <2> QED
    BY <2>6, <2>7
<1> QED
  BY <1>2, <1>3


\* random_write_fill_wrapper.
LEMMA FillWrapperFacts ==
  ASSUME Good(kind, f, a), kind \in Vectors, NEW o \in Nat, NEW w \in Bytes,
         NEW r \in FillWrapperWrite(o, w)
  PROVE  Fit(r, a) /\ Whole(r.f, r.a) /\ Len(r.out) <= Len(w)
<1> DEFINE b == CheckResized(f, a)
<1>1. f \in Hosts /\ a \in Adapters /\ Defined(f) /\ Whole(f, a)
  BY GoodFields
<1>2. b \in Adapters /\ b.filler = a.filler /\ Whole(f, b)
  BY <1>1, CheckResizedFacts
<1>3. \/ r \in VecWriteAt(f, b, o, w)
      \/ /\ ~(b.size >= o)
         /\ \E g \in VecWriteAt(f, b, b.size, Repeat(b.filler, o - b.size)) :
              r \in IF g.err = "ok" THEN VecWriteAt(g.f, g.a, o, w) ELSE {R(g.f, g.a, g.err, <<>>)}
  BY DEF FillWrapperWrite
<1> HIDE DEF b
<1>4. Len(w) \in Nat /\ b.size \in Nat /\ b.filler \in Nat
  BY <1>2, AdapterFields DEF Bytes
<1>5. CASE r \in VecWriteAt(f, b, o, w)
  <2>1. Fit(r, b) /\ Whole(r.f, r.a) /\ Len(r.out) <= Len(w)
    BY <1>1, <1>2, <1>5, VecWriteFacts
  <2> QED
    BY <1>2, <2>1 DEF Fit
<1>6. CASE /\ ~(b.size >= o)
           /\ \E g \in VecWriteAt(f, b, b.size, Repeat(b.filler, o - b.size)) :
                r \in IF g.err = "ok" THEN VecWriteAt(g.f, g.a, o, w) ELSE {R(g.f, g.a, g.err, <<>>)}
  <2> DEFINE u == Repeat(b.filler, o - b.size)
  <2>1. PICK g \in VecWriteAt(f, b, b.size, u) :
          r \in IF g.err = "ok" THEN VecWriteAt(g.f, g.a, o, w) ELSE {R(g.f, g.a, g.err, <<>>)}
    BY <1>6
  <2>2. u \in Bytes
    BY <1>4, RepeatFacts
  <2> HIDE DEF u
  <2>3. Fit(g, b) /\ Whole(g.f, g.a)
    BY <1>1, <1>2, <1>4, <2>1, <2>2, VecWriteFacts
  <2>4. /\ g.f \in Hosts /\ g.a \in Adapters /\ Defined(g.f) /\ g.a.filler = a.filler
        /\ g.err \in Errors
    BY <1>2, <2>3 DEF Fit
  <2>5. CASE g.err = "ok"
    <3>1. r \in VecWriteAt(g.f, g.a, o, w)
      BY <2>1, <2>5
    <3>2. Fit(r, g.a) /\ Whole(r.f, r.a) /\ Len(r.out) <= Len(w)
      BY <2>3, <2>4, <3>1, VecWriteFacts
    <3> QED
      BY <2>4, <3>2 DEF Fit
  <2>6. CASE g.err # "ok"
    <3>1. r = R(g.f, g.a, g.err, <<>>)
      BY <2>1, <2>6
    <3>2. r.f = g.f /\ r.a = g.a /\ r.err = g.err /\ r.out = <<>>
      BY <3>1 DEF R
    <3> QED
      BY <1>4, <2>3, <2>4, <3>2, NothingFacts DEF Fit
  <2> QED
    BY <2>5, <2>6
<1> QED
  BY <1>3, <1>5, <1>6

\* write_some_at.
LEMMA WriteSomeAtFacts ==
  ASSUME ~OsdSeekFails, Good(kind, f, a), NEW o \in Nat, NEW w \in Bytes,
         NEW r \in WriteSomeAt(o, w)
  PROVE  Sound(kind, r) /\ Len(r.out) <= Len(w)
<1>1. /\ kind \in AllKinds /\ f \in Hosts /\ a \in Adapters /\ Defined(f)
      /\ (kind \in Stdios => Clean(f, a)) /\ (kind \in Vectors => Whole(f, a))
  BY GoodFields
<1>2. Len(w) \in Nat
  BY DEF Bytes
<1>3. ASSUME kind \notin Stdios, kind \notin Vectors, Fit(r, a) PROVE Sound(kind, r)
  BY <1>3, FitDone
<1>4. CASE kind \in ReadOnly
  <2>1. r \in {R(f, a, "badf", <<>>)}
    BY <1>4 DEF WriteSomeAt, ReadOnly, Rams, Proxied
  <2>2. r.f = f /\ r.a = a /\ r.err = "badf" /\ r.out = <<>>
    BY <2>1 DEF R
  <2>3. Fit(r, a)
    BY <1>1, <2>2, NothingFacts DEF Fit, Errors
  <2>4. kind \notin Stdios /\ kind \notin Vectors
    BY <1>4, KindsApart DEF ReadOnly
  <2> QED
    BY <1>2, <1>3, <2>2, <2>3, <2>4, NothingFacts
<1>5. CASE kind \in Vectors
  <2>1. Fit(r, a) /\ Whole(r.f, r.a) /\ Len(r.out) <= Len(w)
    <3>1. CASE kind = "vec"
      <4>1. r \in VecWriteAt(f, a, o, w)
        BY <3>1 DEF WriteSomeAt, Proxied, ReadOnly, Rams
      <4> QED
        BY <1>1, <1>5, <4>1, VecWriteFacts
    <3>2. CASE kind = "vecfill"
      <4>1. r \in FillWrapperWrite(o, w)
        BY <3>2 DEF WriteSomeAt, Proxied, ReadOnly, Rams
      <4> QED
        BY <1>5, <4>1, FillWrapperFacts
    <3> QED
      BY <1>5, <3>1, <3>2 DEF Vectors
  <2>2. kind \notin Stdios
    BY <1>5, KindsApart
  <2>3. Sound(kind, r)
    BY <2>1, <2>2, FitDone
  <2> QED
    BY <2>1, <2>3
<1>6. CASE kind \in Stdios
  <2>1. Settled(r, a) /\ Len(r.out) <= Len(w)
    <3>1. CASE kind = "stdio"
      <4>1. r \in StdioWriteSomeAt(f, a, o, w)
        BY <3>1 DEF WriteSomeAt, Proxied, ReadOnly, Rams
      <4> QED
        BY <1>1, <1>6, <4>1, StdioWriteSomeAtFacts
    <3>2. CASE kind = "filler"
      <4>1. r \in FillerWriteSomeAt(f, a, o, w)
        BY <3>2 DEF WriteSomeAt, Proxied, ReadOnly, Rams
      <4> QED
        BY <1>1, <1>6, <4>1, FillerWriteSomeAtFacts
    <3> QED
      BY <1>6, <3>1, <3>2 DEF Stdios
  <2>2. kind \notin Vectors
    BY <1>6, KindsApart
  <2>3. Sound(kind, r)
    BY <2>1, <2>2, FitDone DEF Settled
  <2> QED
    BY <2>1, <2>3
<1>7. CASE kind = "osd"
  <2>1. r \in OsdWriteAt(f, a, o, w)
    BY <1>7 DEF WriteSomeAt, Proxied, ReadOnly, Rams
  <2> QED
    BY <1>1, <1>3, <1>7, <2>1, OsdWriteAtFacts, KindsApart
<1>8. CASE kind = "rust"
  <2>1. r \in RustWriteAt(f, a, o, w)
    BY <1>8 DEF WriteSomeAt, Proxied, ReadOnly, Rams
  <2> QED
    BY <1>1, <1>3, <1>8, <2>1, RustWriteFacts, KindsApart
<1>9. CASE kind \in Proxied
  <2>1. r \in CoreWriteSomeAt(f, a, o, w)
    BY <1>9 DEF WriteSomeAt, Proxied, ReadOnly, Rams
  <2> QED
    BY <1>1, <1>3, <1>9, <2>1, CoreWriteFacts, KindsApart
<1> QED
  BY <1>1, <1>4, <1>5, <1>6, <1>7, <1>8, <1>9, KindsApart DEF ReadOnly

\* write_some.
LEMMA WriteSomeFacts ==
  ASSUME ~OsdSeekFails, Good(kind, f, a), NEW w \in Bytes, NEW r \in WriteSome(w)
  PROVE  Sound(kind, r) /\ Len(r.out) <= Len(w)
<1>1. /\ kind \in AllKinds /\ f \in Hosts /\ a \in Adapters /\ Defined(f)
      /\ (kind \in Stdios => Clean(f, a)) /\ a.ptr \in Nat
  BY GoodFields
<1>2. CASE kind \in Stdios
  <2>1. Settled(r, a) /\ Len(r.out) <= Len(w)
    <3>1. CASE kind = "stdio"
      <4>1. r \in StdioWriteSome(f, a, w)
        BY <3>1 DEF WriteSome
      <4> QED
        BY <1>1, <1>2, <4>1, StdioWriteSomeFacts
    <3>2. CASE kind = "filler"
      <4>1. r \in FillerWriteSome(f, a, w)
        BY <3>2 DEF WriteSome
      <4> QED
        BY <1>1, <1>2, <4>1, FillerWriteSomeFacts
    <3> QED
      BY <1>2, <3>1, <3>2 DEF Stdios
  <2>2. kind \notin Vectors
    BY <1>2, KindsApart
  <2>3. Sound(kind, r)
    BY <2>1, <2>2, FitDone DEF Settled
  <2> QED
    BY <2>1, <2>3
<1>3. CASE kind \notin Stdios
  <2>1. PICK q \in WriteSomeAt(a.ptr, w) : r = Moved(q)
    BY <1>3 DEF WriteSome, Stdios
  <2>2. Sound(kind, q) /\ Len(q.out) <= Len(w)
    BY <1>1, <2>1, WriteSomeAtFacts
  <2>3. /\ q.f \in Hosts /\ q.a \in Adapters /\ Defined(q.f) /\ q.a.ptr \in Nat
        /\ q.err \in Errors /\ q.out \in Bytes /\ q.a.filler = FillerOf(kind)
        /\ (kind \in Vectors => Whole(q.f, q.a)) /\ kind \in Kinds
    BY <2>2, GoodFields DEF Sound, Good
  <2>4. Len(q.out) \in Nat
    BY <2>3 DEF Bytes
  <2>5. CASE kind \in Proxied \union {"memory"}
    <3> DEFINE c == AddOffset(q.a, Len(q.out))
    <3>1. c \in Adapters /\ c.filler = q.a.filler
      BY <2>3, <2>4, AddOffsetFacts
    <3>2. r.f = q.f /\ r.a = c /\ r.err = q.err /\ r.out = q.out
      BY <2>1, <2>5, Zenon DEF Moved, R
    <3> HIDE DEF c
    <3>3. kind \notin Vectors
      BY <2>5, KindsApart
    <3> QED
      BY <1>3, <2>2, <2>3, <3>1, <3>2, <3>3 DEF Sound, Good
  <2>6. CASE kind \notin Proxied \union {"memory"}
    <3> DEFINE m == q.a.ptr + Len(q.out)
               c == [q.a EXCEPT !.ptr = m]
    <3>1. r.f = q.f /\ r.a = c /\ r.err = q.err /\ r.out = q.out
      BY <2>1, <2>6, Zenon DEF Moved, R
    <3>2. m \in Nat
      BY <2>3, <2>4
    <3> HIDE DEF m
    <3>3. /\ c \in Adapters /\ c.filler = q.a.filler /\ c.size = q.a.size
          /\ c.elements = q.a.elements
      BY <2>3, <3>2, PointerFacts
    <3> HIDE DEF c
    <3>4. kind \in Vectors => Whole(r.f, r.a)
      BY <2>3, <3>1, <3>3 DEF Whole
    <3> QED
      BY <1>3, <2>2, <2>3, <3>1, <3>3, <3>4 DEF Sound, Good
  <2> QED
    BY <2>5, <2>6
<1> QED
  BY <1>2, <1>3


\* length.
LEMMA VecLengthFacts ==
  ASSUME Good(kind, f, a), kind \in Vectors, NEW r \in VecLength
  PROVE  /\ Fit(r, a) /\ Whole(r.f, r.a) /\ r.f = f
         /\ r.out = <<r.a.size>>
<1>1. f \in Hosts /\ a \in Adapters /\ Defined(f) /\ Whole(f, a)
  BY GoodFields
<1> DEFINE b == CheckResized(f, a)
<1>2. b \in Adapters /\ b.filler = a.filler /\ Whole(f, b)
  BY <1>1, CheckResizedFacts
<1>3. r = R(f, b, "ok", <<b.size>>)
  BY DEF VecLength, Asked
<1>4. r.f = f /\ r.a = b /\ r.err = "ok" /\ r.out = <<b.size>>
  BY <1>3, Zenon DEF R
<1> HIDE DEF b
<1>5. b.size \in Nat
  BY <1>2, AdapterFields
<1>6. r.out \in Bytes
  BY <1>4, <1>5 DEF Bytes
<1> QED
  BY <1>1, <1>2, <1>4, <1>6, NothingFacts DEF Fit

LEMMA RustLengthFacts ==
  ASSUME Good(kind, f, a), NEW r \in RustLength
  PROVE  /\ Fit(r, a) /\ r.f = f /\ r.a = a
         /\ r.err = "ok" => r.out = <<Len(f.data)>>
<1>1. f \in Hosts /\ a \in Adapters /\ Defined(f) /\ Len(f.data) \in Nat
  BY GoodFields
<1>2. \/ r = R(f, a, "ok", <<Len(f.data)>>)
      \/ r = R(f, a, "io", <<>>)
  BY DEF RustLength, Asked
<1>3. CASE r = R(f, a, "ok", <<Len(f.data)>>)
  <2>1. r.f = f /\ r.a = a /\ r.err = "ok" /\ r.out = <<Len(f.data)>>
    BY <1>3 DEF R
  <2>2. r.out \in Bytes
    BY <1>1, <2>1 DEF Bytes
  <2> QED
    BY <1>1, <2>1, <2>2, NothingFacts DEF Fit
<1>4. CASE r = R(f, a, "io", <<>>)
  <2>1. r.f = f /\ r.a = a /\ r.err = "io" /\ r.out = <<>>
    BY <1>4 DEF R
  <2> QED
    BY <1>1, <2>1, NothingFacts DEF Fit, Errors
<1> QED
  BY <1>2, <1>3, <1>4

LEMMA LengthFacts ==
  ASSUME Good(kind, f, a), NEW r \in LengthOf
  PROVE  Sound(kind, r)
<1>1. /\ kind \in AllKinds /\ f \in Hosts /\ a \in Adapters /\ Defined(f)
      /\ (kind \in Stdios => Clean(f, a)) /\ a.size \in Nat
  BY GoodFields
<1>2. CASE kind \in Stdios
  <2>1. r \in StdioLength(f, a)
    BY <1>2 DEF LengthOf, Stdios, Vectors
  <2>2. Settled(r, a) /\ kind \notin Vectors
    BY <1>1, <1>2, <2>1, StdioLengthFacts, KindsApart
  <2> QED
    BY <2>2, FitDone DEF Settled
<1>3. CASE kind = "osd"
  <2>1. r = R(f, a, "unsupported", <<>>)
    BY <1>3 DEF LengthOf, Stdios, Vectors
  <2>2. r.f = f /\ r.a = a /\ r.err = "unsupported" /\ r.out = <<>>
    BY <2>1 DEF R
  <2>3. Fit(r, a) /\ kind \notin Vectors /\ kind \notin Stdios
    BY <1>1, <1>3, <2>2, KindsApart, NothingFacts DEF Fit, Errors
  <2> QED
    BY <2>3, FitDone
<1>4. CASE kind \in Vectors
  <2>1. r \in VecLength
    BY <1>4 DEF LengthOf, Stdios, Vectors
  <2>2. Fit(r, a) /\ Whole(r.f, r.a) /\ kind \notin Stdios
    BY <1>4, <2>1, VecLengthFacts, KindsApart
  <2> QED
    BY <2>2, FitDone
<1>5. CASE kind = "rust"
  <2>1. r \in RustLength
    BY <1>5 DEF LengthOf, Stdios, Vectors
  <2>2. Fit(r, a) /\ kind \notin Stdios /\ kind \notin Vectors
    BY <1>5, <2>1, RustLengthFacts, KindsApart
  <2> QED
    BY <2>2, FitDone
<1>6. CASE kind \notin Stdios /\ kind # "osd" /\ kind \notin Vectors /\ kind # "rust"
  <2>1. r = R(f, a, "ok", <<a.size>>)
    BY <1>6 DEF LengthOf, Asked
  <2>2. r.f = f /\ r.a = a /\ r.err = "ok" /\ r.out = <<a.size>>
    BY <2>1 DEF R
  <2>3. r.out \in Bytes
    BY <1>1, <2>2 DEF Bytes
  <2>4. Fit(r, a)
    BY <1>1, <2>2, <2>3, NothingFacts DEF Fit
  <2> QED
    BY <1>6, <2>4, FitDone
<1> QED
  BY <1>2, <1>3, <1>4, <1>5, <1>6

\* seek.
LEMMA FromFacts ==
  ASSUME Good(kind, f, a), NEW whence, NEW end \in Int
  PROVE  From(whence, end) \in Int
<1>1. f.pos \in Nat /\ a.ptr \in Nat
  BY GoodFields
<1>2. Position \in Int
  BY <1>1 DEF Position
<1> QED
  BY <1>2 DEF From

\* The pointer moves; the file does not.
LEMMA GoneFacts ==
  ASSUME Good(kind, f, a), kind \notin Stdios, NEW c \in Adapters, c.filler = a.filler,
         kind \in Vectors => Whole(f, c), NEW from \in Int, NEW offset \in Int,
         NEW r, r = Gone(PointerSeek(c, from, offset))
  PROVE  Sound(kind, r)
<1> DEFINE s == PointerSeek(c, from, offset)
<1>1. /\ s.a \in Adapters /\ s.a.filler = c.filler /\ s.a.size = c.size
      /\ s.a.elements = c.elements /\ s.err \in Errors
  BY PointerSeekFacts
<1> HIDE DEF s
<1>2. r = R(f, s.a, s.err, <<>>)
  BY DEF Gone, s
<1>3. r.f = f /\ r.a = s.a /\ r.err = s.err /\ r.out = <<>>
  BY <1>2 DEF R
<1>4. f \in Hosts /\ Defined(f)
  BY GoodFields
<1>5. Fit(r, a)
  BY <1>1, <1>3, <1>4, NothingFacts DEF Fit
<1>6. kind \in Vectors => Whole(r.f, r.a)
  BY <1>1, <1>3 DEF Whole
<1> QED
  BY <1>5, <1>6, FitDone

LEMMA SeekFacts ==
  ASSUME Good(kind, f, a), NEW whence \in {"set", "cur", "end"}, NEW offset \in Int,
         NEW r \in Seeks(whence, offset)
  PROVE  Sound(kind, r)
<1>1. /\ kind \in AllKinds /\ f \in Hosts /\ a \in Adapters /\ Defined(f)
      /\ (kind \in Stdios => Clean(f, a)) /\ a.size \in Nat /\ Len(f.data) \in Nat
      /\ (kind \in Vectors => Whole(f, a))
  BY GoodFields
<1>2. CASE kind \in Stdios
  <2>1. r \in StdioSeek(f, a, offset + From(whence, Len(f.data)))
    BY <1>2 DEF Seeks, Stdios, Rams, Vectors
  <2>2. offset + From(whence, Len(f.data)) \in Int
    BY <1>1, FromFacts
  <2>3. Settled(r, a) /\ kind \notin Vectors
    BY <1>1, <1>2, <2>1, <2>2, StdioSeekFacts, KindsApart
  <2> QED
    BY <2>3, FitDone DEF Settled
<1>3. CASE kind \in Vectors
  <2>0. kind \notin Stdios
    BY <1>3, KindsApart
  <2>1. r \in VecSeek(whence, offset)
    BY <1>3 DEF Seeks, Stdios, Rams, Vectors
  <2>2. PICK l \in VecLength :
          r = Gone(PointerSeek(IF whence = "end" THEN l.a ELSE a, From(whence, l.out[1]), offset))
    BY <2>1 DEF VecSeek
  <2>3. Fit(l, a) /\ Whole(l.f, l.a) /\ l.f = f /\ l.out = <<l.a.size>>
    BY <1>3, <2>2, VecLengthFacts
  <2>4. l.a \in Adapters /\ l.a.filler = a.filler /\ l.a.size \in Nat
    BY <2>3, AdapterFields DEF Fit
  <2>5. From(whence, l.out[1]) \in Int
    BY <2>3, <2>4, FromFacts
  <2> DEFINE c == IF whence = "end" THEN l.a ELSE a
  <2>6. c \in Adapters /\ c.filler = a.filler /\ Whole(f, c)
    BY <1>1, <1>3, <2>3, <2>4
  <2>7. r = Gone(PointerSeek(c, From(whence, l.out[1]), offset))
    BY <2>2
  <2> HIDE DEF c
  <2> QED
    BY <2>0, <2>5, <2>6, <2>7, GoneFacts
<1>4. CASE kind = "osd"
  <2>0. kind \notin Stdios /\ kind \notin Vectors
    BY <1>4, KindsApart
  <2>1. r \in OsdAdapterSeek(whence, offset)
    BY <1>4 DEF Seeks, Stdios, Rams, Vectors
  <2>2. CASE whence = "end"
    <3>1. r = R(f, a, "invalid", <<>>)
      BY <2>1, <2>2 DEF OsdAdapterSeek
    <3>2. r.f = f /\ r.a = a /\ r.err = "invalid" /\ r.out = <<>>
      BY <3>1 DEF R
    <3>3. Fit(r, a)
      BY <1>1, <3>2, NothingFacts DEF Fit, Errors
    <3> QED
      BY <2>0, <3>3, FitDone
  <2>3. CASE whence # "end"
    <3>1. r = Gone(PointerSeek(a, From(whence, 0), offset))
      BY <2>1, <2>3 DEF OsdAdapterSeek
    <3>2. From(whence, 0) \in Int
      BY FromFacts
    <3> QED
      BY <1>1, <2>0, <3>1, <3>2, GoneFacts
  <2> QED
    BY <2>2, <2>3
<1>5. CASE kind = "rust"
  <2>0. kind \notin Stdios /\ kind \notin Vectors
    BY <1>5, KindsApart
  <2>1. r \in RustSeekTo(whence, offset)
    BY <1>5 DEF Seeks, Stdios, Rams, Vectors
  <2>2. ASSUME NEW from \in Int, r = Gone(RustSeek(a, from, offset)) PROVE Sound(kind, r)
    <3> DEFINE s == RustSeek(a, from, offset)
    <3>1. s.a \in Adapters /\ s.a.filler = a.filler /\ s.err \in Errors
      BY <1>1, RustSeekFacts
    <3> HIDE DEF s
    <3>2. r = R(f, s.a, s.err, <<>>)
      BY <2>2 DEF Gone, s
    <3>3. r.f = f /\ r.a = s.a /\ r.err = s.err /\ r.out = <<>>
      BY <3>2 DEF R
    <3>4. Fit(r, a)
      BY <1>1, <3>1, <3>3, NothingFacts DEF Fit
    <3> QED
      BY <2>0, <3>4, FitDone
  <2>3. CASE whence = "end"
    <3>1. PICK l \in RustLength : r = IF l.err = "ok" THEN Gone(RustSeek(a, l.out[1], offset)) ELSE l
      BY <2>1, <2>3 DEF RustSeekTo
    <3>2. Fit(l, a) /\ (l.err = "ok" => l.out = <<Len(f.data)>>)
      BY <3>1, RustLengthFacts
    <3>3. CASE l.err = "ok"
      <4>1. l.out[1] = Len(f.data)
        BY <3>2, <3>3
      <4> QED
        BY <1>1, <2>2, <3>1, <3>3, <4>1
    <3>4. CASE l.err # "ok"
      BY <2>0, <3>1, <3>2, <3>4, FitDone
    <3> QED
      BY <3>3, <3>4
  <2>4. CASE whence # "end"
    <3>1. r = Gone(RustSeek(a, From(whence, 0), offset))
      BY <2>1, <2>4 DEF RustSeekTo
    <3>2. From(whence, 0) \in Int
      BY FromFacts
    <3> QED
      BY <2>2, <3>1, <3>2
  <2> QED
    BY <2>3, <2>4
<1>6. CASE kind \in Rams \/ kind \in Proxied \/ kind = "memory"
  <2>0. kind \notin Stdios /\ kind \notin Vectors
    BY <1>6, KindsApart
  <2>1. r = Gone(PointerSeek(a, From(whence, a.size), offset))
    BY <1>6, <2>0 DEF Seeks, Proxied, Rams, RamSeek, CoreSeek
  <2>2. From(whence, a.size) \in Int
    BY <1>1, FromFacts
  <2> QED
    BY <1>1, <2>0, <2>1, <2>2, GoneFacts
<1> QED
  BY <1>1, <1>2, <1>3, <1>4, <1>5, <1>6, KindsApart

\* flush and truncate.
LEMMA FlushFacts ==
  ASSUME Good(kind, f, a), NEW r \in FlushOf
  PROVE  Sound(kind, r)
<1>1. /\ f \in Hosts /\ a \in Adapters /\ Defined(f)
      /\ (kind \in Stdios => Clean(f, a)) /\ (kind \in Vectors => Whole(f, a))
  BY GoodFields
<1>2. CASE kind \in Stdios
  <2>1. r \in StdioFlush(f, a)
    BY <1>2 DEF FlushOf, Stdios, Proxied
  <2>2. Settled(r, a) /\ kind \notin Vectors
    BY <1>1, <1>2, <2>1, StdioFlushFacts, KindsApart
  <2> QED
    BY <2>2, FitDone DEF Settled
<1>3. CASE kind = "osd"
  <2>0. r \in {R(g.f, a, g.err, <<>>) : g \in OsdFlush(f)}
    BY <1>3 DEF FlushOf, Stdios, Proxied
  <2>1. PICK g \in OsdFlush(f) : r = R(g.f, a, g.err, <<>>)
    BY <2>0
  <2>2. r.f = g.f /\ r.a = a /\ r.err = g.err /\ r.out = <<>>
    BY <2>1 DEF R
  <2>3. g.f \in Hosts /\ Defined(g.f) /\ g.err \in Errors
    BY <1>1, <2>1, OsdFlushFacts
  <2>4. Fit(r, a) /\ kind \notin Stdios /\ kind \notin Vectors
    BY <1>1, <1>3, <2>2, <2>3, KindsApart, NothingFacts DEF Fit
  <2> QED
    BY <2>4, FitDone
<1>4. CASE kind \in Proxied
  <2>1. r \in CoreFlush(f, a)
    BY <1>4 DEF FlushOf, Stdios, Proxied
  <2>2. Fit(r, a) /\ kind \notin Stdios /\ kind \notin Vectors
    BY <1>1, <1>4, <2>1, CoreFlushFacts, KindsApart
  <2> QED
    BY <2>2, FitDone
<1>5. CASE kind \notin Stdios /\ kind # "osd" /\ kind \notin Proxied
  <2>1. r = R(f, a, "ok", <<>>)
    BY <1>5 DEF FlushOf
  <2>2. r.f = f /\ r.a = a /\ r.err = "ok" /\ r.out = <<>>
    BY <2>1 DEF R
  <2>3. Fit(r, a) /\ (kind \in Vectors => Whole(r.f, r.a))
    BY <1>1, <2>2, NothingFacts DEF Fit
  <2> QED
    BY <1>5, <2>3, FitDone
<1> QED
  BY <1>2, <1>3, <1>4, <1>5

LEMMA TruncateFacts ==
  ASSUME Good(kind, f, a), kind \in Proxied \union {"memory"}, NEW n \in Nat, NEW r \in TruncateOf(n)
  PROVE  Sound(kind, r)
<1>1. f \in Hosts /\ a \in Adapters /\ Defined(f) /\ kind \notin Stdios /\ kind \notin Vectors
  BY GoodFields, KindsApart
<1>2. r \in MemoryTruncate(f, a, n) \/ r \in CoreTruncate(f, a, n)
  BY DEF TruncateOf
<1>3. Fit(r, a)
  BY <1>1, <1>2, MemoryTruncateFacts, CoreTruncateFacts
<1> QED
  BY <1>1, <1>3, FitDone


-----------------------------------------------------------------------------
(* The calls of the client *)

Reads == {"read", "read_at", "load"}
Writes == {"write", "write_at"}
Calls == [phase : {"idle", "busy", "back"},
          op : Reads \union Writes \union {"none", "seek", "length", "flush", "truncate"},
          o : Int, n : Nat, w : Bytes, moved : Nat, got : Bytes, err : Errors, last : Errors]

\* A transfer under way: what moved is what was got, and a read at the position has moved
\* the position with it.
Underway(k, g, b, c) ==
  /\ c.op \in Reads \union Writes /\ c.o \in Nat /\ c.moved <= c.n
  /\ c.w = <<>> => Len(c.got) = c.moved
  /\ c.op \in Reads => c.w = <<>>
  /\ c.op \in Writes => c.n = Len(c.w)
  /\ c.op \in {"read", "load"} => At(k, g, b) = c.o + c.moved

\* A read that came back: what ShortOnlyAtEnd says of it.
Told(k, g, b, c) ==
  /\ c.err = "ok" => c.moved = c.n \/ c.o + c.moved >= EndOf(k, g, b)
  /\ k \in Filling => /\ Len(c.got) = c.n
                      /\ \A j \in (c.moved + 1)..c.n : c.got[j] = FillerOf(k)

Safe(k, g, b, c) ==
  /\ Good(k, g, b) /\ c \in Calls
  /\ c.op = "load" => k = "core"
  /\ c.phase = "busy" => Underway(k, g, b, c)
  /\ c.phase = "back" /\ c.op \in Reads => Told(k, g, b, c)
IoInv == Safe(kind, f, a, call)

LEMMA CallFields ==
  ASSUME NEW c \in Calls
  PROVE  /\ c.phase \in {"idle", "busy", "back"}
         /\ c.op \in Reads \union Writes \union {"none", "seek", "length", "flush", "truncate"}
         /\ c.o \in Int /\ c.n \in Nat /\ c.w \in Bytes /\ c.moved \in Nat /\ c.got \in Bytes
         /\ c.err \in Errors /\ Len(c.w) \in Nat /\ Len(c.got) \in Nat
BY DEF Calls, Bytes

LEMMA IdleFacts ==
  /\ Idle \in Calls /\ Idle.phase = "idle" /\ Idle.moved = 0 /\ Idle.got = <<>>
  /\ Idle.op = "none"
BY NothingFacts DEF Idle, Calls

LEMMA AnswerFacts ==
  ASSUME NEW op \in {"seek", "length", "flush", "truncate"}, NEW o \in Int,
         NEW r, r.out \in Bytes, r.err \in Errors
  PROVE  /\ Answer(op, o, r) \in Calls /\ Answer(op, o, r).phase = "back"
         /\ Answer(op, o, r).op = op
BY NothingFacts DEF Answer, Calls, Idle

\* A transfer that begins.
LEMMA BeginSafe ==
  ASSUME NEW k, NEW g, NEW b, Good(k, g, b), NEW what \in Reads \union Writes, NEW at \in Nat,
         NEW len \in Nat, NEW buf \in Bytes,
         what \in Reads => buf = <<>>, what \in Writes => len = Len(buf),
         what \in {"read", "load"} => At(k, g, b) = at, what = "load" => k = "core"
  PROVE  Safe(k, g, b, Call(what, at, len, buf))
<1> DEFINE c == Call(what, at, len, buf)
<1>1. Idle \in Calls /\ Idle.moved = 0 /\ Idle.got = <<>>
  BY IdleFacts
<1>2. c = [Idle EXCEPT !.phase = "busy", !.op = what, !.o = at, !.n = len, !.w = buf]
  BY Zenon DEF Call
<1> HIDE DEF c
<1>3. c \in Calls
  <2>1. /\ what \in Reads \union Writes \union {"none", "seek", "length", "flush", "truncate"}
        /\ at \in Int
    OBVIOUS
  <2> QED
    BY <1>1, <1>2, <2>1 DEF Calls
<1>4. c.phase = "busy" /\ c.op = what /\ c.o = at /\ c.n = len /\ c.w = buf
  BY <1>1, <1>2 DEF Calls
<1>5. c.moved = 0 /\ c.got = <<>>
  BY <1>1, <1>2 DEF Calls
<1>6. Underway(k, g, b, c)
  BY <1>4, <1>5, NothingFacts DEF Underway
<1> QED
  BY <1>3, <1>4, <1>6 DEF Safe, c

\* Any other call that came back.
LEMMA AnswerSafe ==
  ASSUME NEW k, NEW r, Sound(k, r), NEW op \in {"seek", "length", "flush", "truncate"},
         NEW o \in Int
  PROVE  Safe(k, r.f, r.a, Answer(op, o, r))
<1> DEFINE c == Answer(op, o, r)
<1>1. Good(k, r.f, r.a) /\ r.err \in Errors /\ r.out \in Bytes
  BY DEF Sound
<1>2. c \in Calls /\ c.phase = "back" /\ c.op = op
  BY <1>1, AnswerFacts
<1> HIDE DEF c
<1>3. op \notin Reads /\ op # "load"
  BY DEF Reads
<1> QED
  BY <1>1, <1>2, <1>3 DEF Safe, c

-----------------------------------------------------------------------------
(* A method's answer *)

\* What a call that goes on, or comes back, becomes.
LEMMA ContinuedFacts ==
  ASSUME NEW c \in Calls, NEW r, r.err \in Errors, NEW m \in Nat
  PROVE  /\ Continued(c, r, m) \in Calls /\ Continued(c, r, m).op = c.op
         /\ Continued(c, r, m).o = c.o /\ Continued(c, r, m).n = c.n
         /\ Continued(c, r, m).w = c.w /\ Continued(c, r, m).got = c.got
         /\ Continued(c, r, m).moved = m
         /\ GoesOn(r, m) => Continued(c, r, m).phase = "busy"
         /\ ~GoesOn(r, m) => /\ Continued(c, r, m).phase = "back"
                             /\ Continued(c, r, m).err = Verdict(r, m)
<1>1. Verdict(r, m) \in Errors
  BY NothingFacts DEF Verdict, Errors
<1>2. CASE GoesOn(r, m)
  <2>1. Continued(c, r, m) = [c EXCEPT !.moved = m, !.last = r.err, !.phase = "busy", !.err = "ok"]
    BY <1>2, Zenon DEF Continued
  <2> QED
    BY <1>2, <2>1, NothingFacts DEF Calls
<1>3. CASE ~GoesOn(r, m)
  <2> DEFINE v == Verdict(r, m)
  <2>1. Continued(c, r, m) = [c EXCEPT !.moved = m, !.last = r.err, !.phase = "back", !.err = v]
    BY <1>3, Zenon DEF Continued
  <2>2. v \in Errors
    BY <1>1
  <2> HIDE DEF v
  <2>3. /\ Continued(c, r, m) \in Calls /\ Continued(c, r, m).op = c.op
        /\ Continued(c, r, m).o = c.o /\ Continued(c, r, m).n = c.n
        /\ Continued(c, r, m).w = c.w /\ Continued(c, r, m).got = c.got
        /\ Continued(c, r, m).moved = m /\ Continued(c, r, m).phase = "back"
        /\ Continued(c, r, m).err = v
    BY <2>1, <2>2 DEF Calls
  <2> QED
    BY <1>3, <2>3 DEF v
<1> QED
  BY <1>2, <1>3

\* The calls of write_some and write_some_at.
LEMMA WriteStepSafe ==
  ASSUME ~OsdSeekFails, IoInv, call.phase = "busy", call.w # <<>>, NEW r \in Transfers
  PROVE  Safe(kind, r.f, r.a, AfterWrite(call, r))
<1>1. /\ Good(kind, f, a) /\ call \in Calls /\ Underway(kind, f, a, call)
      /\ (call.op = "load" => kind = "core")
  BY DEF IoInv, Safe
<1>2. /\ call.op \in Writes /\ call.o \in Nat /\ call.moved \in Nat /\ call.moved <= call.n
      /\ call.n = Len(call.w) /\ call.w \in Bytes /\ call.n \in Nat
  BY <1>1, CallFields DEF Underway
<1> DEFINE u == SubSeq(call.w, call.moved + 1, call.n)
<1>3. u \in Bytes /\ Len(u) = call.n - call.moved
  BY <1>2, SubSeqFacts, SMTT(40)
<1>4. r \in WriteSome(u) \/ r \in WriteSomeAt(call.o + call.moved, u)
  BY <1>2 DEF Transfers, Writes
<1> HIDE DEF u
<1>5. Sound(kind, r) /\ Len(r.out) <= Len(u)
  BY <1>1, <1>2, <1>3, <1>4, WriteSomeFacts, WriteSomeAtFacts
<1>6. /\ Good(kind, r.f, r.a) /\ r.err \in Errors /\ Len(r.out) \in Nat
  BY <1>5 DEF Sound, Bytes
<1> DEFINE m == call.moved + Len(r.out)
           c == Continued(call, r, m)
<1>7. m \in Nat /\ m <= call.n
  BY <1>2, <1>3, <1>5, <1>6
<1>8. AfterWrite(call, r) = c
  BY DEF AfterWrite
<1> HIDE DEF m
<1>9. /\ c \in Calls /\ c.op = call.op /\ c.o = call.o /\ c.n = call.n /\ c.w = call.w
      /\ c.moved = m
  BY <1>1, <1>6, <1>7, ContinuedFacts
<1> HIDE DEF c
<1>10. c.op \notin Reads
  BY <1>2, <1>9 DEF Writes, Reads
<1>11. Underway(kind, r.f, r.a, c)
  BY <1>2, <1>7, <1>9, <1>10 DEF Underway, Reads, Writes
<1> QED
  BY <1>1, <1>6, <1>8, <1>9, <1>10, <1>11 DEF Safe

\* The bytes a read has got so far.
LEMMA GotFacts ==
  ASSUME NEW s \in Bytes, NEW u \in Bytes, NEW m \in Nat, Len(s) = m
  PROVE  SubSeq(s, 1, m) \o u \in Bytes /\ Len(SubSeq(s, 1, m) \o u) = m + Len(u)
<1> DEFINE v == SubSeq(s, 1, m)
<1>1. v \in Bytes /\ Len(v) = m
  BY SubSeqFacts
<1> HIDE DEF v
<1>2. v \o u \in Bytes /\ Len(v \o u) = Len(v) + Len(u)
  BY <1>1, JoinFacts
<1> QED
  BY <1>1, <1>2 DEF v

\* What a method of the adapter gives a read under way.
LEMMA ReadTransfer ==
  ASSUME ~OsdSeekFails, IoInv, call.phase = "busy", call.w = <<>>, NEW r \in Transfers
  PROVE  /\ Sound(kind, r) /\ Len(r.out) <= call.n - call.moved
         /\ call.op \in {"read", "load"} => At(kind, r.f, r.a) = call.o + call.moved + Len(r.out)
         /\ call.op \in Reads /\ r.err = "ok" /\ r.out = <<>> /\ call.n > call.moved
              => call.o + call.moved >= EndOf(kind, r.f, r.a)
<1>1. Good(kind, f, a) /\ call \in Calls /\ Underway(kind, f, a, call)
  BY DEF IoInv, Safe
<1>2. /\ call.op \in Reads \union Writes /\ call.o \in Nat /\ call.moved \in Nat
      /\ call.moved <= call.n /\ call.n \in Nat
      /\ (call.op \in Writes => call.n = 0)
      /\ (call.op \in {"read", "load"} => At(kind, f, a) = call.o + call.moved)
  BY <1>1, CallFields, NothingFacts DEF Underway
<1> DEFINE n == call.n - call.moved
           o == call.o + call.moved
<1>3. n \in Nat /\ o \in Nat
  BY <1>2
<1>4. CASE call.op \in {"read", "load"}
  <2>1. r \in ReadSome(n)
    BY <1>4 DEF Transfers, Left
  <2> HIDE DEF n
  <2>2. /\ Sound(kind, r) /\ Len(r.out) <= n
        /\ At(kind, r.f, r.a) = At(kind, f, a) + Len(r.out)
        /\ r.err = "ok" /\ r.out = <<>> /\ n > 0 => At(kind, f, a) >= EndOf(kind, r.f, r.a)
    BY <1>1, <1>3, <2>1, ReadSomeFacts
  <2>3. call.n > call.moved => n > 0
    BY <1>2 DEF n
  <2> QED
    BY <1>2, <1>4, <2>2, <2>3 DEF n
<1>5. CASE call.op = "read_at"
  <2>1. r \in ReadSomeAt(o, n)
    BY <1>5 DEF Transfers, Left
  <2> HIDE DEF n, o
  <2>2. /\ Sound(kind, r) /\ Len(r.out) <= n
        /\ r.err = "ok" /\ r.out = <<>> /\ n > 0 => o >= EndOf(kind, r.f, r.a)
    BY <1>1, <1>3, <2>1, ReadSomeAtFacts
  <2>3. call.n > call.moved => n > 0
    BY <1>2 DEF n
  <2> QED
    BY <1>5, <2>2, <2>3 DEF n, o
<1>6. CASE call.op \in Writes
  <2> DEFINE u == SubSeq(<<>>, call.moved + 1, call.n)
  <2>1. call.n = 0 /\ call.moved = 0
    BY <1>2, <1>6
  <2>2. u \in Bytes /\ Len(u) = 0
    BY <2>1, NothingFacts, SubSeqFacts
  <2>3. r \in WriteSome(u) \/ r \in WriteSomeAt(o, u)
    BY <1>6 DEF Transfers, Writes
  <2> HIDE DEF u
  <2>4. Sound(kind, r) /\ Len(r.out) <= 0
    BY <1>1, <1>3, <2>2, <2>3, WriteSomeFacts, WriteSomeAtFacts
  <2>5. call.op \notin Reads /\ call.op \notin {"read", "load"}
    BY <1>6 DEF Writes, Reads
  <2> QED
    BY <2>1, <2>4, <2>5
<1> QED
  BY <1>2, <1>4, <1>5, <1>6 DEF Reads


\* A read that does not go on and reports success is whole, or nothing came.
LEMMA VerdictFacts ==
  ASSUME NEW r, NEW m \in Nat, call.w = <<>>, call.n \in Nat, m <= call.n, ~GoesOn(r, m),
         Verdict(r, m) = "ok"
  PROVE  m = call.n \/ (r.err = "ok" /\ r.out = <<>>)
<1>1. m = call.n \/ r.err \in {"ok", "interrupted"}
  BY DEF Verdict
<1>2. CASE m # call.n
  <2>1. m < call.n
    BY <1>2
  <2>2. r.err # "interrupted" /\ ~(r.err = "ok" /\ (r.out # <<>> \/ call.w # <<>>))
    BY <2>1 DEF GoesOn
  <2> QED
    BY <1>1, <1>2, <2>2
<1> QED
  BY <1>2

\* The rest of the buffer of a filling wrapper.
FilledUp(s, b, n, t) == t \in Bytes /\ Len(t) = n /\ \A j \in (Len(s) + 1)..n : t[j] = b
LEMMA FilledFacts ==
  ASSUME NEW s \in Bytes, NEW b \in Nat, NEW n \in Nat, Len(s) < n,
         NEW t, t = s \o Repeat(b, n - Len(s))
  PROVE  FilledUp(s, b, n, t)
<1> DEFINE m == Len(s)
           u == Repeat(b, n - m)
<1>0. m \in Nat /\ m < n
  BY DEF Bytes
<1>1. u \in Bytes /\ Len(u) = n - m /\ \A j \in 1..(n - m) : u[j] = b
  BY <1>0, RepeatFacts
<1> HIDE DEF u
<1>2. t = s \o u /\ t \in Bytes /\ Len(t) = Len(s) + Len(u)
  BY <1>1, JoinFacts DEF u
<1>3. ASSUME NEW j \in (m + 1)..n PROVE t[j] = b
  <2>1. j \in Nat /\ j > m /\ j <= Len(s) + Len(u) /\ j - m \in 1..(n - m)
    BY <1>0, <1>1
  <2>2. t[j] = u[j - m]
    BY <1>1, <1>2, <2>1, SMTT(40) DEF Bytes
  <2> QED
    BY <1>1, <2>1, <2>2
<1> QED
  BY <1>0, <1>1, <1>2, <1>3 DEF FilledUp

\* The calls of read_some and read_some_at.
LEMMA ReadStepSafe ==
  ASSUME ~OsdSeekFails, IoInv, call.phase = "busy", call.w = <<>>, NEW r \in Transfers
  PROVE  Safe(kind, r.f, r.a, AfterRead(call, r))
<1>1. /\ Good(kind, f, a) /\ call \in Calls /\ Underway(kind, f, a, call)
      /\ (call.op = "load" => kind = "core")
  BY DEF IoInv, Safe
<1>2. /\ call.op \in Reads \union Writes /\ call.o \in Nat /\ call.moved \in Nat
      /\ call.moved <= call.n /\ call.n \in Nat /\ call.got \in Bytes
      /\ Len(call.got) = call.moved
      /\ (call.op \in Writes => call.n = Len(call.w))
  BY <1>1, CallFields DEF Underway
<1>3. /\ Sound(kind, r) /\ Len(r.out) <= call.n - call.moved
      /\ call.op \in {"read", "load"} => At(kind, r.f, r.a) = call.o + call.moved + Len(r.out)
      /\ call.op \in Reads /\ r.err = "ok" /\ r.out = <<>> /\ call.n > call.moved
           => call.o + call.moved >= EndOf(kind, r.f, r.a)
  BY ReadTransfer
<1>4. /\ Good(kind, r.f, r.a) /\ r.err \in Errors /\ r.out \in Bytes /\ Len(r.out) \in Nat
  BY <1>3 DEF Sound, Bytes
<1> DEFINE m == call.moved + Len(r.out)
           s == SubSeq(call.got, 1, call.moved) \o r.out
           c0 == [call EXCEPT !.got = s]
           d == Continued(c0, r, m)
           full == s \o Repeat(a.filler, d.n - d.moved)
<1>5. m \in Nat /\ m <= call.n /\ (r.out = <<>> => m = call.moved)
  BY <1>2, <1>3, <1>4, NothingFacts
<1>6. s \in Bytes /\ Len(s) = m
  BY <1>2, <1>4, GotFacts
<1>7. AfterRead(call, r) = IF kind \in Filling /\ d.phase = "back" /\ d.moved < d.n
                           THEN [d EXCEPT !.got = @ \o Repeat(a.filler, d.n - d.moved)] ELSE d
  BY DEF AfterRead
<1> HIDE DEF m, s
<1>8. /\ c0 \in Calls /\ c0.op = call.op /\ c0.o = call.o /\ c0.n = call.n /\ c0.w = call.w
      /\ c0.got = s
  BY <1>1, <1>6 DEF Calls
<1> HIDE DEF c0
<1>9. /\ d \in Calls /\ d.op = call.op /\ d.o = call.o /\ d.n = call.n /\ d.w = call.w
      /\ d.got = s /\ d.moved = m
      /\ GoesOn(r, m) => d.phase = "busy"
      /\ ~GoesOn(r, m) => d.phase = "back" /\ d.err = Verdict(r, m)
  BY <1>4, <1>5, <1>8, ContinuedFacts
<1> HIDE DEF d
<1>10. CASE GoesOn(r, m)
  <2>1. AfterRead(call, r) = d
    BY <1>7, <1>9, <1>10
  <2>2. Underway(kind, r.f, r.a, d)
    <3>1. call.o + call.moved + Len(r.out) = call.o + m
      BY <1>2, <1>4 DEF m
    <3>2. call.op \in {"read", "load"} => At(kind, r.f, r.a) = call.o + m
      BY <1>3, <3>1
    <3>3. d.op \in {"read", "load"} => At(kind, r.f, r.a) = d.o + d.moved
      BY <1>9, <3>2
    <3> QED
      BY <1>2, <1>5, <1>6, <1>9, <3>3 DEF Underway
  <2>3. Safe(kind, r.f, r.a, d)
    BY <1>1, <1>4, <1>9, <1>10, <2>2 DEF Safe
  <2> QED
    BY <2>1, <2>3
<1>11. CASE ~GoesOn(r, m)
  <2>1. d.phase = "back" /\ d.err = Verdict(r, m)
    BY <1>9, <1>11
  <2>2. call.op \in Reads /\ Verdict(r, m) = "ok" => m = call.n \/ call.o + m >= EndOf(kind, r.f, r.a)
    <3>1. ASSUME call.op \in Reads, Verdict(r, m) = "ok", m # call.n
          PROVE  call.o + m >= EndOf(kind, r.f, r.a)
      <4>1. r.err = "ok" /\ r.out = <<>>
        BY <1>2, <1>5, <1>11, <3>1, VerdictFacts
      <4>2. call.n > call.moved /\ m = call.moved
        BY <1>2, <1>5, <3>1, <4>1
      <4> QED
        BY <1>3, <3>1, <4>1, <4>2
    <3> QED
      BY <3>1
  <2>3. CASE kind \in Filling /\ m < call.n
    <3>1. AfterRead(call, r) = [d EXCEPT !.got = full]
      BY <1>7, <1>9, <2>1, <2>3
    <3>2. a.filler \in Nat /\ a.filler = FillerOf(kind)
      BY <1>1, GoodFields
    <3>3. /\ full \in Bytes /\ Len(full) = call.n
          /\ \A j \in (m + 1)..call.n : full[j] = a.filler
      <4>1. full = s \o Repeat(a.filler, call.n - m)
        BY <1>9
      <4> HIDE DEF full
      <4>2. /\ a.filler \in Nat /\ call.n \in Nat /\ Len(s) < call.n
            /\ full = s \o Repeat(a.filler, call.n - Len(s))
        BY <1>2, <1>6, <2>3, <3>2, <4>1
      <4>3. /\ full \in Bytes /\ Len(full) = call.n
            /\ \A j \in (Len(s) + 1)..call.n : full[j] = a.filler
        <5>1. FilledUp(s, a.filler, call.n, full)
          BY <1>6, <4>2, FilledFacts
        <5> QED
          BY <5>1 DEF FilledUp
      <4> QED
        BY <1>6, <4>3
    <3> HIDE DEF full
    <3> DEFINE e == [d EXCEPT !.got = full]
    <3>4. /\ e \in Calls /\ e.op = call.op /\ e.o = call.o /\ e.n = call.n /\ e.got = full
          /\ e.moved = m /\ e.phase = "back" /\ e.err = d.err
      BY <1>9, <2>1, <3>3 DEF Calls
    <3> HIDE DEF e
    <3>5. e.op \in Reads => Told(kind, r.f, r.a, e)
      BY <2>1, <2>2, <3>2, <3>3, <3>4 DEF Told
    <3>6. Safe(kind, r.f, r.a, e)
      BY <1>1, <1>4, <3>4, <3>5 DEF Safe
    <3> QED
      BY <3>1, <3>6 DEF e
  <2>4. CASE ~(kind \in Filling /\ m < call.n)
    <3>1. AfterRead(call, r) = d
      BY <1>7, <1>9, <2>4
    <3>2. ASSUME kind \in Filling
          PROVE  Len(d.got) = d.n /\ \A j \in (d.moved + 1)..d.n : d.got[j] = FillerOf(kind)
      <4>1. m = call.n
        BY <1>2, <1>5, <2>4, <3>2
      <4> QED
        BY <1>5, <1>6, <1>9, <4>1
    <3>3. d.op \in Reads => Told(kind, r.f, r.a, d)
      BY <1>9, <2>1, <2>2, <3>2 DEF Told
    <3>4. Safe(kind, r.f, r.a, d)
      BY <1>1, <1>4, <1>9, <2>1, <3>3 DEF Safe
    <3> QED
      BY <3>1, <3>4
  <2> QED
    BY <2>3, <2>4
<1> QED
  BY <1>10, <1>11


-----------------------------------------------------------------------------
(* The steps of the client *)

LEMMA StreamFacts ==
  ASSUME NEW s \in Bytes
  PROVE  /\ Stream(s) \in Hosts /\ Stream(s).data = s /\ Stream(s).pos = 0
         /\ Stream(s).last = "none" /\ Defined(Stream(s))
BY DEF Stream, Hosts, Defined

LEMMA NewAdapterFacts ==
  ASSUME NEW n \in Nat, NEW b \in Nat
  PROVE  /\ Adapter(n, b) \in Adapters /\ Adapter(n, b).filler = b /\ Adapter(n, b).ptr = 0
         /\ Adapter(n, b).size = n /\ Adapter(n, b).elements = n \div Width
<1> DEFINE e == n \div Width
<1>1. e \in Nat
  BY WidthFacts
<1>2. Adapter(n, b) = [ptr |-> 0, dangling_read |-> TRUE, dangling_write |-> TRUE, size |-> n,
                       elements |-> e, base |-> 0, buffer |-> <<>>, filler |-> b]
  BY DEF Adapter
<1> HIDE DEF e
<1>3. <<>> \in Bytes
  BY NothingFacts
<1>4. /\ Adapter(n, b) \in Adapters /\ Adapter(n, b).filler = b /\ Adapter(n, b).ptr = 0
      /\ Adapter(n, b).size = n /\ Adapter(n, b).elements = e
  BY <1>1, <1>2, <1>3 DEF Adapters
<1> QED
  BY <1>4 DEF e

\* An adapter over a stream that was just opened.
LEMMA FreshGood ==
  ASSUME NEW k \in Kinds, NEW s \in Bytes, k \in Vectors => Len(s) % Width = 0
  PROVE  Good(k, Stream(s), Adapter(Len(s), FillerOf(k)))
<1>1. Len(s) \in Nat /\ FillerOf(k) \in Nat
  BY BytesAssumption DEF Bytes, FillerOf
<1> DEFINE g == Stream(s)
           b == Adapter(Len(s), FillerOf(k))
<1>2. g \in Hosts /\ g.data = s /\ g.last = "none" /\ Defined(g)
  BY StreamFacts
<1>3. /\ b \in Adapters /\ b.filler = FillerOf(k) /\ b.size = Len(s)
      /\ b.elements = Len(s) \div Width
  BY <1>1, NewAdapterFacts
<1> HIDE DEF g, b
<1>4. Clean(g, b)
  BY <1>2 DEF Clean
<1>5. k \in Vectors => Whole(g, b)
  BY <1>1, <1>2, <1>3, WidthFacts DEF Whole
<1> QED
  BY <1>2, <1>3, <1>4, <1>5 DEF Good, g, b

LEMMA OpenedFacts ==
  ASSUME NEW k \in Kinds, k = kind, NEW flags, NEW g \in Opened(flags)
  PROVE  \E s \in Bytes : g = Stream(s) /\ (k \in Vectors => s = Initial)
<1>1. Initial \in Bytes /\ <<>> \in Bytes
  BY BytesAssumption, NothingFacts DEF Bytes
<1>2. CASE k \in Proxied \union {"osd"}
  <2>1. Opened(flags) = {OsdOpen(TRUE, Initial, flags).f : w \in flags \intersect {"write"}}
    BY <1>2 DEF Opened, Proxied
  <2>2. g = OsdOpen(TRUE, Initial, flags).f
    BY <2>1
  <2>3. OsdOpen(TRUE, Initial, flags).f \in {Stream(Initial), Stream(<<>>)}
    BY DEF OsdOpen, Out
  <2>4. k \notin Vectors
    BY <1>2 DEF Vectors, Proxied
  <2> QED
    BY <1>1, <2>2, <2>3, <2>4
<1>3. CASE k \notin Proxied \union {"osd"}
  <2>1. g = Stream(Initial)
    BY <1>3 DEF Opened
  <2> QED
    BY <1>1, <2>1
<1> QED
  BY <1>2, <1>3

LEMMA IoInit ==
  ASSUME Init
  PROVE  IoInv
<1>1. kind \in Kinds /\ a = Adapter(Len(f.data), FillerOf(kind)) /\ call = Idle
  BY DEF Init
<1>2. PICK flags \in OpenFlags : f \in Opened(flags)
  BY DEF Init
<1>3. PICK s \in Bytes : f = Stream(s) /\ (kind \in Vectors => s = Initial)
  BY <1>1, <1>2, OpenedFacts
<1>4. f.data = s
  BY <1>3, StreamFacts
<1>5. kind \in Vectors => Len(s) % Width = 0
  BY <1>1, <1>3, VectorAssumption DEF Vectors
<1>6. Good(kind, f, a)
  BY <1>1, <1>3, <1>4, <1>5, FreshGood
<1> QED
  BY <1>1, <1>6, IdleFacts DEF IoInv, Safe

LEMMA ReadSafe ==
  ASSUME IoInv, NEW n \in Lengths, Read(n)
  PROVE  IoInv'
<1>1. Good(kind, f, a) /\ f' = f /\ a' = a /\ kind' = kind /\ call' = Call("read", Position, n, <<>>)
  BY DEF IoInv, Safe, Read, NewCall
<1>2. Position = At(kind, f, a) /\ Position \in Nat /\ n \in Nat /\ <<>> \in Bytes
  BY <1>1, GoodFields, PlaceAssumption, NothingFacts DEF Position, At
<1> DEFINE at == Position
<1> HIDE DEF at
<1>3. "read" \in Reads /\ "read" \notin Writes /\ "read" # "load"
  BY DEF Reads, Writes
<1>4. Safe(kind, f, a, Call("read", at, n, <<>>))
  BY <1>1, <1>2, <1>3, BeginSafe DEF at
<1> QED
  BY <1>1, <1>4 DEF IoInv, at

LEMMA ReadAtSafe ==
  ASSUME IoInv, NEW n \in Lengths, NEW o \in Offsets, ReadAt(o, n)
  PROVE  IoInv'
<1>1. Good(kind, f, a) /\ f' = f /\ a' = a /\ kind' = kind /\ call' = Call("read_at", o, n, <<>>)
  BY DEF IoInv, Safe, ReadAt, NewCall
<1>2. o \in Nat /\ n \in Nat /\ <<>> \in Bytes
  BY PlaceAssumption, NothingFacts
<1>3. "read_at" \in Reads /\ "read_at" \notin Writes /\ "read_at" \notin {"read", "load"}
  BY DEF Reads, Writes
<1>4. Safe(kind, f, a, Call("read_at", o, n, <<>>))
  BY <1>1, <1>2, <1>3, BeginSafe
<1> QED
  BY <1>1, <1>4 DEF IoInv

LEMMA WriteSafe ==
  ASSUME IoInv, NEW w \in Payloads, Write(w)
  PROVE  IoInv'
<1>1. Good(kind, f, a) /\ f' = f /\ a' = a /\ kind' = kind /\ call' = Call("write", Position, Len(w), w)
  BY DEF IoInv, Safe, Write, NewCall
<1>2. Position \in Nat /\ w \in Bytes /\ Len(w) \in Nat
  BY <1>1, GoodFields, BytesAssumption DEF Position, Bytes
<1> DEFINE at == Position
<1> HIDE DEF at
<1>3. "write" \in Writes /\ "write" \notin Reads /\ "write" \notin {"read", "load"}
  BY DEF Reads, Writes
<1>4. Safe(kind, f, a, Call("write", at, Len(w), w))
  BY <1>1, <1>2, <1>3, BeginSafe DEF at
<1> QED
  BY <1>1, <1>4 DEF IoInv, at

LEMMA WriteAtSafe ==
  ASSUME IoInv, NEW w \in Payloads, NEW o \in Offsets, WriteAt(o, w)
  PROVE  IoInv'
<1>1. Good(kind, f, a) /\ f' = f /\ a' = a /\ kind' = kind /\ call' = Call("write_at", o, Len(w), w)
  BY DEF IoInv, Safe, WriteAt, NewCall
<1>2. o \in Nat /\ w \in Bytes /\ Len(w) \in Nat
  BY PlaceAssumption, BytesAssumption DEF Bytes
<1>3. "write_at" \in Writes /\ "write_at" \notin Reads /\ "write_at" \notin {"read", "load"}
  BY DEF Reads, Writes
<1>4. Safe(kind, f, a, Call("write_at", o, Len(w), w))
  BY <1>1, <1>2, <1>3, BeginSafe
<1> QED
  BY <1>1, <1>4 DEF IoInv

LEMMA LoadSafe ==
  ASSUME IoInv, Load
  PROVE  IoInv'
<1>1. /\ Good(kind, f, a) /\ kind = "core" /\ kind' = kind
      /\ f' = Stream(f.data) /\ a' = Adapter(Len(f.data), 0)
      /\ call' = Call("load", 0, Len(f.data), <<>>)
  BY DEF IoInv, Safe, Load, NewCall
<1>2. /\ f.data \in Bytes /\ Len(f.data) \in Nat /\ <<>> \in Bytes /\ kind \in Kinds
      /\ kind \notin Vectors /\ FillerOf(kind) = 0 /\ kind \notin Stdios
  BY <1>1, GoodFields, NothingFacts DEF Good, Vectors, Stdios, FillerOf, Filling
<1>3. Good(kind, Stream(f.data), Adapter(Len(f.data), 0))
  BY <1>2, FreshGood
<1>4. At(kind, Stream(f.data), Adapter(Len(f.data), 0)) = 0
  BY <1>2, NewAdapterFacts DEF At
<1>5. "load" \in Reads /\ "load" \notin Writes
  BY DEF Reads, Writes
<1>6. Safe(kind, Stream(f.data), Adapter(Len(f.data), 0), Call("load", 0, Len(f.data), <<>>))
  BY <1>1, <1>2, <1>3, <1>4, <1>5, BeginSafe
<1> QED
  BY <1>1, <1>6 DEF IoInv


LEMMA TransferSafe ==
  ASSUME ~OsdSeekFails, IoInv, Transfer
  PROVE  IoInv'
<1>1. PICK r \in Transfers : Step(r)
  BY DEF Transfer
<1>2. call.phase = "busy"
  BY DEF Transfer
<1>3. f' = r.f /\ a' = r.a /\ kind' = kind
  BY <1>1 DEF Step, Effect
<1>4. CASE call.w = <<>>
  <2>1. call' = AfterRead(call, r)
    BY <1>1, <1>4 DEF Step
  <2>2. Safe(kind, r.f, r.a, AfterRead(call, r))
    BY <1>2, <1>4, ReadStepSafe
  <2> QED
    BY <1>3, <2>1, <2>2 DEF IoInv
<1>5. CASE call.w # <<>>
  <2>1. call' = AfterWrite(call, r)
    BY <1>1, <1>5 DEF Step
  <2>2. Safe(kind, r.f, r.a, AfterWrite(call, r))
    BY <1>2, <1>5, WriteStepSafe
  <2> QED
    BY <1>3, <2>1, <2>2 DEF IoInv
<1> QED
  BY <1>4, <1>5

\* The file has as many bytes as Contents.
LEMMA ContentsLength ==
  ASSUME Good(kind, f, a)
  PROVE  Len(Contents) = EndOf(kind, f, a) /\ Len(Contents) \in Nat
<1>1. /\ f \in Hosts /\ a \in Adapters /\ f.data \in Bytes /\ Len(f.data) \in Nat /\ a.size \in Nat
      /\ (kind \in Vectors => Whole(f, a))
  BY GoodFields
<1>2. CASE kind \in Vectors
  <2> DEFINE n == CheckResized(f, a).size
  <2>1. n \in Nat /\ n <= Len(f.data)
    BY <1>1, <1>2, CheckResizedFacts, AdapterFields
  <2>2. Contents = SubSeq(f.data, 1, n)
    BY <1>2 DEF Contents, Vectors
  <2>3. EndOf(kind, f, a) = n
    BY <1>2, EndFacts
  <2> HIDE DEF n
  <2> QED
    BY <1>1, <2>1, <2>2, <2>3, SubSeqFacts
<1>3. CASE kind = "memory"
  <2> DEFINE n == Least(a.size, Len(f.data))
  <2>1. n \in Nat /\ n <= Len(f.data)
    BY <1>1, LeastMost
  <2>2. Contents = SubSeq(f.data, 1, n)
    BY <1>3 DEF Contents, Vectors
  <2>3. EndOf(kind, f, a) = n
    BY <1>3, EndFacts
  <2> HIDE DEF n
  <2> QED
    BY <1>1, <2>1, <2>2, <2>3, SubSeqFacts
<1>4. CASE kind \notin Vectors /\ kind # "memory"
  <2>1. Contents = f.data
    BY <1>4 DEF Contents
  <2> QED
    BY <1>1, <1>4, <2>1, EndFacts
<1> QED
  BY <1>2, <1>3, <1>4

LEMMA SeekSafe ==
  ASSUME IoInv, NEW t \in Targets, Seek(t[1], t[2])
  PROVE  IoInv'
<1> DEFINE whence == t[1]
           offset == t[2]
           o == Base(whence) + offset
<1>1. whence \in {"set", "cur", "end"} /\ offset \in Int
  BY PlaceAssumption
<1>2. Good(kind, f, a) /\ kind' = kind
  BY DEF IoInv, Safe, Seek, NewCall
<1>3. PICK r \in Seeks(whence, offset) : Effect(r) /\ call' = Answer("seek", o, r)
  BY DEF Seek
<1> HIDE DEF whence, offset
<1>4. Base(whence) \in Int
  <2> DEFINE end == IF kind \in Proxied THEN a.size ELSE Len(Contents)
  <2>1. end \in Int
    BY <1>2, ContentsLength, GoodFields
  <2>2. Base(whence) = From(whence, end)
    BY DEF Base
  <2> HIDE DEF end
  <2> QED
    BY <1>2, <2>1, <2>2, FromFacts
<1>5. o \in Int
  BY <1>1, <1>4
<1> HIDE DEF o
<1>6. Sound(kind, r)
  BY <1>1, <1>2, <1>3, SeekFacts
<1>7. Safe(kind, r.f, r.a, Answer("seek", o, r))
  BY <1>5, <1>6, AnswerSafe
<1> QED
  BY <1>2, <1>3, <1>7 DEF IoInv, Effect

LEMMA LengthSafe ==
  ASSUME IoInv, Length
  PROVE  IoInv'
<1>1. Good(kind, f, a) /\ kind' = kind
  BY DEF IoInv, Safe, Length, NewCall
<1>2. PICK r \in LengthOf : Effect(r) /\ call' = Answer("length", 0, r)
  BY DEF Length
<1>3. Sound(kind, r)
  BY <1>1, <1>2, LengthFacts
<1>4. Safe(kind, r.f, r.a, Answer("length", 0, r))
  BY <1>3, AnswerSafe
<1> QED
  BY <1>1, <1>2, <1>4 DEF IoInv, Effect

LEMMA FlushSafe ==
  ASSUME IoInv, Flush
  PROVE  IoInv'
<1>1. Good(kind, f, a) /\ kind' = kind
  BY DEF IoInv, Safe, Flush, NewCall
<1>2. PICK r \in FlushOf : Effect(r) /\ call' = Answer("flush", 0, r)
  BY DEF Flush
<1>3. Sound(kind, r)
  BY <1>1, <1>2, FlushFacts
<1>4. Safe(kind, r.f, r.a, Answer("flush", 0, r))
  BY <1>3, AnswerSafe
<1> QED
  BY <1>1, <1>2, <1>4 DEF IoInv, Effect

LEMMA TruncateSafe ==
  ASSUME IoInv, NEW n \in Offsets, Truncate(n)
  PROVE  IoInv'
<1>1. /\ Good(kind, f, a) /\ kind' = kind /\ kind \in Proxied \union {"memory"}
      /\ n \in Nat /\ n \in Int
  BY PlaceAssumption DEF IoInv, Safe, Truncate, NewCall
<1>2. PICK r \in TruncateOf(n) : Effect(r) /\ call' = Answer("truncate", n, r)
  BY DEF Truncate
<1>3. Sound(kind, r)
  BY <1>1, <1>2, TruncateFacts
<1>4. Safe(kind, r.f, r.a, Answer("truncate", n, r))
  BY <1>1, <1>3, AnswerSafe
<1> QED
  BY <1>1, <1>2, <1>4 DEF IoInv, Effect

\* A file whose bytes were changed by someone else.
LEMMA RewrittenGood ==
  ASSUME Good(kind, f, a), NEW s \in Bytes, kind \in Vectors => Len(s) % Width = 0
  PROVE  Good(kind, [f EXCEPT !.data = s], a)
<1>1. /\ f \in Hosts /\ a \in Adapters /\ Defined(f) /\ (kind \in Stdios => Clean(f, a))
      /\ (kind \in Vectors => Whole(f, a))
  BY GoodFields
<1> DEFINE g == [f EXCEPT !.data = s]
<1>2. g \in Hosts /\ g.data = s /\ g.last = f.last /\ g.undefined = f.undefined
  BY <1>1 DEF Hosts
<1> HIDE DEF g
<1>3. Defined(g) /\ (kind \in Stdios => Clean(g, a)) /\ (kind \in Vectors => Whole(g, a))
  BY <1>1, <1>2 DEF Defined, Clean, Whole
<1> QED
  BY <1>2, <1>3 DEF Good, g

\* The bytes s, as many of them as fit into m, and zeroes.
LEMMA ResizedFacts ==
  ASSUME NEW s \in Bytes, NEW m \in Nat,
         NEW t, t = [k \in 1..m |-> IF k <= Len(s) THEN s[k] ELSE 0]
  PROVE  t \in Bytes /\ Len(t) = m
<1>1. \A k \in 1..m : (IF k <= Len(s) THEN s[k] ELSE 0) \in Nat
  BY DEF Bytes
<1> QED
  BY <1>1 DEF Bytes

LEMMA ResizeSafe ==
  ASSUME IoInv, NEW n \in Offsets, ResizeVector(n)
  PROVE  IoInv'
<1> DEFINE s == [k \in 1..(n * Width) |-> IF k <= Len(f.data) THEN f.data[k] ELSE 0]
<1>1. Good(kind, f, a) /\ kind' = kind /\ a' = a /\ f' = [f EXCEPT !.data = s]
  BY DEF IoInv, Safe, ResizeVector, NewCall
<1>2. call' = [Idle EXCEPT !.op = "truncate"]
  BY DEF ResizeVector
<1>3. n \in Nat /\ Width \in Nat
  BY PlaceAssumption, WidthAssumption
<1>4. f.data \in Bytes /\ n * Width \in Nat
  BY <1>1, <1>3, GoodFields
<1>5. s \in Bytes /\ Len(s) = n * Width
  BY <1>4, ResizedFacts
<1> HIDE DEF s
<1>6. Len(s) % Width = 0
  BY <1>3, <1>5, WidthFacts
<1>7. Good(kind, [f EXCEPT !.data = s], a)
  BY <1>1, <1>5, <1>6, RewrittenGood
<1>8. call' \in Calls /\ call'.phase = "idle" /\ call'.op = "truncate"
  BY <1>2, IdleFacts DEF Calls
<1> QED
  BY <1>1, <1>7, <1>8 DEF IoInv, Safe

LEMMA CutSafe ==
  ASSUME IoInv, CutWhileLoading
  PROVE  IoInv'
<1> DEFINE s == SubSeq(f.data, 1, 1)
<1>1. /\ Good(kind, f, a) /\ call \in Calls /\ Underway(kind, f, a, call) /\ kind = "core"
      /\ call.phase = "busy" /\ call.op = "load" /\ Len(f.data) > 1
      /\ kind' = kind /\ a' = a /\ call' = call /\ f' = [f EXCEPT !.data = s]
  BY DEF IoInv, Safe, CutWhileLoading
<1>2. f.data \in Bytes /\ f \in Hosts /\ kind \notin Vectors /\ kind \notin Stdios
  BY <1>1, GoodFields DEF Vectors, Stdios
<1>3. s \in Bytes
  BY <1>1, <1>2 DEF Bytes
<1> HIDE DEF s
<1>4. Good(kind, f', a)
  BY <1>1, <1>2, <1>3, RewrittenGood
<1>5. Underway(kind, f', a, call)
  BY <1>1, <1>2 DEF Underway, At
<1> QED
  BY <1>1, <1>4, <1>5 DEF IoInv, Safe

LEMMA IoStep ==
  ASSUME ~OsdSeekFails, IoInv, [Next]_vars
  PROVE  IoInv'
<1>1. CASE UNCHANGED vars
  BY <1>1 DEF vars, IoInv
<1>2. CASE Done
  BY <1>2 DEF Done, vars, IoInv
<1>3. CASE \E n \in Lengths : Read(n) \/ \E o \in Offsets : ReadAt(o, n)
  BY <1>3, ReadSafe, ReadAtSafe
<1>4. CASE \E w \in Payloads : Write(w) \/ \E o \in Offsets : WriteAt(o, w)
  BY <1>4, WriteSafe, WriteAtSafe
<1>5. CASE \E t \in Targets : Seek(t[1], t[2])
  BY <1>5, SeekSafe
<1>6. CASE \E o \in Offsets : Truncate(o) \/ ResizeVector(o)
  BY <1>6, TruncateSafe, ResizeSafe
<1>7. CASE Load \/ Transfer \/ Length \/ Flush \/ CutWhileLoading
  BY <1>7, LoadSafe, TransferSafe, LengthSafe, FlushSafe, CutSafe
<1> QED
  BY <1>1, <1>2, <1>3, <1>4, <1>5, <1>6, <1>7 DEF Next

LEMMA IoInvDefined ==
  ASSUME IoInv
  PROVE  NoUndefinedStdio
BY DEF IoInv, Safe, Good, Defined, NoUndefinedStdio

LEMMA IoInvTold ==
  ASSUME IoInv
  PROVE  ShortOnlyAtEnd
<1>1. Good(kind, f, a) /\ (call.phase = "back" /\ call.op \in Reads => Told(kind, f, a, call))
  BY DEF IoInv, Safe
<1>2. Len(Contents) = EndOf(kind, f, a)
  BY <1>1, ContentsLength
<1> QED
  BY <1>1, <1>2 DEF ShortOnlyAtEnd, Told, Reads

-----------------------------------------------------------------------------
\* Whatever is read, written, sought, measured and flushed through the stdio adapters and
\* their filling variants of ioprocs.cpp and ioprocsfill.h, whichever of those calls fail
\* half way, the C stream underneath never sees input right after output or output right
\* after unfinished input; nor does the stream of an osd_file, provided the seeks of
\* minimal_osd.cpp, whose results it does not look at, succeed.
THEOREM StdioDefined ==
  ASSUME ~OsdSeekFails
  PROVE  Spec => []NoUndefinedStdio
<1>1. Init => IoInv
  BY IoInit
<1>2. IoInv /\ [Next]_vars => IoInv'
  BY IoStep
<1>3. IoInv => NoUndefinedStdio
  BY IoInvDefined
<1> QED
  BY <1>1, <1>2, <1>3, PTL DEF Spec

\* The loops of read and read_at in ioprocs.cpp and of core_file::load, over every adapter
\* and any interruptions and short transfers: a read that reports success is whole or
\* reaches the end of the file, and the wrappers of ioprocsfill.h always give back a whole
\* buffer whose rest is the filler, after errors too.
THEOREM ReadsReachTheEnd ==
  ASSUME ~OsdSeekFails
  PROVE  Spec => []ShortOnlyAtEnd
<1>1. Init => IoInv
  BY IoInit
<1>2. IoInv /\ [Next]_vars => IoInv'
  BY IoStep
<1>3. IoInv => ShortOnlyAtEnd
  BY IoInvTold
<1> QED
  BY <1>1, <1>2, <1>3, PTL DEF Spec

-----------------------------------------------------------------------------
(***************************************************************************)
(* Io implements ByteStream: the methods of every adapter, and the loops   *)
(* of their callers, are those of an array of bytes with a position.       *)
(* First what a piece read, an overlay written and an extension are, byte  *)
(* by byte; then each kind of adapter; then every action of the client.    *)
(***************************************************************************)

-----------------------------------------------------------------------------
(* What is read and what is written, byte by byte *)

\* A read at o of a file with e bytes, which are those of d, gave out.
Gives(out, d, e, o) == \A j \in 1..Len(out) : o + j <= e /\ out[j] = d[o + j]

\* A write of w at o, successful or not, left the e2 bytes of d2 of a file with the e bytes of d.
Within(d, e, d2, e2, o, w, fill) ==
  /\ e2 >= e /\ (e2 <= o + Len(w) \/ e2 = e)
  /\ \A j \in 1..e : j <= o \/ j > o + Len(w) => d2[j] = d[j]
  /\ \A j \in 1..e2 : j > e /\ j <= o => d2[j] = fill

\* It took out of w, and nothing behind that changed.
Took(d, e, d2, e2, o, w, out) ==
  /\ \A j \in 1..Len(out) : o + j <= e2 /\ d2[o + j] = w[j]
  /\ \A j \in 1..e2 : j > o + Len(out) => j <= e /\ d2[j] = d[j]

\* A file with the e bytes of d was extended towards o by a filler.
Extended(d, e, d2, e2, o, fill) ==
  /\ e2 >= e
  /\ \A j \in 1..e : d2[j] = d[j]
  /\ \A j \in 1..e2 : j > e => j <= o /\ d2[j] = fill

\* A piece of a file has the bytes of its place, and all of them that there are.
LEMMA PieceBytes ==
  ASSUME NEW s \in Bytes, NEW o \in Nat, NEW n \in Nat
  PROVE  /\ Gives(Piece(s, o, n), s, Len(s), o)
         /\ o < Len(s) => Len(Piece(s, o, n)) = Least(o + n, Len(s)) - o
         /\ o >= Len(s) => Piece(s, o, n) = <<>>
<1>1. Len(s) \in Nat
  BY DEF Bytes
<1>2. CASE o >= Len(s)
  BY <1>1, <1>2 DEF Piece, Gives
<1>3. CASE o < Len(s)
  <2> DEFINE m == Least(o + n, Len(s))
  <2>1. m \in Nat /\ m <= Len(s) /\ m >= o
    BY <1>1, <1>3 DEF Least
  <2>0. ~(o >= Len(s))
    BY <1>1, <1>3
  <2>2. Piece(s, o, n) = SubSeq(s, o + 1, m)
    BY <2>0 DEF Piece
  <2> HIDE DEF m
  <2>3. Len(SubSeq(s, o + 1, m)) = m - o
    BY <1>1, <2>1, SubSeqFacts
  <2>4. \A j \in 1..(m - o) : SubSeq(s, o + 1, m)[j] = s[o + j]
    BY <1>1, <2>1 DEF Bytes
  <2>5. Gives(SubSeq(s, o + 1, m), s, Len(s), o)
    BY <1>1, <2>1, <2>3, <2>4 DEF Gives
  <2>6. Len(Piece(s, o, n)) = m - o
    BY <2>2, <2>3
  <2>7. Gives(Piece(s, o, n), s, Len(s), o)
    BY <2>2, <2>5
  <2> QED
    BY <2>0, <2>6, <2>7 DEF m
<1> QED
  BY <1>1, <1>2, <1>3

\* A part of what was read was read as well.
LEMMA PrefixGives ==
  ASSUME NEW s \in Bytes, NEW d, NEW e \in Nat, NEW o \in Nat, Gives(s, d, e, o),
         NEW k \in Nat, k <= Len(s)
  PROVE  Gives(SubSeq(s, 1, k), d, e, o)
<1>1. Len(s) \in Nat /\ Len(SubSeq(s, 1, k)) = k
  BY SubSeqFacts DEF Bytes
<1>2. \A j \in 1..k : SubSeq(s, 1, k)[j] = s[j]
  BY <1>1 DEF Bytes
<1> QED
  BY <1>1, <1>2 DEF Gives

\* The bytes of an overlay.
LEMMA OverlayBytes ==
  ASSUME NEW s \in Bytes, NEW o \in Nat, NEW w \in Bytes, NEW b \in Nat
  PROVE  /\ w = <<>> => Overlay(s, o, w, b) = s
         /\ w # <<>> => Len(Overlay(s, o, w, b)) = Most(Len(s), o + Len(w))
         /\ \A j \in 1..Len(w) : Overlay(s, o, w, b)[o + j] = w[j]
         /\ \A j \in 1..Len(s) : j <= o \/ j > o + Len(w) => Overlay(s, o, w, b)[j] = s[j]
         /\ \A j \in 1..o : w # <<>> /\ j > Len(s) => Overlay(s, o, w, b)[j] = b
<1>1. Len(s) \in Nat /\ Len(w) \in Nat /\ (w = <<>> <=> Len(w) = 0)
  BY DEF Bytes
<1>2. CASE w = <<>>
  BY <1>1, <1>2 DEF Overlay
<1>3. CASE w # <<>>
  <2> DEFINE m == Most(Len(s), o + Len(w))
             t == [k \in 1..m |-> IF k > o /\ k <= o + Len(w) THEN w[k - o]
                                  ELSE IF k <= Len(s) THEN s[k] ELSE b]
  <2>1. m \in Nat /\ m >= Len(s) /\ m >= o + Len(w)
    BY <1>1 DEF Most
  <2>2. Overlay(s, o, w, b) = t
    BY <1>3 DEF Overlay
  <2>3. Len(t) = m
    <3>1. t \in Bytes
      BY <2>2, OverlayType
    <3>2. t \in Seq(Nat) /\ DOMAIN t = 1..m
      BY <3>1 DEF Bytes
    <3> HIDE DEF t
    <3>3. 1..Len(t) = 1..m /\ Len(t) \in Nat
      BY <3>2
    <3> QED
      BY <2>1, <3>3
  <2>4. \A j \in 1..Len(w) : t[o + j] = w[j]
    <3>1. ASSUME NEW j \in 1..Len(w) PROVE t[o + j] = w[j]
      <4>1. o + j \in 1..m /\ o + j > o /\ o + j <= o + Len(w) /\ (o + j) - o = j
        BY <1>1, <2>1
      <4> HIDE DEF m
      <4> QED
        BY <4>1
    <3> QED
      BY <3>1
  <2>5. \A j \in 1..Len(s) : j <= o \/ j > o + Len(w) => t[j] = s[j]
    <3>1. ASSUME NEW j \in 1..Len(s), j <= o \/ j > o + Len(w) PROVE t[j] = s[j]
      <4>1. j \in 1..m /\ ~(j > o /\ j <= o + Len(w)) /\ j <= Len(s)
        BY <1>1, <2>1, <3>1
      <4> HIDE DEF m
      <4> QED
        BY <4>1
    <3> QED
      BY <3>1
  <2>6. \A j \in 1..o : j > Len(s) => t[j] = b
    <3>1. ASSUME NEW j \in 1..o, j > Len(s) PROVE t[j] = b
      <4>1. j \in 1..m /\ ~(j > o) /\ ~(j <= Len(s))
        BY <1>1, <2>1, <3>1
      <4> HIDE DEF m
      <4> QED
        BY <4>1
    <3> QED
      BY <3>1
  <2> HIDE DEF t
  <2> QED
    BY <1>3, <2>2, <2>3, <2>4, <2>5, <2>6 DEF m
<1> QED
  BY <1>2, <1>3

\* The bytes t have w at o, and beside it what s has.
Overlaid(t, s, o, w) == /\ \A j \in 1..Len(w) : t[o + j] = w[j]
                        /\ \A j \in 1..Len(s) : j <= o \/ j > o + Len(w) => t[j] = s[j]

\* Bytes laid over a file are at their place, and the rest is what it was.
LEMMA OverlayParts ==
  ASSUME NEW s \in Bytes, NEW o \in Nat, NEW w \in Bytes, NEW b \in Nat
  PROVE  Overlaid(Overlay(s, o, w, b), s, o, w)
<1> DEFINE t == Overlay(s, o, w, b)
<1>1. /\ w = <<>> => t = s
      /\ w # <<>> => Len(t) = Most(Len(s), o + Len(w))
      /\ \A j \in 1..Len(w) : t[o + j] = w[j]
      /\ \A j \in 1..Len(s) : j <= o \/ j > o + Len(w) => t[j] = s[j]
      /\ \A j \in 1..o : w # <<>> /\ j > Len(s) => t[j] = b
  BY OverlayBytes, ZenonT(60)
<1> HIDE DEF t
<1>2. Overlaid(t, s, o, w)
  BY <1>1 DEF Overlaid
<1> QED
  BY <1>2 DEF t

\* u is the beginning of w.
Begins(u, w) == Len(u) <= Len(w) /\ \A j \in 1..Len(u) : u[j] = w[j]

\* Nothing, all of w, and as much of it as a transfer took begin w.
LEMMA BeginsFacts ==
  ASSUME NEW w \in Bytes
  PROVE  /\ Begins(w, w) /\ Begins(<<>>, w)
         /\ \A k \in Nat : k <= Len(w) => Begins(SubSeq(w, 1, k), w)
<1>1. Len(w) \in Nat
  BY DEF Bytes
<1>2. ASSUME NEW k \in Nat, k <= Len(w) PROVE Begins(SubSeq(w, 1, k), w)
  <2>1. Len(SubSeq(w, 1, k)) = k
    BY <1>1, <1>2, SubSeqFacts
  <2>2. \A j \in 1..k : SubSeq(w, 1, k)[j] = w[j]
    BY <1>1, <1>2 DEF Bytes
  <2> QED
    BY <1>2, <2>1, <2>2 DEF Begins
<1> QED
  BY <1>1, <1>2 DEF Begins

\* A write that took the beginning u of w.
LEMMA OverlayWritten ==
  ASSUME NEW s \in Bytes, NEW o \in Nat, NEW w \in Bytes, NEW u \in Bytes, Begins(u, w), NEW b \in Nat
  PROVE  LET t == Overlay(s, o, u, b) IN
         /\ t \in Bytes /\ Len(t) \in Nat
         /\ Within(s, Len(s), t, Len(t), o, w, b)
         /\ Took(s, Len(s), t, Len(t), o, w, u)
<1> DEFINE t == Overlay(s, o, u, b)
<1>1. Len(s) \in Nat /\ Len(w) \in Nat /\ Len(u) \in Nat /\ (u = <<>> <=> Len(u) = 0)
  BY DEF Bytes
<1>2. t \in Bytes
  BY OverlayType
<1>3. /\ u = <<>> => t = s
      /\ u # <<>> => Len(t) = Most(Len(s), o + Len(u))
      /\ \A j \in 1..Len(u) : t[o + j] = u[j]
      /\ \A j \in 1..Len(s) : j <= o \/ j > o + Len(u) => t[j] = s[j]
      /\ \A j \in 1..o : u # <<>> /\ j > Len(s) => t[j] = b
  BY OverlayBytes, ZenonT(60)
<1> HIDE DEF t
<1>2a. Len(t) \in Nat
  BY <1>2 DEF Bytes
<1>4. Len(t) >= Len(s) /\ (Len(t) <= o + Len(u) \/ Len(t) = Len(s))
  BY <1>1, <1>3 DEF Most
<1>5. \A j \in 1..Len(s) : j <= o \/ j > o + Len(w) => t[j] = s[j]
  BY <1>1, <1>3 DEF Begins
<1>6. \A j \in 1..Len(t) : j > Len(s) /\ j <= o => t[j] = b
  BY <1>1, <1>3, <1>4
<1>4a. \A j \in 1..Len(u) : o + j <= Len(t)
  BY <1>1, <1>3 DEF Most
<1>7. \A j \in 1..Len(u) : o + j <= Len(t) /\ t[o + j] = w[j]
  BY <1>1, <1>3, <1>4a DEF Begins
<1>8. \A j \in 1..Len(t) : j > o + Len(u) => j <= Len(s) /\ t[j] = s[j]
  BY <1>1, <1>2a, <1>3, <1>4
<1>9. Len(t) <= o + Len(w) \/ Len(t) = Len(s)
  BY <1>1, <1>2a, <1>4 DEF Begins
<1> QED
  BY <1>2, <1>2a, <1>4, <1>5, <1>6, <1>7, <1>8, <1>9 DEF Within, Took, t

\* A write that leaves every byte as it was.
LEMMA NothingWritten ==
  ASSUME NEW d, NEW e \in Nat, NEW o \in Nat, NEW w \in Bytes, NEW fill
  PROVE  /\ Within(d, e, d, e, o, w, fill)
         /\ Took(d, e, d, e, o, w, <<>>)
BY DEF Within, Took, Bytes

\* A write at o of a file that was extended to o is one of the file before.
LEMMA ExtendWritten ==
  ASSUME NEW d, NEW e \in Nat, NEW d1, NEW e1 \in Nat, NEW d2, NEW e2 \in Nat, NEW o \in Nat,
         NEW w \in Bytes, NEW fill, NEW other,
         Extended(d, e, d1, e1, o, fill), e1 >= o, Within(d1, e1, d2, e2, o, w, other)
  PROVE  /\ Within(d, e, d2, e2, o, w, fill)
         /\ \A out \in Bytes : Took(d1, e1, d2, e2, o, w, out) => Took(d, e, d2, e2, o, w, out)
<1>0. Len(w) \in Nat
  BY DEF Bytes
<1>1. e1 >= e /\ (e1 <= o \/ e1 = e)
  BY DEF Extended
<1>2. e2 >= e /\ (e2 <= o + Len(w) \/ e2 = e)
  BY <1>0, <1>1 DEF Within
<1>3. \A j \in 1..e : j <= o \/ j > o + Len(w) => d2[j] = d[j]
  BY <1>1 DEF Within, Extended
<1>4. \A j \in 1..e2 : j > e /\ j <= o => d2[j] = fill
  BY <1>1 DEF Within, Extended
<1>5. ASSUME NEW out \in Bytes, Took(d1, e1, d2, e2, o, w, out)
      PROVE  Took(d, e, d2, e2, o, w, out)
  <2>0. Len(out) \in Nat
    BY DEF Bytes
  <2>1. ASSUME NEW j \in 1..e2, j > o + Len(out)
        PROVE  j <= e /\ d2[j] = d[j]
    <3>1. j <= e1 /\ d2[j] = d1[j] /\ j > o
      BY <2>0, <1>5, <2>1 DEF Took
    <3>2. j <= e
      BY <2>0, <3>1 DEF Extended
    <3> QED
      BY <3>1, <3>2 DEF Extended
  <2> QED
    BY <1>5, <2>1 DEF Took
<1> QED
  BY <1>2, <1>3, <1>4, <1>5 DEF Within

\* An extension alone is a write that failed.
LEMMA ExtendedFailed ==
  ASSUME NEW d, NEW e \in Nat, NEW d1, NEW e1 \in Nat, NEW o \in Nat, NEW w \in Bytes,
         NEW fill, Extended(d, e, d1, e1, o, fill)
  PROVE  Within(d, e, d1, e1, o, w, fill)
<1>0. Len(w) \in Nat
  BY DEF Bytes
<1>1. e1 >= e /\ (e1 <= o \/ e1 = e)
  BY DEF Extended
<1> QED
  BY <1>0, <1>1 DEF Within, Extended

\* What a method that reads at o made of the file g, and one that writes w there.
Pulls(r, g, o) == r.f.data = g.data /\ (r.err = "ok" => Gives(r.out, g.data, Len(g.data), o))
Puts(r, g, o, w, fill) ==
  /\ Within(g.data, Len(g.data), r.f.data, Len(r.f.data), o, w, fill)
  /\ r.err = "ok" => Took(g.data, Len(g.data), r.f.data, Len(r.f.data), o, w, r.out)

\* What follows a transfer leaves the bytes alone and may turn a success into a failure.
LEMMA SameEffect ==
  ASSUME NEW r, NEW q, NEW g, NEW h, NEW o, NEW w, NEW fill, q.f.data = r.f.data, h.data = g.data,
         q.err = "ok" => r.err = "ok" /\ q.out = r.out
  PROVE  /\ Pulls(r, g, o) => Pulls(q, h, o)
         /\ Puts(r, g, o, w, fill) => Puts(q, h, o, w, fill)
BY DEF Pulls, Puts

\* A transfer that failed before any byte moved.
LEMMA NoEffect ==
  ASSUME NEW r, NEW g \in Hosts, NEW o \in Nat, NEW w \in Bytes, NEW fill,
         r.f.data = g.data, r.err # "ok"
  PROVE  Pulls(r, g, o) /\ Puts(r, g, o, w, fill)
<1>1. Len(g.data) \in Nat
  BY HostFields
<1> QED
  BY <1>1, NothingWritten DEF Pulls, Puts

-----------------------------------------------------------------------------
(* What the C stream and its adapters read and write *)

\* fread gives the bytes at the position, however it is cut short.
LEMMA FreadPulls ==
  ASSUME NEW g \in Hosts, NEW n \in Nat, NEW r \in Fread(g, n)
  PROVE  /\ r.f \in Hosts /\ Pulls(r, g, g.pos)
         /\ r.err = "ok" => r.out = Piece(g.data, g.pos, n) /\ r.f.pos = g.pos + Len(r.out)
<1>1. g.data \in Bytes /\ g.pos \in Nat
  BY HostFields
<1>2. r.f \in Hosts /\ r.f.data = g.data /\ r.f.pos = g.pos + Len(r.out)
  BY FreadFacts
<1> DEFINE in == Piece(g.data, g.pos, n)
<1>3. in \in Bytes /\ Len(in) \in Nat /\ Len(in) <= n /\ Gives(in, g.data, Len(g.data), g.pos)
  BY <1>1, PieceFacts, PieceBytes
<1>4. r.err = "ok" => r.out = in
  <2>1. CASE n = 0
    <3>1. r = Out(g, "ok", <<>>)
      BY <2>1 DEF Fread
    <3>2. r.out = <<>> /\ Len(in) = 0
      BY <1>3, <2>1, <3>1 DEF Out
    <3> HIDE DEF in
    <3> QED
      BY <1>3, <3>2 DEF Bytes
  <2>2. CASE n # 0
    <3>1. r \in Input(g, n, in)
      BY <2>2 DEF Fread
    <3> HIDE DEF in
    <3>2. CASE r = WholeInput(g, n, in)
      BY <3>2 DEF WholeInput, Out
    <3>3. ASSUME NEW k, NEW e \in Faults, r = CutInput(g, in, k, e) PROVE r.err # "ok"
      BY <3>3, FaultAssumption DEF CutInput, Out
    <3> QED
      BY <3>1, <3>2, <3>3 DEF Input
  <2> QED
    BY <2>1, <2>2
<1> QED
  BY <1>2, <1>3, <1>4 DEF Pulls

\* Output lays w over the file at the position and moves behind it.
LEMMA AfterOutputData ==
  ASSUME NEW g \in Hosts, NEW w \in Bytes
  PROVE  /\ AfterOutput(g, w).data = Overlay(g.data, g.pos, w, 0)
         /\ AfterOutput(g, w).pos = g.pos + Len(w)
BY DEF AfterOutput, Hosts

\* fwrite lays a beginning of w over the file, all of it if it succeeds.
LEMMA FwriteOverlays ==
  ASSUME NEW g \in Hosts, NEW w \in Bytes, NEW r \in Fwrite(g, w)
  PROVE  \E u \in Bytes :
           /\ Begins(u, w) /\ r.f.data = Overlay(g.data, g.pos, u, 0)
           /\ r.err = "ok" => u = w /\ r.out = w /\ r.f.pos = g.pos + Len(w)
<1>0. /\ Len(w) \in Nat /\ (w = <<>> <=> Len(w) = 0)
      /\ g.data \in Bytes /\ g.pos \in Nat /\ Begins(w, w)
  BY HostFields, BeginsFacts DEF Bytes
<1>1. CASE w = <<>> /\ r = Out(g, "ok", w)
  <2>1. r.f = g /\ r.out = w
    BY <1>1 DEF Out
  <2>2. Overlay(g.data, g.pos, w, 0) = g.data
    BY <1>1 DEF Overlay
  <2>3. g.pos = g.pos + Len(w)
    BY <1>0, <1>1
  <2> QED
    BY <1>0, <2>1, <2>2, <2>3
<1>2. CASE r = Out(AfterOutput(g, w), "ok", w)
  <2>1. r.f = AfterOutput(g, w) /\ r.out = w
    BY <1>2 DEF Out
  <2> QED
    BY <1>0, <2>1, AfterOutputData
<1>3. ASSUME NEW k \in 0..(Len(w) - 1), NEW e \in Faults, r = CutOutput(g, w, k, e)
      PROVE  /\ SubSeq(w, 1, k) \in Bytes /\ Begins(SubSeq(w, 1, k), w) /\ r.err # "ok"
             /\ r.f.data = Overlay(g.data, g.pos, SubSeq(w, 1, k), 0)
  <2> DEFINE u == SubSeq(w, 1, k)
             h == AfterOutput(g, u)
  <2>1. k \in Nat /\ k <= Len(w)
    BY <1>0
  <2>2. u \in Bytes /\ Begins(u, w)
    BY <2>1, SubSeqFacts, BeginsFacts
  <2>3. r.f = Errored(h) /\ r.err = e
    BY <1>3 DEF CutOutput, Out
  <2> HIDE DEF u
  <2>4. h \in Hosts /\ h.data = Overlay(g.data, g.pos, u, 0)
    BY <2>2, AfterOutputFacts, AfterOutputData
  <2> HIDE DEF h
  <2>5. r.f.data = h.data
    BY <2>3, <2>4, ErroredFacts
  <2> QED
    BY <2>2, <2>3, <2>4, <2>5, FaultAssumption DEF u
<1>4. \/ w = <<>> /\ r = Out(g, "ok", w)
      \/ r = Out(AfterOutput(g, w), "ok", w)
      \/ \E k \in 0..(Len(w) - 1), e \in Faults : r = CutOutput(g, w, k, e)
  BY DEF Fwrite
<1> QED
  BY <1>1, <1>2, <1>3, <1>4

\* fwrite, as a write at the position; a failed one may have written a part.
LEMMA FwritePuts ==
  ASSUME NEW g \in Hosts, NEW w \in Bytes, NEW r \in Fwrite(g, w)
  PROVE  /\ r.f \in Hosts /\ Puts(r, g, g.pos, w, 0)
         /\ r.err = "ok" => r.f.pos = g.pos + Len(r.out)
<1>1. PICK u \in Bytes : /\ Begins(u, w) /\ r.f.data = Overlay(g.data, g.pos, u, 0)
                         /\ r.err = "ok" => u = w /\ r.out = w /\ r.f.pos = g.pos + Len(w)
  BY FwriteOverlays
<1>2. r.f \in Hosts /\ g.data \in Bytes /\ g.pos \in Nat /\ 0 \in Nat
  BY FwriteFacts, HostFields
<1> DEFINE t == Overlay(g.data, g.pos, u, 0)
<1>3. /\ Within(g.data, Len(g.data), t, Len(t), g.pos, w, 0)
      /\ Took(g.data, Len(g.data), t, Len(t), g.pos, w, u)
  BY <1>1, <1>2, OverlayWritten
<1> HIDE DEF t
<1>4. r.f.data = t
  BY <1>1 DEF t
<1> QED
  BY <1>1, <1>2, <1>3, <1>4 DEF Puts

\* The adapter's part of a read and of a write.
LEMMA StdioReadPulls ==
  ASSUME NEW g \in Hosts, NEW b, NEW n \in Nat, NEW r \in StdioRead(g, b, n)
  PROVE  /\ r.f \in Hosts /\ Pulls(r, g, g.pos)
         /\ r.err = "ok" => r.f.pos = g.pos + Len(r.out)
<1>1. PICK q \in Fread(g, n) : r = ReadDone(b, n, q)
  BY DEF StdioRead
<1>2. /\ q.f \in Hosts /\ Pulls(q, g, g.pos)
      /\ q.err = "ok" => q.f.pos = g.pos + Len(q.out)
  BY FreadPulls
<1>3. r.f = Clearerr(q.f) /\ r.err = q.err /\ r.out = q.out
  BY <1>1 DEF ReadDone, R
<1>4. r.f \in Hosts /\ r.f.data = q.f.data /\ r.f.pos = q.f.pos
  BY <1>2, <1>3, ClearerrFacts
<1>5. Pulls(r, g, g.pos)
  BY <1>2, <1>3, <1>4 DEF Pulls
<1> QED
  BY <1>2, <1>3, <1>4, <1>5

\* The write of the adapter, which is one fwrite at the position.
LEMMA StdioWritePuts ==
  ASSUME NEW g \in Hosts, NEW b, NEW w \in Bytes, NEW r \in StdioWrite(g, b, w)
  PROVE  /\ r.f \in Hosts /\ Puts(r, g, g.pos, w, 0)
         /\ r.err = "ok" => r.f.pos = g.pos + Len(r.out)
<1>1. PICK q \in Fwrite(g, w) : r = WriteDone(b, q)
  BY DEF StdioWrite
<1>2. /\ q.f \in Hosts /\ Puts(q, g, g.pos, w, 0)
      /\ q.err = "ok" => q.f.pos = g.pos + Len(q.out)
  BY FwritePuts
<1>3. r.f = Clearerr(q.f) /\ r.err = q.err /\ r.out = q.out
  BY <1>1 DEF WriteDone, R
<1>4. r.f \in Hosts /\ r.f.data = q.f.data /\ r.f.pos = q.f.pos
  BY <1>2, <1>3, ClearerrFacts
<1>5. Puts(r, g, g.pos, w, 0)
  BY <1>2, <1>3, <1>4 DEF Puts
<1> QED
  BY <1>2, <1>3, <1>4, <1>5

\* A seek, whatever came of it, as the outcome of a method.
LEMMA SeekOutcome ==
  ASSUME NEW g \in Hosts, NEW b, NEW p \in Nat, NEW s \in Fseek(g, p), NEW r \in NotDone(b, s)
  PROVE  /\ r.f = s.f /\ r.err = s.err /\ r.out = <<>> /\ r.a = b
         /\ r.f \in Hosts /\ r.f.data = g.data
         /\ r.err = "ok" => r.f.pos = p
         /\ r.err # "ok" => r.f = g
<1>1. r.f = s.f /\ r.err = s.err /\ r.out = <<>> /\ r.a = b
  BY DEF NotDone, R
<1> QED
  BY <1>1, FseekFacts

\* The position that a positional transfer saved is there again, unless the seek fails.
LEMMA RestoredOutcome ==
  ASSUME NEW r, r.f \in Hosts, NEW old \in Nat, NEW q \in Restored(r, old)
  PROVE  /\ q.f \in Hosts /\ q.f.data = r.f.data /\ q.out = r.out
         /\ q.err = "ok" => r.err = "ok" /\ q.f.pos = old
<1>1. PICK s \in Fseek(r.f, old) : q = RestoredBy(r, s)
  BY DEF Restored
<1>2. /\ s.f \in Hosts /\ s.f.data = r.f.data
      /\ s.err = "ok" => s.f.pos = old
      /\ s.err # "ok" => s.f = r.f
  BY FseekFacts
<1>3. /\ q.f = s.f /\ q.out = r.out
      /\ q.err = "ok" => r.err = "ok" /\ s.err = "ok"
  BY <1>1 DEF RestoredBy, R
<1> QED
  BY <1>2, <1>3

\* A positional read of a stream that could be sought.
LEMMA ReadLocatedPulls ==
  ASSUME NEW g \in Hosts, NEW b, NEW o \in Nat, NEW n \in Nat, NEW s \in Fseek(g, o),
         NEW r \in ReadLocated(b, n, s)
  PROVE  r.f \in Hosts /\ Pulls(r, g, o)
<1>1. /\ s.f \in Hosts /\ s.f.data = g.data
      /\ s.err = "ok" => s.f.pos = o
  BY FseekFacts
<1>2. CASE s.err = "ok"
  <2>1. r \in StdioRead(s.f, Dangling(b, b.dangling_read, FALSE), n)
    BY <1>2, Zenon DEF ReadLocated
  <2>2. r.f \in Hosts /\ Pulls(r, s.f, s.f.pos)
    BY <1>1, <2>1, StdioReadPulls
  <2> QED
    BY <1>1, <1>2, <2>2 DEF Pulls
<1>3. CASE s.err # "ok"
  <2>1. r \in NotDone(b, s)
    BY <1>3, Zenon DEF ReadLocated
  <2>2. r.f \in Hosts /\ r.f.data = g.data /\ r.err # "ok"
    BY <1>3, <2>1, SeekOutcome
  <2> QED
    BY <2>2 DEF Pulls
<1> QED
  BY <1>2, <1>3

\* A positional write of a stream that could be sought.
LEMMA WriteLocatedPuts ==
  ASSUME NEW g \in Hosts, NEW b, NEW o \in Nat, NEW w \in Bytes, NEW s \in Fseek(g, o),
         NEW r \in WriteLocated(b, w, s)
  PROVE  /\ r.f \in Hosts /\ Puts(r, g, o, w, 0)
         /\ r.err = "ok" => r.f.pos = o + Len(r.out)
<1>1. /\ s.f \in Hosts /\ s.f.data = g.data
      /\ s.err = "ok" => s.f.pos = o
  BY FseekFacts
<1>2. CASE s.err = "ok"
  <2>1. r \in StdioWrite(s.f, Dangling(b, FALSE, b.dangling_write), w)
    BY <1>2, Zenon DEF WriteLocated
  <2>2. /\ r.f \in Hosts /\ Puts(r, s.f, s.f.pos, w, 0)
        /\ r.err = "ok" => r.f.pos = s.f.pos + Len(r.out)
    BY <1>1, <2>1, StdioWritePuts
  <2> QED
    BY <1>1, <1>2, <2>2 DEF Puts
<1>3. CASE s.err # "ok"
  <2>1. r \in NotDone(b, s)
    BY <1>3, Zenon DEF WriteLocated
  <2>2. r.f \in Hosts /\ r.f.data = g.data /\ r.err # "ok"
    BY <1>3, <2>1, SeekOutcome
  <2> QED
    BY <2>2, NoEffect
<1> QED
  BY <1>2, <1>3

\* read_some, write_some and their positional forms over a C stream.
LEMMA NotLocatedOutcome ==
  ASSUME NEW g \in Hosts, NEW b, NEW r \in NotLocated(g, b)
  PROVE  r.f = g /\ r.out = <<>> /\ r.err # "ok"
<1>1. PICK e \in Faults : r = R(g, b, e, <<>>)
  BY DEF NotLocated
<1> QED
  BY <1>1, FaultAssumption DEF R

\* read_some of stdio_read_adapter.
LEMMA StdioReadSomePulls ==
  ASSUME NEW g \in Hosts, NEW b, NEW n \in Nat, NEW r \in StdioReadSome(g, b, n)
  PROVE  /\ r.f \in Hosts /\ Pulls(r, g, g.pos)
         /\ r.err = "ok" => r.f.pos = g.pos + Len(r.out)
<1>1. CASE ~b.dangling_write
  <2>1. r \in StdioRead(g, b, n)
    BY <1>1, Zenon DEF StdioReadSome
  <2> QED
    BY <2>1, StdioReadPulls
<1>2. CASE b.dangling_write
  <2>1. PICK s \in Fflush(g) : r \in ReadFlushed(b, n, s)
    BY <1>2 DEF StdioReadSome
  <2>2. s.f \in Hosts /\ s.f.data = g.data /\ s.f.pos = g.pos
    BY FflushFacts
  <2>3. CASE s.err = "ok"
    <3>1. r \in StdioRead(s.f, Dangling(b, b.dangling_read, FALSE), n)
      BY <2>1, <2>3, Zenon DEF ReadFlushed
    <3>2. /\ r.f \in Hosts /\ Pulls(r, s.f, s.f.pos)
          /\ r.err = "ok" => r.f.pos = s.f.pos + Len(r.out)
      BY <2>2, <3>1, StdioReadPulls
    <3> QED
      BY <2>2, <3>2 DEF Pulls
  <2>4. CASE s.err # "ok"
    <3>1. r.f = Clearerr(s.f) /\ r.err # "ok"
      BY <2>1, <2>4 DEF ReadFlushed, R
    <3>2. r.f \in Hosts /\ r.f.data = g.data
      BY <2>2, <3>1, ClearerrFacts
    <3> QED
      BY <3>1, <3>2 DEF Pulls
  <2> QED
    BY <2>3, <2>4
<1> QED
  BY <1>1, <1>2

\* read_some_at of stdio_read_adapter.
LEMMA StdioReadSomeAtPulls ==
  ASSUME NEW g \in Hosts, NEW b, NEW o \in Nat, NEW n \in Nat, NEW r \in StdioReadSomeAt(g, b, o, n)
  PROVE  /\ r.f \in Hosts /\ Pulls(r, g, o)
         /\ r.err = "ok" => r.f.pos = g.pos
<1>1. CASE r \in NotLocated(g, b)
  BY <1>1, NotLocatedOutcome DEF Pulls
<1>2. CASE r \notin NotLocated(g, b)
  <2>1. PICK s \in Fseek(g, o) : r \in AllRestored(ReadLocated(b, n, s), g.pos)
    BY <1>2 DEF StdioReadSomeAt
  <2>2. PICK q \in ReadLocated(b, n, s) : r \in Restored(q, g.pos)
    BY <2>1 DEF AllRestored
  <2>3. q.f \in Hosts /\ Pulls(q, g, o)
    BY <2>2, ReadLocatedPulls
  <2>4. /\ r.f \in Hosts /\ r.f.data = q.f.data /\ r.out = q.out
        /\ r.err = "ok" => q.err = "ok" /\ r.f.pos = g.pos
    BY <2>2, <2>3, HostFields, RestoredOutcome
  <2> QED
    BY <2>3, <2>4 DEF Pulls
<1> QED
  BY <1>1, <1>2

\* write_some of stdio_read_write_adapter.
LEMMA StdioWriteSomePuts ==
  ASSUME NEW g \in Hosts, NEW b, NEW w \in Bytes, NEW r \in StdioWriteSome(g, b, w)
  PROVE  /\ r.f \in Hosts /\ Puts(r, g, g.pos, w, 0)
         /\ r.err = "ok" => r.f.pos = g.pos + Len(r.out)
<1>1. CASE ~b.dangling_read
  <2>1. r \in StdioWrite(g, b, w)
    BY <1>1, Zenon DEF StdioWriteSome
  <2> QED
    BY <2>1, StdioWritePuts
<1>2. CASE b.dangling_read
  <2>1. PICK s \in Fseek(g, g.pos) : r \in WriteLocated(b, w, s)
    BY <1>2 DEF StdioWriteSome
  <2>2. g.pos \in Nat
    BY HostFields
  <2> QED
    BY <2>1, <2>2, WriteLocatedPuts, ZenonT(60)
<1> QED
  BY <1>1, <1>2

\* The end of a positional write: the position is restored.
LEMMA RestoredPuts ==
  ASSUME NEW g \in Hosts, NEW q, q.f \in Hosts, NEW o, NEW w, NEW fill, Puts(q, g, o, w, fill),
         NEW r \in Restored(q, g.pos)
  PROVE  /\ r.f \in Hosts /\ Puts(r, g, o, w, fill)
         /\ r.err = "ok" => r.f.pos = g.pos
<1>1. /\ r.f \in Hosts /\ r.f.data = q.f.data /\ r.out = q.out
      /\ r.err = "ok" => q.err = "ok" /\ r.f.pos = g.pos
  BY HostFields, RestoredOutcome
<1> QED
  BY <1>1 DEF Puts

\* write_some_at of stdio_read_write_adapter.
LEMMA StdioWriteSomeAtPuts ==
  ASSUME NEW g \in Hosts, NEW b, NEW o \in Nat, NEW w \in Bytes, NEW r \in StdioWriteSomeAt(g, b, o, w)
  PROVE  /\ r.f \in Hosts /\ Puts(r, g, o, w, 0)
         /\ r.err = "ok" => r.f.pos = g.pos
<1>1. CASE r \in NotLocated(g, b)
  BY <1>1, NotLocatedOutcome, NoEffect
<1>2. CASE r \notin NotLocated(g, b)
  <2>1. PICK s \in Fseek(g, o) : r \in AllRestored(WriteLocated(b, w, s), g.pos)
    BY <1>2 DEF StdioWriteSomeAt
  <2>2. PICK q \in WriteLocated(b, w, s) : r \in Restored(q, g.pos)
    BY <2>1 DEF AllRestored
  <2>3. q.f \in Hosts /\ Puts(q, g, o, w, 0)
    BY <2>2, WriteLocatedPuts
  <2> QED
    BY <2>2, <2>3, RestoredPuts
<1> QED
  BY <1>1, <1>2

\* length, seek and flush move nothing.
LEMMA StdioLengthStays ==
  ASSUME NEW g \in Hosts, NEW b, NEW r \in StdioLength(g, b)
  PROVE  /\ r.f \in Hosts /\ r.f.data = g.data
         /\ r.err = "ok" => r.f.pos = g.pos
<1>1. CASE r \in NotLocated(g, b)
  BY <1>1, NotLocatedOutcome
<1>2. CASE r \notin NotLocated(g, b)
  <2>0. Len(g.data) \in Nat /\ g.pos \in Nat
    BY HostFields
  <2>1. PICK s \in Fseek(g, Len(g.data)) : r \in AllRestored(Measured(g, b, s), g.pos)
    BY <1>2 DEF StdioLength
  <2>2. PICK q \in Measured(g, b, s) : r \in Restored(q, g.pos)
    BY <2>1 DEF AllRestored
  <2>3. q.f = s.f
    <3>1. CASE s.err = "ok"
      BY <2>2, <3>1 DEF Measured, R
    <3>2. CASE s.err # "ok"
      BY <2>2, <3>2 DEF Measured, NotDone, R
    <3> QED
      BY <3>1, <3>2
  <2>4. q.f \in Hosts /\ q.f.data = g.data
    BY <2>0, <2>3, FseekFacts
  <2> QED
    BY <2>0, <2>2, <2>4, RestoredOutcome
<1> QED
  BY <1>1, <1>2

\* seek of the stdio adapters: there, or where it was.
LEMMA StdioSeekGoes ==
  ASSUME NEW g \in Hosts, NEW b, NEW to \in Int, NEW r \in StdioSeek(g, b, to)
  PROVE  /\ r.f \in Hosts /\ r.f.data = g.data /\ r.a = b
         /\ r.err = "ok" => r.f.pos = to /\ to \in 0..Top
         /\ r.err # "ok" => r.f.pos = g.pos
<1>1. CASE to \notin 0..Top
  <2>1. r = R(g, b, "invalid", <<>>)
    BY <1>1, Zenon DEF StdioSeek
  <2> QED
    BY <2>1 DEF R
<1>2. CASE to \in 0..Top
  <2>1. r \in UNION {NotDone(b, s) : s \in Fseek(g, to)}
    BY <1>2, Zenon DEF StdioSeek
  <2>2. PICK s \in Fseek(g, to) : r \in NotDone(b, s)
    BY <2>1
  <2>3. to \in Nat
    BY <1>2, WidthAssumption
  <2> QED
    BY <1>2, <2>2, <2>3, SeekOutcome
<1> QED
  BY <1>1, <1>2

\* flush of the stdio adapters.
LEMMA StdioFlushStays ==
  ASSUME NEW g \in Hosts, NEW b, NEW r \in StdioFlush(g, b)
  PROVE  r.f \in Hosts /\ r.f.data = g.data /\ r.f.pos = g.pos
<1>1. PICK s \in Fflush(g) : r = FlushDone(b, s)
  BY DEF StdioFlush
<1>2. s.f \in Hosts /\ s.f.data = g.data /\ s.f.pos = g.pos
  BY FflushFacts
<1>3. r.f = s.f \/ r.f = Clearerr(s.f)
  BY <1>1 DEF FlushDone, R
<1> QED
  BY <1>2, <1>3, ClearerrFacts

\* Bytes laid over the end of a file.
LEMMA AppendedBytes ==
  ASSUME NEW s \in Bytes, NEW u \in Bytes, NEW b \in Nat
  PROVE  /\ Len(Overlay(s, Len(s), u, b)) = Len(s) + Len(u)
         /\ \A j \in 1..Len(s) : Overlay(s, Len(s), u, b)[j] = s[j]
         /\ \A j \in 1..Len(u) : Overlay(s, Len(s), u, b)[Len(s) + j] = u[j]
<1>1. Len(s) \in Nat /\ Len(u) \in Nat /\ (u = <<>> <=> Len(u) = 0)
  BY DEF Bytes
<1>2. ASSUME NEW o \in Nat
      PROVE  /\ u = <<>> => Overlay(s, o, u, b) = s
             /\ u # <<>> => Len(Overlay(s, o, u, b)) = Most(Len(s), o + Len(u))
             /\ \A j \in 1..Len(u) : Overlay(s, o, u, b)[o + j] = u[j]
             /\ \A j \in 1..Len(s) : j <= o \/ j > o + Len(u) => Overlay(s, o, u, b)[j] = s[j]
             /\ \A j \in 1..o : u # <<>> /\ j > Len(s) => Overlay(s, o, u, b)[j] = b
  BY OverlayBytes, ZenonT(60)
<1> DEFINE t == Overlay(s, Len(s), u, b)
<1>3. /\ u = <<>> => t = s
      /\ u # <<>> => Len(t) = Most(Len(s), Len(s) + Len(u))
      /\ \A j \in 1..Len(u) : t[Len(s) + j] = u[j]
      /\ \A j \in 1..Len(s) : j <= Len(s) \/ j > Len(s) + Len(u) => t[j] = s[j]
  BY <1>1, <1>2
<1> HIDE DEF t
<1>4. /\ Len(t) = Len(s) + Len(u)
      /\ \A j \in 1..Len(s) : t[j] = s[j]
      /\ \A j \in 1..Len(u) : t[Len(s) + j] = u[j]
  BY <1>1, <1>3 DEF Most
<1> QED
  BY <1>4 DEF t

\* The filler's writes.  Standing at the end, the space up to o is filled.
LEMMA GapClosedExtends ==
  ASSUME NEW g \in Hosts, g.pos = Len(g.data), NEW b, b.filler \in Nat, NEW o \in Nat, NEW r \in GapClosed(g, b, o)
  PROVE  /\ r.f \in Hosts
         /\ Extended(g.data, Len(g.data), r.f.data, Len(r.f.data), o, b.filler)
         /\ r.err = "ok" => r.f.pos = o /\ Len(r.f.data) >= o
         /\ r.err # "ok" /\ o <= Len(g.data) => r.f.data = g.data
<1>0. g.data \in Bytes /\ Len(g.data) \in Nat /\ g.pos \in Nat
  BY HostFields
<1>1. CASE o > g.pos
  <2> DEFINE w == Repeat(b.filler, o - g.pos)
  <2>1. r \in Filled(g, b, o)
    BY <1>1, Zenon DEF GapClosed
  <2>2. PICK q \in Fwrite(g, w) : r = FillDone(b, q)
    BY <2>1 DEF Filled
  <2>3. r.f = q.f /\ r.err = q.err
    BY <2>2 DEF FillDone, R
  <2>4. w \in Bytes /\ Len(w) = o - g.pos /\ \A j \in 1..(o - g.pos) : w[j] = b.filler
    BY <1>0, <1>1, RepeatFacts
  <2> HIDE DEF w
  <2>5. PICK u \in Bytes : /\ Begins(u, w) /\ q.f.data = Overlay(g.data, g.pos, u, 0)
                           /\ q.err = "ok" => u = w /\ q.f.pos = g.pos + Len(w)
    BY <2>2, <2>4, FwriteOverlays
  <2>6. q.f \in Hosts /\ q.f.data \in Bytes /\ Len(q.f.data) \in Nat
    BY <2>2, <2>4, FwriteFacts, HostFields
  <2>7. /\ Len(u) \in Nat /\ Len(u) <= o - g.pos /\ (u = <<>> <=> Len(u) = 0)
        /\ \A j \in 1..Len(u) : u[j] = b.filler
    <3>1. Len(u) \in Nat /\ (u = <<>> <=> Len(u) = 0)
      BY DEF Bytes
    <3> QED
      BY <1>0, <1>1, <2>4, <2>5, <3>1 DEF Begins
  <2> DEFINE t == Overlay(g.data, Len(g.data), u, 0)
  <2>8. g.pos = Len(g.data)
    OBVIOUS
  <2>9. q.f.data = t
    BY <2>5, <2>8
  <2>10. /\ Len(t) = Len(g.data) + Len(u)
         /\ \A j \in 1..Len(g.data) : t[j] = g.data[j]
         /\ \A j \in 1..Len(u) : t[Len(g.data) + j] = u[j]
    BY <1>0, AppendedBytes
  <2>11. t \in Bytes /\ Len(t) \in Nat
    BY <2>6, <2>9
  <2> HIDE DEF t
  <2>12. ASSUME NEW j \in 1..Len(t), j > Len(g.data) PROVE j <= o /\ t[j] = b.filler
    <3>1. j - Len(g.data) \in 1..Len(u) /\ Len(g.data) + (j - Len(g.data)) = j
      BY <1>0, <2>7, <2>10, <2>11, <2>12
    <3>2. t[Len(g.data) + (j - Len(g.data))] = u[j - Len(g.data)]
      BY <2>10, <3>1
    <3>3. t[j] = b.filler
      BY <2>7, <3>1, <3>2
    <3>4. j <= o
      BY <1>0, <2>7, <2>8, <2>10, <2>12
    <3> QED
      BY <3>3, <3>4
  <2>13. Extended(g.data, Len(g.data), t, Len(t), o, b.filler)
    BY <1>0, <2>7, <2>10, <2>12 DEF Extended
  <2>14. r.err = "ok" => r.f.pos = o /\ Len(t) >= o
    BY <1>0, <2>3, <2>4, <2>5, <2>8, <2>10
  <2> QED
    BY <1>0, <1>1, <2>3, <2>6, <2>9, <2>13, <2>14
<1>2. CASE o < g.pos
  <2>1. r \in SeekBack(g, b, o)
    BY <1>0, <1>2 DEF GapClosed
  <2>2. PICK s \in Fseek(g, o) : r \in NotDone(b, s)
    BY <2>1 DEF SeekBack
  <2>3. r.f \in Hosts /\ r.f.data = g.data /\ (r.err = "ok" => r.f.pos = o)
    BY <2>2, SeekOutcome
  <2> QED
    BY <1>0, <1>2, <2>3 DEF Extended
<1>3. CASE o = g.pos
  <2>1. r = R(g, b, "ok", <<>>)
    BY <1>0, <1>3 DEF GapClosed
  <2>2. r.f = g
    BY <2>1 DEF R
  <2> QED
    BY <1>0, <1>3, <2>2 DEF Extended
<1> QED
  BY <1>0, <1>1, <1>2, <1>3

\* A host whose bytes are those of g, standing at their end, after what closes the gap to o:
\* a write there is one at o of g, and a failure leaves part of the filler.
LEMMA BehindPuts ==
  ASSUME NEW g \in Hosts, NEW e \in Hosts, e.data = g.data, e.pos = Len(e.data), NEW c, c.filler \in Nat,
         NEW o \in Nat, NEW w \in Bytes, NEW q \in GapClosed(e, c, o)
  PROVE  /\ \A r \in StdioWrite(q.f, q.a, w) :
              q.err = "ok" => /\ r.f \in Hosts /\ Puts(r, g, o, w, c.filler)
                              /\ r.err = "ok" => r.f.pos = o + Len(r.out)
         /\ q.f \in Hosts
         /\ \A r : r.f.data = q.f.data /\ r.err # "ok" => Puts(r, g, o, w, c.filler)
<1>0. g.data \in Bytes /\ Len(g.data) \in Nat
  BY HostFields
<1>1. /\ q.f \in Hosts
      /\ Extended(g.data, Len(g.data), q.f.data, Len(q.f.data), o, c.filler)
      /\ q.err = "ok" => q.f.pos = o /\ Len(q.f.data) >= o
  <2>1. /\ q.f \in Hosts
        /\ Extended(e.data, Len(e.data), q.f.data, Len(q.f.data), o, c.filler)
        /\ q.err = "ok" => q.f.pos = o /\ Len(q.f.data) >= o
    BY GapClosedExtends
  <2> QED
    BY <2>1
<1>2. q.f.data \in Bytes /\ Len(q.f.data) \in Nat
  BY <1>1, HostFields
<1>3. ASSUME NEW r \in StdioWrite(q.f, q.a, w), q.err = "ok"
      PROVE  /\ r.f \in Hosts /\ Puts(r, g, o, w, c.filler)
             /\ r.err = "ok" => r.f.pos = o + Len(r.out)
  <2>1. /\ r.f \in Hosts /\ Puts(r, q.f, o, w, 0)
        /\ r.err = "ok" => r.f.pos = o + Len(r.out)
    <3>1. /\ r.f \in Hosts /\ Puts(r, q.f, q.f.pos, w, 0)
          /\ r.err = "ok" => r.f.pos = q.f.pos + Len(r.out)
      BY <1>1, StdioWritePuts
    <3> QED
      BY <1>1, <1>3, <3>1
  <2>2. r.f.data \in Bytes /\ Len(r.f.data) \in Nat
    BY <2>1, HostFields
  <2>3. r.err = "ok" => r.out \in Bytes
    <3>1. PICK t \in Fwrite(q.f, w) : r = WriteDone(q.a, t)
      BY DEF StdioWrite
    <3>2. t.out \in Bytes
      BY <1>1, <3>1, FwriteFacts
    <3> QED
      BY <3>1, <3>2 DEF WriteDone, R
  <2>4. /\ Within(q.f.data, Len(q.f.data), r.f.data, Len(r.f.data), o, w, 0)
        /\ r.err = "ok" => Took(q.f.data, Len(q.f.data), r.f.data, Len(r.f.data), o, w, r.out)
    BY <2>1 DEF Puts
  <2>5. /\ Within(g.data, Len(g.data), r.f.data, Len(r.f.data), o, w, c.filler)
        /\ r.err = "ok" => Took(g.data, Len(g.data), r.f.data, Len(r.f.data), o, w, r.out)
    BY <1>0, <1>1, <1>2, <1>3, <2>2, <2>3, <2>4, ExtendWritten, ZenonT(60)
  <2> QED
    BY <2>1, <2>5 DEF Puts
<1>4. ASSUME NEW r, r.f.data = q.f.data, r.err # "ok" PROVE Puts(r, g, o, w, c.filler)
  <2>1. Within(g.data, Len(g.data), q.f.data, Len(q.f.data), o, w, c.filler)
    BY <1>0, <1>1, <1>2, ExtendedFailed
  <2> QED
    BY <1>4, <2>1 DEF Puts
<1> QED
  BY <1>1, <1>3, <1>4

\* The seek to the end that the filler's writes begin with.
LEMMA AtEnd ==
  ASSUME NEW g \in Hosts, NEW e \in Fseek(g, Len(g.data))
  PROVE  /\ e.f \in Hosts /\ e.f.data = g.data
         /\ e.err = "ok" => e.f.pos = Len(e.f.data)
BY HostFields, FseekFacts

\* The filling writer that gives up: only the gap was touched.
LEMMA GiveUpKeeps ==
  ASSUME NEW q, q.f \in Hosts, NEW o \in Nat, NEW r \in GiveUp(q, o)
  PROVE  r.f \in Hosts /\ r.f.data = q.f.data /\ r.err = q.err
<1>1. PICK s \in Fseek(q.f, o) : r = GaveUp(q, s)
  BY DEF GiveUp
<1>2. s.f \in Hosts /\ s.f.data = q.f.data
  BY FseekFacts
<1>3. r.f = Clearerr(s.f) /\ r.err = q.err
  BY <1>1 DEF GaveUp, R
<1> QED
  BY <1>2, <1>3, ClearerrFacts

\* write_some of stdio_read_write_filler: the gap, then the bytes.
LEMMA FillerWriteSomePuts ==
  ASSUME NEW g \in Hosts, NEW b \in Adapters, NEW w \in Bytes, NEW r \in FillerWriteSome(g, b, w)
  PROVE  /\ r.f \in Hosts /\ Puts(r, g, g.pos, w, b.filler)
         /\ r.err = "ok" => r.f.pos = g.pos + Len(r.out)
<1>0. g.pos \in Nat /\ b.filler \in Nat
  BY HostFields, AdapterFields
<1>1. CASE r \in NotLocated(g, b)
  BY <1>0, <1>1, NotLocatedOutcome, NoEffect
<1>2. CASE r \notin NotLocated(g, b)
  <2>1. PICK e \in Fseek(g, Len(g.data)) : r \in FilledWrite(g, b, w, e)
    BY <1>2 DEF FillerWriteSome
  <2>2. /\ e.f \in Hosts /\ e.f.data = g.data
        /\ e.err = "ok" => e.f.pos = Len(e.f.data)
    BY AtEnd
  <2>3. CASE e.err # "ok"
    <3> DEFINE q == R(e.f, b, e.err, <<>>)
    <3>1. r \in GiveUp(q, g.pos)
      BY <2>1, <2>3, Zenon DEF FilledWrite
    <3>2. q.f = e.f /\ q.err = e.err
      BY DEF R
    <3> HIDE DEF q
    <3>3. r.f \in Hosts /\ r.f.data = g.data /\ r.err # "ok"
      BY <1>0, <2>2, <2>3, <3>1, <3>2, GiveUpKeeps
    <3> QED
      BY <1>0, <3>3, NoEffect
  <2>4. CASE e.err = "ok"
    <3> DEFINE c == Dangling(b, FALSE, FALSE)
    <3>1. c.filler = b.filler
      BY DanglingFacts
    <3>2. PICK q \in GapClosed(e.f, c, g.pos) : r \in WriteBehind(g, q, w)
      <4>1. r \in UNION {WriteBehind(g, q, w) : q \in GapClosed(e.f, c, g.pos)}
        BY <2>1, <2>4, Zenon DEF FilledWrite
      <4> QED
        BY <4>1
    <3> HIDE DEF c
    <3>3. /\ \A x \in StdioWrite(q.f, q.a, w) :
               q.err = "ok" => /\ x.f \in Hosts /\ Puts(x, g, g.pos, w, c.filler)
                               /\ x.err = "ok" => x.f.pos = g.pos + Len(x.out)
          /\ q.f \in Hosts
          /\ \A x : x.f.data = q.f.data /\ x.err # "ok" => Puts(x, g, g.pos, w, c.filler)
      BY <1>0, <2>2, <2>4, <3>1, <3>2, BehindPuts
    <3>4. CASE q.err = "ok"
      <4>1. r \in StdioWrite(q.f, q.a, w)
        BY <3>2, <3>4, Zenon DEF WriteBehind
      <4> QED
        BY <3>1, <3>3, <3>4, <4>1
    <3>5. CASE q.err # "ok"
      <4>1. r \in GiveUp(q, g.pos) \/ r = q
        <5>1. r \in (IF g.pos > Len(g.data) THEN GiveUp(q, g.pos) ELSE {q})
          BY <3>2, <3>5, Zenon DEF WriteBehind
        <5> QED
          BY <5>1
      <4>2. r.f \in Hosts /\ r.f.data = q.f.data /\ r.err # "ok"
        BY <1>0, <3>3, <3>5, <4>1, GiveUpKeeps
      <4>3. Puts(r, g, g.pos, w, c.filler)
        BY <3>3, <4>2
      <4> QED
        BY <3>1, <4>2, <4>3
    <3> QED
      BY <3>4, <3>5
  <2> QED
    BY <2>3, <2>4
<1> QED
  BY <1>1, <1>2

\* write_some_at of stdio_read_write_filler, which seeks back to where it was.
LEMMA FillerWriteSomeAtPuts ==
  ASSUME NEW g \in Hosts, NEW b \in Adapters, NEW o \in Nat, NEW w \in Bytes,
         NEW r \in FillerWriteSomeAt(g, b, o, w)
  PROVE  /\ r.f \in Hosts /\ Puts(r, g, o, w, b.filler)
         /\ r.err = "ok" => r.f.pos = g.pos
<1>0. g.pos \in Nat /\ b.filler \in Nat
  BY HostFields, AdapterFields
<1>1. CASE r \in NotLocated(g, b)
  BY <1>0, <1>1, NotLocatedOutcome, NoEffect
<1>2. CASE r \notin NotLocated(g, b)
  <2>1. PICK e \in Fseek(g, Len(g.data)) : r \in AllRestored(FilledWriteAt(b, o, w, e), g.pos)
    BY <1>2 DEF FillerWriteSomeAt
  <2>2. PICK t \in FilledWriteAt(b, o, w, e) : r \in Restored(t, g.pos)
    BY <2>1 DEF AllRestored
  <2>3. /\ e.f \in Hosts /\ e.f.data = g.data
        /\ e.err = "ok" => e.f.pos = Len(e.f.data)
    BY AtEnd
  <2>4. t.f \in Hosts /\ Puts(t, g, o, w, b.filler)
    <3>1. CASE e.err # "ok"
      <4>1. t \in NotDone(b, e)
        BY <2>2, <3>1, Zenon DEF FilledWriteAt
      <4>2. t.f = e.f /\ t.err # "ok"
        BY <3>1, <4>1 DEF NotDone, R
      <4> QED
        BY <2>3, <4>2, NoEffect
    <3>2. CASE e.err = "ok"
      <4> DEFINE c == Dangling(b, FALSE, FALSE)
      <4>1. c.filler = b.filler
        BY DanglingFacts
      <4>2. PICK q \in GapClosed(e.f, c, o) : t \in WriteBehindAt(q, w)
        <5>1. t \in UNION {WriteBehindAt(q, w) : q \in GapClosed(e.f, c, o)}
          BY <2>2, <3>2, Zenon DEF FilledWriteAt
        <5> QED
          BY <5>1
      <4> HIDE DEF c
      <4>3. /\ \A x \in StdioWrite(q.f, q.a, w) :
                 q.err = "ok" => /\ x.f \in Hosts /\ Puts(x, g, o, w, c.filler)
                                 /\ x.err = "ok" => x.f.pos = o + Len(x.out)
            /\ q.f \in Hosts
            /\ \A x : x.f.data = q.f.data /\ x.err # "ok" => Puts(x, g, o, w, c.filler)
        BY <1>0, <2>3, <3>2, <4>1, <4>2, BehindPuts
      <4>4. CASE q.err = "ok"
        <5>1. t \in StdioWrite(q.f, q.a, w)
          BY <4>2, <4>4, Zenon DEF WriteBehindAt
        <5> QED
          BY <4>1, <4>3, <4>4, <5>1
      <4>5. CASE q.err # "ok"
        <5>1. t \in {R(Clearerr(q.f), q.a, q.err, <<>>)}
          BY <4>2, <4>5, Zenon DEF WriteBehindAt
        <5>2. t.f = Clearerr(q.f) /\ t.err # "ok"
          BY <4>5, <5>1 DEF R
        <5>3. t.f \in Hosts /\ t.f.data = q.f.data
          BY <4>3, <5>2, ClearerrFacts
        <5>4. Puts(t, g, o, w, c.filler)
          BY <4>3, <5>2, <5>3
        <5> QED
          BY <4>1, <5>3, <5>4
      <4> QED
        BY <4>4, <4>5
    <3> QED
      BY <3>1, <3>2
  <2> QED
    BY <2>2, <2>4, RestoredPuts
<1> QED
  BY <1>1, <1>2

-----------------------------------------------------------------------------
(* What the other hosts read and write *)

\* A read of an osd_file.
LEMMA OsdReadPulls ==
  ASSUME ~OsdSeekFails, NEW g \in Hosts, NEW o \in Nat, NEW n \in Nat, NEW r \in OsdRead(g, o, n)
  PROVE  /\ r.f.data = g.data
         /\ r.err = "ok" => /\ r.out = Piece(g.data, o, n) /\ r.out \in Bytes
                            /\ Gives(r.out, g.data, Len(g.data), o)
<1>1. PICK s \in OsdSeek(g, o) : r \in OsdTransfer(Fread(s.f, n), n)
  BY DEF OsdRead
<1>2. s \in Fseek(g, o) /\ s.err = "ok"
  BY DEF OsdSeek
<1>3. s.f \in Hosts /\ s.f.data = g.data /\ s.f.pos = o
  BY <1>2, FseekFacts
<1>4. PICK q \in Fread(s.f, n) : r = Transferred(q, n)
  BY <1>1 DEF OsdTransfer
<1>5. /\ q.f.data = g.data
      /\ q.err = "ok" => q.out = Piece(g.data, o, n)
  BY <1>3, <1>4, FreadPulls DEF Pulls
<1>6. r.f = q.f /\ r.out = q.out /\ r.err \in {q.err, "io"}
  BY <1>4 DEF Transferred, Out
<1> DEFINE p == Piece(g.data, o, n)
<1>7. p \in Bytes /\ Gives(p, g.data, Len(g.data), o)
  BY HostFields, PieceFacts, PieceBytes
<1> HIDE DEF p
<1>8. q.err = "ok" => q.out = p
  BY <1>5 DEF p
<1>9. r.err = "ok" => q.err = "ok"
  BY <1>6
<1> QED
  BY <1>5, <1>6, <1>7, <1>8, <1>9 DEF p

\* A write of an osd_file, which extends it with zeroes.
LEMMA OsdWritePuts ==
  ASSUME ~OsdSeekFails, NEW g \in Hosts, NEW o \in Nat, NEW w \in Bytes, NEW r \in OsdWrite(g, o, w)
  PROVE  Puts(r, g, o, w, 0)
<1>1. PICK s \in OsdSeek(g, o) : r \in OsdTransfer(Fwrite(s.f, w), Len(w))
  BY DEF OsdWrite
<1>2. s \in Fseek(g, o) /\ s.err = "ok"
  BY DEF OsdSeek
<1>3. s.f \in Hosts /\ s.f.data = g.data /\ s.f.pos = o
  BY <1>2, FseekFacts
<1>4. PICK q \in Fwrite(s.f, w) : r = Transferred(q, Len(w))
  BY <1>1 DEF OsdTransfer
<1>5. Puts(q, s.f, s.f.pos, w, 0)
  BY <1>3, <1>4, FwritePuts
<1>6. r.f = q.f /\ r.out = q.out /\ r.err \in {q.err, "io"}
  BY <1>4 DEF Transferred, Out
<1> QED
  BY <1>3, <1>5, <1>6 DEF Puts

\* read_some_at of the adapter over a Rust stream.
LEMMA RustReadPulls ==
  ASSUME NEW g \in Hosts, NEW b, NEW o \in Nat, NEW n \in Nat, NEW r \in RustReadAt(g, b, o, n)
  PROVE  r.f = g /\ Pulls(r, g, o)
<1>0. g.data \in Bytes
  BY HostFields
<1>1. CASE \E k \in Taken(n) : r = R(g, b, "ok", Piece(g.data, o, k))
  <2>1. PICK k \in Taken(n) : r = R(g, b, "ok", Piece(g.data, o, k))
    BY <1>1
  <2>2. k \in Nat
    BY DEF Taken
  <2>3. r.f = g /\ r.out = Piece(g.data, o, k)
    BY <2>1 DEF R
  <2> QED
    BY <1>0, <2>2, <2>3, PieceBytes DEF Pulls
<1>2. CASE \E k \in {0, n} : r = R(g, b, "io", Repeat(0, k))
  BY <1>2 DEF Pulls, R
<1> QED
  BY <1>1, <1>2 DEF RustReadAt

\* write_some_at of the adapter over a Rust stream.
LEMMA RustWritePuts ==
  ASSUME NEW g \in Hosts, NEW b, NEW o \in Nat, NEW w \in Bytes, NEW r \in RustWriteAt(g, b, o, w)
  PROVE  Puts(r, g, o, w, 0)
<1>0. Len(w) \in Nat /\ g.data \in Bytes
  BY HostFields DEF Bytes
<1>1. CASE \E k \in Taken(Len(w)) :
             r = R([g EXCEPT !.data = Overlay(@, o, SubSeq(w, 1, k), 0)], b, "ok", SubSeq(w, 1, k))
  <2>1. PICK k \in Taken(Len(w)) :
             r = R([g EXCEPT !.data = Overlay(@, o, SubSeq(w, 1, k), 0)], b, "ok", SubSeq(w, 1, k))
    BY <1>1
  <2>2. k \in Nat /\ k <= Len(w)
    BY <1>0 DEF Taken
  <2> DEFINE u == SubSeq(w, 1, k)
             d == Overlay(g.data, o, u, 0)
  <2>3. u \in Bytes /\ Begins(u, w)
    BY <2>2, SubSeqFacts, BeginsFacts
  <2>4. r.f = [g EXCEPT !.data = d] /\ r.out = u
    BY <2>1 DEF R
  <2> HIDE DEF u
  <2>5. /\ d \in Bytes
        /\ Within(g.data, Len(g.data), d, Len(d), o, w, 0)
        /\ Took(g.data, Len(g.data), d, Len(d), o, w, u)
    BY <1>0, <2>3, OverlayWritten
  <2> HIDE DEF d
  <2>6. r.f.data = d
    BY <2>4, <2>5, DataFacts
  <2> QED
    BY <2>4, <2>5, <2>6 DEF Puts
<1>2. CASE \E k \in {0, Len(w)} : r = R(g, b, "io", Repeat(0, k))
  <2>1. r.f = g /\ r.err # "ok"
    BY <1>2 DEF R
  <2> QED
    BY <2>1, NoEffect
<1> QED
  BY <1>1, <1>2 DEF RustWriteAt

-----------------------------------------------------------------------------
(* The buffer of a core_osd_file, and memory *)

\* A part of bytes that were read at o, and bytes that were read one behind the other.
LEMMA PieceGives ==
  ASSUME NEW s \in Bytes, NEW d, NEW e \in Nat, NEW o \in Nat, Gives(s, d, e, o),
         NEW x \in Nat, NEW n \in Nat
  PROVE  Gives(Piece(s, x, n), d, e, o + x)
<1> DEFINE p == Piece(s, x, n)
<1>1. /\ p \in Bytes /\ Len(p) \in Nat /\ Len(s) \in Nat
      /\ \A j \in 1..Len(p) : x + j <= Len(s) /\ p[j] = s[x + j]
  <2>1. p \in Bytes /\ Len(p) \in Nat /\ Gives(p, s, Len(s), x)
    BY PieceFacts, PieceBytes
  <2> HIDE DEF p
  <2> QED
    BY <2>1, SMTT(30) DEF Gives, Bytes
<1> HIDE DEF p
<1>2. ASSUME NEW j \in 1..Len(p) PROVE (o + x) + j <= e /\ p[j] = d[(o + x) + j]
  <2>1. x + j \in 1..Len(s) /\ o + (x + j) = (o + x) + j /\ p[j] = s[x + j]
    BY <1>1
  <2>2. o + (x + j) <= e /\ s[x + j] = d[o + (x + j)]
    BY <2>1 DEF Gives
  <2> QED
    BY <2>1, <2>2
<1>3. Gives(p, d, e, o + x)
  BY <1>2 DEF Gives
<1> QED
  BY <1>3 DEF p

\* Two reads, the second behind the first, are one.
LEMMA JoinGives ==
  ASSUME NEW s \in Bytes, NEW u \in Bytes, NEW d, NEW e \in Nat, NEW o \in Nat,
         Gives(s, d, e, o), Gives(u, d, e, o + Len(s))
  PROVE  Gives(s \o u, d, e, o)
<1>1. /\ Len(s) \in Nat /\ Len(u) \in Nat /\ Len(s \o u) = Len(s) + Len(u)
      /\ \A j \in 1..(Len(s) + Len(u)) : (s \o u)[j] = IF j <= Len(s) THEN s[j] ELSE u[j - Len(s)]
  BY DEF Bytes
<1>2. ASSUME NEW j \in 1..(Len(s) + Len(u)) PROVE o + j <= e /\ (s \o u)[j] = d[o + j]
  <2>1. CASE j <= Len(s)
    <3>1. j \in 1..Len(s) /\ (s \o u)[j] = s[j]
      BY <1>1, <2>1
    <3> QED
      BY <3>1 DEF Gives
  <2>2. CASE ~(j <= Len(s))
    <3>1. /\ j - Len(s) \in 1..Len(u) /\ (s \o u)[j] = u[j - Len(s)]
          /\ (o + Len(s)) + (j - Len(s)) = o + j
      BY <1>1, <2>2
    <3>2. (o + Len(s)) + (j - Len(s)) <= e /\ u[j - Len(s)] = d[(o + Len(s)) + (j - Len(s))]
      BY <3>1 DEF Gives
    <3> QED
      BY <3>1, <3>2
  <2> QED
    BY <2>1, <2>2
<1> QED
  BY <1>1, <1>2 DEF Gives

\* Nothing is read anywhere.
LEMMA EmptyGives ==
  ASSUME NEW d, NEW e, NEW o
  PROVE  Gives(<<>>, d, e, o)
BY NothingFacts DEF Gives

\* What the buffer holds is in the file.
Inside(g, b) == Gives(b.buffer, g.data, Len(g.data), b.base)

\* A read of a core_osd_file, from its buffer, through it or past it; the buffer holds
\* bytes of the file afterwards.
LEMMA CoreReadPulls ==
  ASSUME ~OsdSeekFails, NEW g \in Hosts, NEW b \in Adapters, Inside(g, b), NEW o \in Nat, NEW n \in Nat,
         NEW r \in CoreReadSomeAt(g, b, o, n)
  PROVE  Pulls(r, g, o) /\ Inside(r.f, r.a)
<1>0. /\ g.data \in Bytes /\ Len(g.data) \in Nat /\ b.base \in Nat /\ b.buffer \in Bytes
      /\ BufferSize \in Nat
  BY HostFields, AdapterFields, BufferAssumption
<1> DEFINE got == Buffered(b, o, n)
<1>1. got \in Bytes /\ Len(got) \in Nat /\ Len(got) <= n /\ Gives(got, g.data, Len(g.data), o)
  <2>1. CASE o >= b.base /\ o < b.base + Len(b.buffer)
    <3>1. o - b.base \in Nat /\ b.base + (o - b.base) = o
      BY <1>0, <2>1
    <3>2. got = Piece(b.buffer, o - b.base, n)
      BY <2>1 DEF Buffered
    <3> HIDE DEF got
    <3>3. got \in Bytes /\ Len(got) \in Nat /\ Len(got) <= n
      BY <1>0, <3>1, <3>2, PieceFacts
    <3>4. Gives(got, g.data, Len(g.data), b.base + (o - b.base))
      BY <1>0, <3>1, <3>2, PieceGives DEF Inside
    <3> QED
      BY <3>1, <3>3, <3>4
  <2>2. CASE ~(o >= b.base /\ o < b.base + Len(b.buffer))
    <3>1. got = <<>>
      BY <2>2 DEF Buffered
    <3> HIDE DEF got
    <3> QED
      BY <3>1, NothingFacts, EmptyGives
  <2> QED
    BY <2>1, <2>2
<1>2. r \in CoreRest(g, b, o, n, got)
  BY DEF CoreReadSomeAt
<1> HIDE DEF got
<1> DEFINE p == o + Len(got)
           m == n - Len(got)
<1>3. p \in Nat /\ m \in Nat
  BY <1>1
<1>4. CASE Len(got) = n
  <2>1. r = R(g, b, "ok", got)
    BY <1>2, <1>4 DEF CoreRest
  <2>2. r.f = g /\ r.a = b /\ r.err = "ok" /\ r.out = got
    BY <2>1 DEF R
  <2> QED
    BY <1>1, <2>2 DEF Pulls
<1>5. CASE r \in Refill(g, b, p, m, got)
  <2>1. PICK q \in OsdRead(g, p, BufferSize) :
          r = IF q.err = "ok" THEN R(q.f, [b EXCEPT !.base = p, !.buffer = q.out], "ok",
                                     got \o Piece(q.out, 0, m))
              ELSE R(q.f, [b EXCEPT !.base = p, !.buffer = <<>>], q.err, got)
    BY <1>5 DEF Refill
  <2>2. /\ q.f.data = g.data
        /\ q.err = "ok" => q.out \in Bytes /\ Gives(q.out, g.data, Len(g.data), p)
    BY <1>0, <1>3, OsdReadPulls
  <2>3. CASE q.err = "ok"
    <3> DEFINE v == q.out
               u == Piece(v, 0, m)
               c == [b EXCEPT !.base = p, !.buffer = v]
    <3>1. v \in Bytes /\ Gives(v, g.data, Len(g.data), p)
      BY <2>2, <2>3
    <3>2. r.f = q.f /\ r.a = c /\ r.err = "ok" /\ r.out = got \o u
      BY <2>1, <2>3 DEF R
    <3>3. c.base = p /\ c.buffer = v
      BY DEF Adapters
    <3> HIDE DEF v, c
    <3>4. u \in Bytes
      BY <1>3, <3>1, PieceFacts
    <3>5. Gives(u, g.data, Len(g.data), p)
      <4>1. Gives(u, g.data, Len(g.data), p + 0)
        BY <1>0, <1>3, <3>1, PieceGives
      <4>2. p + 0 = p
        BY <1>3
      <4> QED
        BY <4>1, <4>2, Zenon
    <3> HIDE DEF u
    <3>6. Gives(got \o u, g.data, Len(g.data), o)
      BY <1>0, <1>1, <3>4, <3>5, JoinGives
    <3>7. Inside(r.f, r.a)
      BY <2>2, <3>1, <3>2, <3>3 DEF Inside
    <3> QED
      BY <2>2, <3>2, <3>6, <3>7 DEF Pulls
  <2>4. CASE q.err # "ok"
    <3>1. /\ r.f = q.f /\ r.err = q.err /\ r.a.buffer = <<>>
      BY <2>1, <2>4 DEF R, Adapters
    <3>2. Inside(r.f, r.a)
      BY <3>1, EmptyGives DEF Inside
    <3> QED
      BY <2>2, <2>4, <3>1, <3>2 DEF Pulls
  <2> QED
    BY <2>3, <2>4
<1>6. CASE r \in Direct(g, b, p, m, got)
  <2>1. PICK q \in OsdRead(g, p, m) :
          r = R(q.f, b, q.err, IF q.err = "ok" THEN got \o q.out ELSE got)
    BY <1>6 DEF Direct
  <2>2. /\ q.f.data = g.data
        /\ q.err = "ok" => q.out \in Bytes /\ Gives(q.out, g.data, Len(g.data), p)
    BY <1>0, <1>3, OsdReadPulls
  <2>3. /\ r.f = q.f /\ r.a = b /\ r.err = q.err
        /\ r.err = "ok" => r.out = got \o q.out
    BY <2>1 DEF R
  <2>4. Inside(r.f, r.a)
    BY <2>2, <2>3 DEF Inside
  <2>5. ASSUME r.err = "ok" PROVE Gives(r.out, g.data, Len(g.data), o)
    <3>1. q.out \in Bytes /\ Gives(q.out, g.data, Len(g.data), p)
      BY <2>2, <2>3, <2>5
    <3>2. Gives(got \o q.out, g.data, Len(g.data), o)
      BY <1>0, <1>1, <3>1, JoinGives
    <3> QED
      BY <2>3, <2>5, <3>2
  <2> QED
    BY <2>2, <2>3, <2>4, <2>5 DEF Pulls
<1>7. Len(got) = n \/ r \in Refill(g, b, p, m, got) \/ r \in Direct(g, b, p, m, got)
  BY <1>2 DEF CoreRest
<1> QED
  BY <1>4, <1>5, <1>6, <1>7

\* A whole file that is read through an empty buffer comes at once or not at all.
LEMMA CoreReadsAll ==
  ASSUME ~OsdSeekFails, NEW g \in Hosts, NEW b \in Adapters, b.buffer = <<>>, NEW n \in Nat, n = Len(g.data), n > 0,
         NEW r \in CoreReadSomeAt(g, b, 0, n)
  PROVE  \/ r.err = "ok" /\ Len(r.out) = n
         \/ r.err # "ok" /\ r.out = <<>> /\ r.a.buffer = <<>> /\ r.a.ptr = b.ptr
<1>0. /\ g.data \in Bytes /\ Len(g.data) \in Nat /\ b.base \in Nat /\ BufferSize \in Nat /\ Len(<<>>) = 0
  BY HostFields, AdapterFields, BufferAssumption
<1>1. Buffered(b, 0, n) = <<>>
  BY <1>0 DEF Buffered
<1>2. r \in CoreRest(g, b, 0, n, <<>>)
  BY <1>1 DEF CoreReadSomeAt
<1>3. 0 + Len(<<>>) = 0 /\ n - Len(<<>>) = n /\ Len(<<>>) # n
  BY <1>0
<1>4. r \in (IF n < BufferSize \div 2 THEN Refill(g, b, 0, n, <<>>) ELSE Direct(g, b, 0, n, <<>>))
  BY <1>2, <1>3 DEF CoreRest
<1>5. CASE n < BufferSize \div 2
  <2>1. r \in Refill(g, b, 0, n, <<>>)
    BY <1>4, <1>5
  <2>2. PICK q \in OsdRead(g, 0, BufferSize) :
          r = IF q.err = "ok" THEN R(q.f, [b EXCEPT !.base = 0, !.buffer = q.out], "ok",
                                     <<>> \o Piece(q.out, 0, n))
              ELSE R(q.f, [b EXCEPT !.base = 0, !.buffer = <<>>], q.err, <<>>)
    BY <2>1 DEF Refill
  <2>3. CASE q.err = "ok"
    <3> DEFINE v == q.out
               u == Piece(v, 0, n)
    <3>1. v = Piece(g.data, 0, BufferSize)
      BY <1>0, <2>3, OsdReadPulls
    <3>2. v \in Bytes /\ Len(v) = n
      <4>1. Len(Piece(g.data, 0, BufferSize)) = Least(0 + BufferSize, Len(g.data)) - 0
        BY <1>0, PieceBytes
      <4>2. Least(0 + BufferSize, Len(g.data)) = n
        BY <1>0, <1>5 DEF Least
      <4>3. Piece(g.data, 0, BufferSize) \in Bytes
        BY <1>0, PieceFacts
      <4> HIDE DEF v
      <4> QED
        BY <3>1, <4>1, <4>2, <4>3
    <3>3. r.err = "ok" /\ r.out = <<>> \o u
      BY <2>2, <2>3 DEF R
    <3> HIDE DEF v
    <3>4. u \in Bytes /\ Len(u) = n
      <4>1. Len(u) = Least(0 + n, Len(v)) - 0
        BY <1>0, <3>2, PieceBytes
      <4>2. Least(0 + n, Len(v)) = n
        BY <3>2 DEF Least
      <4>3. u \in Bytes
        BY <3>2, PieceFacts
      <4> HIDE DEF u
      <4> QED
        BY <4>1, <4>2, <4>3
    <3> HIDE DEF u
    <3>5. Len(<<>> \o u) = Len(<<>>) + Len(u)
      BY <3>4, NothingFacts, JoinFacts
    <3> QED
      BY <1>0, <3>3, <3>4, <3>5
  <2>4. CASE q.err # "ok"
    BY <2>2, <2>4 DEF R, Adapters
  <2> QED
    BY <2>3, <2>4
<1>6. CASE ~(n < BufferSize \div 2)
  <2>1. r \in Direct(g, b, 0, n, <<>>)
    BY <1>4, <1>6
  <2>2. PICK q \in OsdRead(g, 0, n) :
          r = R(q.f, b, q.err, IF q.err = "ok" THEN <<>> \o q.out ELSE <<>>)
    BY <2>1 DEF Direct
  <2>3. CASE q.err = "ok"
    <3>1. q.out = Piece(g.data, 0, n)
      <4>1. 0 \in Nat /\ q \in OsdRead(g, 0, n) /\ q.err = "ok"
        BY <2>2, <2>3
      <4> QED
        BY <4>1, OsdReadPulls, Zenon
    <3>2. Len(Piece(g.data, 0, n)) = Least(0 + n, Len(g.data)) - 0
      <4>1. g.data \in Bytes /\ 0 \in Nat /\ n \in Nat /\ 0 < Len(g.data)
        BY <1>0
      <4> QED
        BY <4>1, PieceBytes, Zenon
    <3>3. Least(0 + n, Len(g.data)) = n
      BY <1>0 DEF Least
    <3>4. Piece(g.data, 0, n) \in Bytes
      BY <1>0, PieceFacts
    <3>5. q.out \in Bytes /\ Len(q.out) = n
      BY <3>1, <3>2, <3>3, <3>4
    <3>6. Len(<<>> \o q.out) = Len(<<>>) + Len(q.out)
      BY <3>5, NothingFacts, JoinFacts
    <3>7. r.err = "ok" /\ r.out = <<>> \o q.out
      BY <2>2, <2>3 DEF R
    <3> QED
      BY <1>0, <3>5, <3>6, <3>7
  <2>4. CASE q.err # "ok"
    BY <2>2, <2>4 DEF R
  <2> QED
    BY <2>3, <2>4
<1> QED
  BY <1>5, <1>6

\* A write of a core_osd_file, which drops the buffer.
LEMMA CoreWritePuts ==
  ASSUME ~OsdSeekFails, NEW g \in Hosts, NEW b \in Adapters, NEW o \in Nat, NEW w \in Bytes,
         NEW r \in CoreWriteSomeAt(g, b, o, w)
  PROVE  Puts(r, g, o, w, 0) /\ Inside(r.f, r.a)
<1>1. PICK q \in OsdWrite(g, o, w) :
        r = IF q.err = "ok" THEN R(q.f, [b EXCEPT !.buffer = <<>>, !.size = Most(@, o + Len(q.out))], "ok", q.out)
            ELSE R(q.f, [b EXCEPT !.buffer = <<>>], q.err, <<>>)
  BY DEF CoreWriteSomeAt
<1>2. Puts(q, g, o, w, 0)
  BY OsdWritePuts
<1>3. /\ r.f = q.f /\ r.err = q.err /\ (r.err = "ok" => r.out = q.out)
      /\ r.a.buffer = <<>>
  BY <1>1 DEF R, Adapters
<1>4. Inside(r.f, r.a)
  BY <1>3, EmptyGives DEF Inside
<1> QED
  BY <1>2, <1>3, <1>4 DEF Puts

\* flush and truncate of a core_osd_file.
LEMMA CoreFlushStays ==
  ASSUME NEW g \in Hosts, NEW b \in Adapters, NEW r \in CoreFlush(g, b)
  PROVE  r.f.data = g.data /\ r.a.ptr = b.ptr /\ Inside(r.f, r.a)
<1>1. PICK q \in OsdFlush(g) : r = R(q.f, [b EXCEPT !.buffer = <<>>], q.err, <<>>)
  BY DEF CoreFlush
<1>2. r.f = q.f /\ r.a.buffer = <<>> /\ r.a.ptr = b.ptr
  BY <1>1 DEF R, Adapters
<1>3. PICK s \in Fflush(g) : q = Out(s.f, "ok", <<>>)
  BY DEF OsdFlush
<1>4. q.f = s.f
  BY <1>3 DEF Out
<1> QED
  BY <1>2, <1>4, FflushFacts, EmptyGives DEF Inside

\* One array is the other, cut or extended.
Resized(d, e, d2, e2) == \A j \in 1..e : j <= e2 => d2[j] = d[j]

\* A file made longer has zeroes behind its bytes.
LEMMA GrownBytes ==
  ASSUME NEW s \in Bytes, NEW n \in Nat, n >= Len(s)
  PROVE  /\ \A j \in 1..Len(s) : Grown(s, n)[j] = s[j]
         /\ \A j \in 1..n : j > Len(s) => Grown(s, n)[j] = 0
<1>1. Len(s) \in Nat /\ n - Len(s) \in Nat
  BY DEF Bytes
<1> DEFINE u == Repeat(0, n - Len(s))
<1>2. u \in Bytes /\ Len(u) = n - Len(s) /\ \A j \in 1..(n - Len(s)) : u[j] = 0
  BY <1>1, RepeatFacts
<1> HIDE DEF u
<1>3. \A j \in 1..n : (s \o u)[j] = IF j <= Len(s) THEN s[j] ELSE u[j - Len(s)]
  <2>1. Len(s) + Len(u) = n
    BY <1>1, <1>2
  <2>2. \A j \in 1..(Len(s) + Len(u)) : (s \o u)[j] = IF j <= Len(s) THEN s[j] ELSE u[j - Len(s)]
    BY <1>2 DEF Bytes
  <2> QED
    BY <2>1, <2>2
<1>4. \A j \in 1..Len(s) : (s \o u)[j] = s[j]
  BY <1>1, <1>3
<1>5. ASSUME NEW j \in 1..n, j > Len(s) PROVE (s \o u)[j] = 0
  <2>1. j - Len(s) \in 1..(n - Len(s))
    BY <1>1, <1>5
  <2> QED
    BY <1>1, <1>2, <1>3, <1>5, <2>1
<1> QED
  BY <1>4, <1>5 DEF Grown, u

\* truncate of a core_osd_file: what remains of the file is as it was.
LEMMA CoreTruncateResizes ==
  ASSUME NEW g \in Hosts, NEW b \in Adapters, b.buffer = <<>>, NEW n \in Nat, NEW r \in CoreTruncate(g, b, n)
  PROVE  /\ Resized(g.data, Len(g.data), r.f.data, Len(r.f.data))
         /\ r.a.ptr = b.ptr /\ Inside(r.f, r.a)
<1>0. g.data \in Bytes /\ Len(g.data) \in Nat
  BY HostFields
<1>1. PICK t \in OsdTruncate(g, n) :
        r = R(t.f, IF t.err = "ok" THEN [b EXCEPT !.size = n] ELSE b, t.err, <<>>)
  BY DEF CoreTruncate
<1>2. r.f = t.f /\ r.a.buffer = <<>> /\ r.a.ptr = b.ptr
  BY <1>1 DEF R, Adapters
<1> DEFINE d == IF n <= Len(g.data) THEN SubSeq(g.data, 1, n) ELSE Grown(g.data, n)
<1>3. CASE t = Out([g EXCEPT !.data = d], "ok", <<>>)
  <2>1. d \in Bytes /\ Resized(g.data, Len(g.data), d, Len(d))
    <3>1. CASE n <= Len(g.data)
      <4>1. d = SubSeq(g.data, 1, n)
        BY <3>1
      <4> HIDE DEF d
      <4>2. d \in Bytes /\ Len(d) = n
        BY <1>0, <3>1, <4>1, SubSeqFacts
      <4>3. \A j \in 1..n : SubSeq(g.data, 1, n)[j] = g.data[j]
        BY <1>0, <3>1 DEF Bytes
      <4> QED
        BY <4>1, <4>2, <4>3 DEF Resized
    <3>2. CASE ~(n <= Len(g.data))
      <4>1. d = Grown(g.data, n)
        BY <3>2
      <4> HIDE DEF d
      <4>2. d \in Bytes
        BY <1>0, <3>2, <4>1, GrownFacts
      <4>3. \A j \in 1..Len(g.data) : Grown(g.data, n)[j] = g.data[j]
        BY <1>0, <3>2, GrownBytes
      <4> QED
        BY <4>1, <4>2, <4>3 DEF Resized
    <3> QED
      BY <3>1, <3>2
  <2>2. t.f = [g EXCEPT !.data = d]
    BY <1>3 DEF Out
  <2> HIDE DEF d
  <2>3. t.f.data = d
    BY <2>1, <2>2, DataFacts
  <2> QED
    BY <1>2, <2>1, <2>3, EmptyGives DEF Inside
<1>4. CASE t \in Fail(g)
  <2>1. t.f = g
    BY <1>4 DEF Fail, Out
  <2> QED
    BY <1>0, <1>2, <2>1, EmptyGives DEF Inside, Resized
<1> QED
  BY <1>3, <1>4 DEF OsdTruncate

\* Memory of which size bytes are the file's.
LEMMA MemoryReadPulls ==
  ASSUME NEW g \in Hosts, NEW b \in Adapters, b.size <= Len(g.data), NEW o \in Nat, NEW n \in Nat,
         NEW r \in MemoryReadAt(g, b, o, n)
  PROVE  /\ r.f = g /\ r.a = b /\ r.err = "ok" /\ Gives(r.out, g.data, b.size, o)
         /\ o <= b.size => o + Len(r.out) <= b.size
<1>0. g.data \in Bytes /\ Len(g.data) \in Nat /\ b.size \in Nat
  BY HostFields, AdapterFields
<1> DEFINE m == Least(b.size - o, n)
           p == [k \in 1..m |-> IF o + k <= Len(g.data) THEN g.data[o + k] ELSE Garbage]
<1>1. CASE o < b.size
  <2>1. r = R(g, b, "ok", p)
    BY <1>1 DEF MemoryReadAt
  <2>2. m \in Nat /\ o + m <= b.size
    BY <1>0, <1>1 DEF Least
  <2> HIDE DEF m
  <2>3. ASSUME NEW k \in 1..m PROVE o + k \in 1..Len(g.data) /\ o + k <= b.size
    BY <1>0, <2>2
  <2>4. \A k \in 1..m : p[k] = g.data[o + k]
    BY <2>3
  <2>5. \A k \in 1..m : p[k] \in Nat
    BY <1>0, <2>3, <2>4 DEF Bytes
  <2>6. Len(p) = m
    <3>1. p = [k \in 1..m |-> p[k]]
      OBVIOUS
    <3> HIDE DEF p
    <3> QED
      BY <2>2, <2>5, <3>1
  <2> HIDE DEF p
  <2>7. r.f = g /\ r.a = b /\ r.err = "ok" /\ r.out = p
    BY <2>1 DEF R
  <2> QED
    BY <2>2, <2>3, <2>4, <2>6, <2>7 DEF Gives
<1>2. CASE ~(o < b.size)
  <2>1. r = R(g, b, "ok", <<>>)
    BY <1>2 DEF MemoryReadAt
  <2>2. r.f = g /\ r.a = b /\ r.err = "ok" /\ r.out = <<>>
    BY <2>1 DEF R
  <2> QED
    BY <2>2, NothingFacts, EmptyGives
<1> QED
  BY <1>1, <1>2

-----------------------------------------------------------------------------
(* Vectors: the bytes are those of the storage up to the size the adapter knows *)

\* What the adapter has counted of the storage and not yet given a size is zero.
SpareZero(g, b) == \A j \in 1..Len(g.data) : j > b.size /\ j <= b.elements * Width => g.data[j] = 0

\* A vector once its elements are counted.
Counted(g, b) == b.elements = Len(g.data) \div Width

\* The size of a vector whose elements are counted lies within its storage, and check_resized
\* changes nothing.
LEMMA CountedBytes ==
  ASSUME NEW g \in Hosts, NEW b \in Adapters, Whole(g, b), Counted(g, b)
  PROVE  /\ b.size <= Len(g.data) /\ CheckResized(g, b) = b
         /\ SpareZero(g, b) <=> \A j \in 1..Len(g.data) : j > b.size => g.data[j] = 0
<1>0. Len(g.data) \in Nat /\ b.size \in Nat
  BY HostFields, AdapterFields
<1>1. b.elements * Width = Len(g.data)
  BY <1>0, WidthFacts DEF Whole, Counted
<1> QED
  BY <1>0, <1>1, CountedFacts DEF Whole, Counted, SpareZero

\* check_resized counts the elements.
LEMMA CheckedFacts ==
  ASSUME NEW g \in Hosts, NEW b \in Adapters, Whole(g, b)
  PROVE  /\ CheckResized(g, b) \in Adapters /\ Whole(g, CheckResized(g, b))
         /\ Counted(g, CheckResized(g, b)) /\ CheckResized(g, b).filler = b.filler
         /\ CheckResized(g, b).ptr = b.ptr
         /\ SpareZero(g, b) => SpareZero(g, CheckResized(g, b))
<1>0. Len(g.data) \in Nat /\ b.size \in Nat
  BY HostFields, AdapterFields
<1>1. /\ CheckResized(g, b) \in Adapters /\ Whole(g, CheckResized(g, b))
      /\ Counted(g, CheckResized(g, b)) /\ CheckResized(g, b).filler = b.filler
      /\ CheckResized(g, b).ptr = b.ptr
  BY CheckResizedFacts DEF Counted
<1>2. ASSUME SpareZero(g, b) PROVE SpareZero(g, CheckResized(g, b))
  <2>1. CASE Counted(g, b)
    BY <1>2, <2>1, CountedFacts DEF Counted
  <2>2. CASE ~Counted(g, b)
    <3>1. CheckResized(g, b).size = Len(g.data)
      BY <2>2 DEF CheckResized, Counted, Adapters
    <3> QED
      BY <1>0, <3>1 DEF SpareZero
  <2> QED
    BY <2>1, <2>2
<1> QED
  BY <1>1, <1>2

\* read_some_at of a vector.
LEMMA VecReadPulls ==
  ASSUME NEW g \in Hosts, NEW b \in Adapters, Whole(g, b), NEW o \in Nat, NEW n \in Nat,
         NEW r \in VecReadAt(g, b, o, n)
  PROVE  /\ r.f = g /\ r.a = CheckResized(g, b)
         /\ Gives(r.out, g.data, CheckResized(g, b).size, o)
<1> DEFINE c == CheckResized(g, b)
<1>1. c \in Adapters /\ c.size <= Len(g.data)
  BY CheckResizedFacts
<1>2. r = VecRead(g, c, o, n)
  BY DEF VecReadAt
<1> HIDE DEF c
<1>3. g.data \in Bytes /\ Len(g.data) \in Nat /\ c.size \in Nat
  BY <1>1, HostFields, AdapterFields
<1> DEFINE s == SubSeq(g.data, 1, c.size)
           p == Piece(s, o, n)
<1>4. s \in Bytes /\ Len(s) = c.size /\ \A j \in 1..c.size : s[j] = g.data[j]
  <2>1. s \in Bytes /\ Len(s) = c.size
    BY <1>1, <1>3, SubSeqFacts
  <2>2. \A j \in 1..c.size : s[j] = g.data[j]
    BY <1>1, <1>3 DEF Bytes
  <2> QED
    BY <2>1, <2>2
<1>5. r.f = g /\ r.a = c /\ r.err = "ok" /\ r.out = p
  BY <1>2 DEF VecRead, R
<1> HIDE DEF s
<1>6. p \in Bytes /\ Gives(p, s, Len(s), o)
  BY <1>4, PieceFacts, PieceBytes
<1> HIDE DEF p
<1>7. Gives(p, g.data, c.size, o)
  <2>1. Len(p) \in Nat
    BY <1>6 DEF Bytes
  <2>2. ASSUME NEW j \in 1..Len(p) PROVE o + j <= c.size /\ p[j] = g.data[o + j]
    <3>1. o + j <= c.size /\ p[j] = s[o + j]
      BY <1>4, <1>6 DEF Gives
    <3>2. o + j \in 1..c.size
      BY <1>3, <2>1, <3>1
    <3> QED
      BY <1>4, <3>1, <3>2
  <2> QED
    BY <2>2 DEF Gives
<1> QED
  BY <1>5, <1>7 DEF c

\* What a write of w at o leaves of a vector with e bytes: what it took is there, whatever
\* the error.
Vectored(r, g, e, o, w) ==
  /\ Within(g.data, e, r.f.data, r.a.size, o, w, 0)
  /\ Took(g.data, e, r.f.data, r.a.size, o, w, r.out)
  /\ Begins(r.out, w) /\ (r.err = "ok" => r.out = w)
  /\ Counted(r.f, r.a) /\ SpareZero(r.f, r.a)

\* In storage s, of which b.size bytes are those of the vector and the rest is zero.
LEMMA VecStoredPuts ==
  ASSUME NEW g \in Hosts, NEW b \in Adapters, NEW o \in Nat, NEW w \in Bytes,
         NEW s \in Bytes, Len(s) % Width = 0, b.size <= Len(s),
         \A j \in 1..b.size : s[j] = g.data[j],
         \A j \in 1..Len(s) : j > b.size => s[j] = 0,
         NEW limit \in Nat, limit <= Len(s), limit <= o + Len(w), NEW err,
         err = "ok" => limit = o + Len(w)
  PROVE  Vectored(VecStored(g, b, o, w, s, limit, err), g, b.size, o, w)
<1>0. Len(w) \in Nat /\ Len(s) \in Nat /\ b.size \in Nat
  BY AdapterFields DEF Bytes
<1> DEFINE e == b.size
           took == IF limit > o THEN SubSeq(w, 1, limit - o) ELSE <<>>
           gap  == IF o > e THEN Least(Len(s), o) ELSE e
           z == Zeroed(s, e, gap)
           d == Overlay(z, o, took, 0)
           size == IF limit > o THEN Most(gap, limit) ELSE gap
           els == Len(s) \div Width
           c == [b EXCEPT !.elements = els, !.size = size]
           rc == IF err = "ok" /\ Len(took) < Len(w) THEN "nospace" ELSE err
<1>1. /\ took \in Bytes /\ Begins(took, w) /\ Len(took) = (IF limit > o THEN limit - o ELSE 0)
      /\ err = "ok" => took = w
  <2>1. CASE limit > o
    <3>1. limit - o \in Nat /\ limit - o <= Len(w) /\ (err = "ok" => limit - o = Len(w))
      BY <1>0, <2>1
    <3>2. /\ SubSeq(w, 1, limit - o) \in Bytes /\ Len(SubSeq(w, 1, limit - o)) = limit - o
          /\ Begins(SubSeq(w, 1, limit - o), w)
      BY <3>1, SubSeqFacts, BeginsFacts
    <3>3. SubSeq(w, 1, Len(w)) = w
      BY DEF Bytes
    <3> QED
      BY <2>1, <3>1, <3>2, <3>3
  <2>2. CASE ~(limit > o)
    <3>1. err = "ok" => w = <<>>
      BY <1>0, <2>2 DEF Bytes
    <3> QED
      BY <2>2, <3>1, NothingFacts, BeginsFacts
  <2> QED
    BY <2>1, <2>2
<1>2. /\ gap \in Nat /\ gap <= Len(s) /\ gap >= e /\ (gap = e \/ gap <= o)
      /\ o <= gap \/ o > Len(s) \/ gap = e
  BY <1>0 DEF Least
<1>3. /\ size \in Nat /\ size <= Len(s) /\ size >= gap /\ (limit > o => size >= limit)
      /\ size = gap \/ (limit > o /\ size = limit)
  BY <1>0, <1>2 DEF Most
<1>4. els \in Nat
  BY <1>0, WidthFacts
<1>6. VecStored(g, b, o, w, s, limit, err) = R([g EXCEPT !.data = d], c, rc, took)
  BY DEF VecStored
<1>5. rc = "ok" => took = w
  BY <1>1
<1> HIDE DEF took, gap, size, els, rc
<1>7. /\ z \in Bytes /\ Len(z) = Len(s)
      /\ \A j \in 1..e : z[j] = g.data[j]
      /\ \A j \in 1..Len(s) : j > e => z[j] = 0
  <2>1. z \in Bytes /\ Len(z) = Len(s)
    BY <1>0, <1>2, ZeroedFacts
  <2>2. DOMAIN s = 1..Len(s)
    BY DEF Bytes
  <2>3. \A j \in 1..Len(s) : z[j] = IF j > e /\ j <= gap THEN 0 ELSE s[j]
    BY <2>2 DEF Zeroed
  <2> HIDE DEF z
  <2>4. \A j \in 1..e : z[j] = g.data[j]
    <3>1. ASSUME NEW j \in 1..e PROVE z[j] = g.data[j]
      <4>1. j \in 1..Len(s) /\ ~(j > e)
        BY <1>0
      <4>2. z[j] = s[j]
        BY <2>3, <4>1
      <4> QED
        BY <4>2
    <3> QED
      BY <3>1
  <2>5. \A j \in 1..Len(s) : j > e => z[j] = 0
    BY <2>3
  <2> QED
    BY <2>1, <2>4, <2>5
<1> HIDE DEF z
<1>8. /\ d \in Bytes /\ Len(d) = Len(s)
      /\ \A j \in 1..Len(took) : d[o + j] = took[j]
      /\ \A j \in 1..Len(s) : j <= o \/ j > o + Len(took) => d[j] = z[j]
  <2>1. d \in Bytes
    BY <1>1, <1>7, OverlayType
  <2>2. took # <<>> => o + Len(took) <= Len(z)
    BY <1>0, <1>1, <1>7
  <2>3. Len(d) = Len(z)
    BY <1>1, <1>7, <2>2, OverlayLength
  <2>4. /\ \A j \in 1..Len(took) : d[o + j] = took[j]
        /\ \A j \in 1..Len(z) : j <= o \/ j > o + Len(took) => d[j] = z[j]
    <3>1. took \in Bytes /\ z \in Bytes /\ o \in Nat /\ 0 \in Nat
      BY <1>1, <1>7
    <3>2. Overlaid(Overlay(z, o, took, 0), z, o, took)
      BY <3>1, OverlayParts, Zenon
    <3> QED
      BY <3>2 DEF Overlaid
  <2> HIDE DEF d
  <2> QED
    BY <1>7, <2>1, <2>3, <2>4
<1> HIDE DEF d
<1>9. c.size = size /\ c.elements = els
  BY DEF Adapters
<1> HIDE DEF c
<1> DEFINE r == VecStored(g, b, o, w, s, limit, err)
<1>10. r.f = [g EXCEPT !.data = d] /\ r.a = c /\ r.err = rc /\ r.out = took
  BY <1>6 DEF R
<1> HIDE DEF r
<1>11. r.f.data = d
  BY <1>8, <1>10, DataFacts
<1> HIDE DEF e
<1>e. e \in Nat /\ e = b.size
  BY <1>0 DEF e
<1>12. Within(g.data, e, d, size, o, w, 0)
  <2>1. size >= e /\ (size <= o + Len(w) \/ size = e)
    BY <1>0, <1>e, <1>2, <1>3
  <2>2. Len(took) <= Len(w)
    BY <1>1 DEF Begins
  <2>3. ASSUME NEW j \in 1..e, j <= o \/ j > o + Len(w) PROVE d[j] = g.data[j]
    <3>1. j \in 1..Len(s) /\ (j <= o \/ j > o + Len(took))
      BY <1>0, <1>e, <1>1, <2>2, <2>3
    <3> QED
      BY <1>7, <1>8, <3>1
  <2>4. ASSUME NEW j \in 1..size, j > e, j <= o PROVE d[j] = 0
    <3>1. j \in 1..Len(s)
      BY <1>0, <1>3
    <3> QED
      BY <1>7, <1>8, <2>4, <3>1
  <2> QED
    BY <2>1, <2>3, <2>4 DEF Within
<1>13. Took(g.data, e, d, size, o, w, took)
  <2>1. ASSUME NEW j \in 1..Len(took) PROVE o + j <= size /\ d[o + j] = w[j]
    <3>1. o + j <= size
      BY <1>0, <1>1, <1>3
    <3> QED
      BY <1>1, <1>8, <3>1 DEF Begins
  <2>2. ASSUME NEW j \in 1..size, j > o + Len(took) PROVE j <= e /\ d[j] = g.data[j]
    <3>1. j \in 1..Len(s)
      BY <1>0, <1>3
    <3>2. j <= e
      BY <1>0, <1>e, <1>1, <1>2, <1>3, <2>2
    <3>3. d[j] = z[j]
      BY <1>8, <2>2, <3>1
    <3> QED
      BY <1>e, <1>7, <3>2, <3>3
  <2> QED
    BY <2>1, <2>2 DEF Took
<1>14. Counted(r.f, r.a)
  BY <1>8, <1>9, <1>10, <1>11 DEF Counted, els
<1>15. SpareZero(r.f, r.a)
  <2>1. ASSUME NEW j \in 1..Len(s), j > size PROVE d[j] = 0
    <3>1. j > o + Len(took) \/ j <= o
      BY <1>0, <1>1, <1>3, <2>1
    <3>2. j > e
      BY <1>e, <1>2, <1>3, <2>1
    <3> QED
      BY <1>7, <1>8, <3>1, <3>2
  <2> QED
    BY <1>8, <1>9, <1>10, <1>11, <2>1 DEF SpareZero
<1> QED
  BY <1>1, <1>5, <1>9, <1>10, <1>11, <1>12, <1>13, <1>14, <1>15 DEF Vectored, r, e

\* write_some_at of a vector, which grows it when it must and can.
LEMMA VecWritePuts ==
  ASSUME NEW g \in Hosts, NEW b \in Adapters, Whole(g, b), SpareZero(g, b), NEW o \in Nat,
         NEW w \in Bytes, NEW r \in VecWriteAt(g, b, o, w)
  PROVE  Vectored(r, g, CheckResized(g, b).size, o, w)
<1> DEFINE c == CheckResized(g, b)
           target == o + Len(w)
<1>0. Len(w) \in Nat /\ g.data \in Bytes /\ Len(g.data) \in Nat
  BY HostFields DEF Bytes
<1>1. /\ c \in Adapters /\ Whole(g, c) /\ Counted(g, c) /\ SpareZero(g, c)
  BY CheckedFacts
<1>2. r \in VecWrite(g, c, o, w, target)
  BY DEF VecWriteAt
<1> HIDE DEF c
<1>3. /\ c.size \in Nat /\ c.size <= Len(g.data) /\ Len(g.data) % Width = 0 /\ target \in Nat
      /\ \A j \in 1..Len(g.data) : j > c.size => g.data[j] = 0
      /\ c.elements = Len(g.data) \div Width
  BY <1>0, <1>1, AdapterFields, CountedBytes DEF Whole, Counted
<1>4. SUFFICES Vectored(r, g, c.size, o, w)
  BY DEF c
<1>5. CASE target <= Len(g.data)
  <2> DEFINE d == Overlay(g.data, o, w, 0)
             n == IF w = <<>> THEN c.size ELSE Most(c.size, target)
  <2>1. r = VecInPlace(g, c, o, w, target)
    BY <1>2, <1>5 DEF VecWrite
  <2>2. /\ d \in Bytes /\ Len(d) = Len(g.data)
        /\ \A j \in 1..Len(w) : d[o + j] = w[j]
        /\ \A j \in 1..Len(g.data) : j <= o \/ j > o + Len(w) => d[j] = g.data[j]
    <3>1. d \in Bytes
      BY <1>0, OverlayType
    <3>2. w # <<>> => o + Len(w) <= Len(g.data)
      BY <1>5
    <3>3. Len(d) = Len(g.data)
      BY <1>0, <3>2, OverlayLength
    <3>4. /\ \A j \in 1..Len(w) : d[o + j] = w[j]
          /\ \A j \in 1..Len(g.data) : j <= o \/ j > o + Len(w) => d[j] = g.data[j]
      <4>1. Overlaid(Overlay(g.data, o, w, 0), g.data, o, w)
        BY <1>0, OverlayParts
      <4> QED
        BY <4>1 DEF Overlaid
    <3> HIDE DEF d
    <3> QED
      BY <3>1, <3>3, <3>4
  <2>0. w = <<>> <=> Len(w) = 0
    BY DEF Bytes
  <2>3. /\ n \in Nat /\ n <= Len(g.data) /\ n >= c.size
        /\ n = c.size \/ n = target
        /\ Len(w) > 0 => n >= target
    BY <1>0, <1>3, <1>5, <2>0 DEF Most
  <2>4. r.f = [g EXCEPT !.data = d] /\ r.a = [c EXCEPT !.size = n] /\ r.err = "ok" /\ r.out = w
    BY <2>1 DEF VecInPlace, R
  <2> HIDE DEF d, n
  <2>5. r.f.data = d
    BY <2>2, <2>4, DataFacts
  <2>6. r.a.size = n /\ r.a.elements = c.elements
    BY <1>1, <2>4 DEF Adapters
  <2>7. Within(g.data, c.size, d, n, o, w, 0)
    <3>1. ASSUME NEW j \in 1..c.size, j <= o \/ j > o + Len(w) PROVE d[j] = g.data[j]
      BY <1>0, <1>3, <2>2, <3>1
    <3>2. ASSUME NEW j \in 1..n, j > c.size, j <= o PROVE d[j] = 0
      <4>1. j \in 1..Len(g.data)
        BY <1>0, <2>3
      <4> QED
        BY <1>3, <2>2, <3>2, <4>1
    <3> QED
      BY <1>0, <1>3, <2>3, <3>1, <3>2 DEF Within
  <2>8. Took(g.data, c.size, d, n, o, w, w)
    <3>1. ASSUME NEW j \in 1..Len(w) PROVE o + j <= n
      BY <1>0, <2>3
    <3>2. ASSUME NEW j \in 1..n, j > o + Len(w) PROVE j <= c.size /\ d[j] = g.data[j]
      <4>1. j \in 1..Len(g.data) /\ j <= c.size
        BY <1>0, <1>3, <2>3, <3>2
      <4> QED
        BY <2>2, <3>2, <4>1
    <3> QED
      BY <2>2, <3>1, <3>2 DEF Took
  <2>9. Counted(r.f, r.a)
    BY <1>3, <2>2, <2>5, <2>6 DEF Counted
  <2>10. SpareZero(r.f, r.a)
    <3>1. ASSUME NEW j \in 1..Len(g.data), j > n PROVE d[j] = 0
      <4>1. j > c.size /\ (j <= o \/ j > o + Len(w))
        BY <1>0, <1>3, <2>3, <3>1
      <4> QED
        BY <1>3, <2>2, <4>1
    <3> QED
      BY <2>2, <2>5, <2>6, <3>1 DEF SpareZero
  <2> QED
    BY <2>4, <2>5, <2>6, <2>7, <2>8, <2>9, <2>10, BeginsFacts DEF Vectored
<1>6. CASE ~(target <= Len(g.data))
  <2> DEFINE required == ((target + Width - 1) \div Width) * Width
             s == Grown(g.data, required)
             short == Least(target, Len(g.data))
  <2>1. required \in Nat /\ required >= target /\ required % Width = 0
    BY <1>3, RequiredFacts
  <2>2. \/ r = VecStored(g, c, o, w, s, target, "ok")
        \/ r = VecStored(g, c, o, w, g.data, short, "nomem")
    BY <1>2, <1>6 DEF VecWrite
  <2> HIDE DEF required
  <2>3. /\ s \in Bytes /\ Len(s) = required
        /\ \A j \in 1..Len(g.data) : s[j] = g.data[j]
        /\ \A j \in 1..required : j > Len(g.data) => s[j] = 0
    <3>1. required >= Len(g.data)
      BY <1>0, <1>3, <1>6, <2>1
    <3> QED
      BY <1>0, <2>1, <3>1, GrownFacts, GrownBytes
  <2>4. short \in Nat /\ short <= Len(g.data) /\ short <= target
    BY <1>0, <1>3 DEF Least
  <2> HIDE DEF s, short
  <2>5. CASE r = VecStored(g, c, o, w, s, target, "ok")
    <3>1. /\ Len(s) % Width = 0 /\ c.size <= Len(s) /\ target <= Len(s)
          /\ target <= o + Len(w)
      BY <1>0, <1>3, <1>6, <2>1, <2>3
    <3>2. \A j \in 1..c.size : s[j] = g.data[j]
      BY <1>0, <1>3, <2>3
    <3>3. \A j \in 1..Len(s) : j > c.size => s[j] = 0
      <4>1. ASSUME NEW j \in 1..Len(s), j > c.size PROVE s[j] = 0
        <5>1. CASE j <= Len(g.data)
          <6>1. j \in 1..Len(g.data)
            BY <1>0, <5>1
          <6> QED
            BY <1>3, <2>3, <4>1, <6>1
        <5>2. CASE ~(j <= Len(g.data))
          BY <1>0, <2>3, <5>2
        <5> QED
          BY <5>1, <5>2
      <4> QED
        BY <4>1
    <3>4. target = o + Len(w)
      OBVIOUS
    <3> HIDE DEF target
    <3> QED
      BY <1>1, <1>3, <2>3, <2>5, <3>1, <3>2, <3>3, <3>4, VecStoredPuts
  <2>6. CASE r = VecStored(g, c, o, w, g.data, short, "nomem")
    <3>1. short <= o + Len(w)
      BY <2>4
    <3>2. \A j \in 1..c.size : g.data[j] = g.data[j]
      OBVIOUS
    <3> QED
      BY <1>0, <1>1, <1>3, <2>4, <2>6, <3>1, <3>2, VecStoredPuts
  <2> QED
    BY <2>2, <2>5, <2>6
<1> QED
  BY <1>5, <1>6

-----------------------------------------------------------------------------
(* The methods of an adapter of any kind, byte by byte *)

\* What every adapter keeps beside Good: the fixed size of memory, the zeroes behind the
\* bytes of a vector, and a buffer that holds bytes of the file.
Kept(k, g, b) ==
  /\ k \in Rams => b.size = Len(g.data)
  /\ k \in Vectors => SpareZero(g, b)
  /\ k \in Proxied => Inside(g, b)
  /\ k = "memory" => b.size <= Len(g.data) /\ b.ptr <= b.size

\* The bytes are those that were there.
Untouched(k, r, g, b) == r.f.data = g.data /\ EndOf(k, r.f, r.a) = EndOf(k, g, b)

\* Kept, kind by kind.
LEMMA KeptParts ==
  ASSUME NEW k, NEW g, NEW b
  PROVE  /\ k \notin Rams /\ k \notin Vectors /\ k \notin Proxied /\ k # "memory" => Kept(k, g, b)
         /\ k \in Rams => (Kept(k, g, b) <=> b.size = Len(g.data))
         /\ k \in Vectors => (Kept(k, g, b) <=> SpareZero(g, b))
         /\ k \in Proxied => (Kept(k, g, b) <=> Inside(g, b))
         /\ k = "memory" => (Kept(k, g, b) <=> b.size <= Len(g.data) /\ b.ptr <= b.size)
BY DEF Kept, Rams, Vectors, Proxied

\* Another pointer.
LEMMA OtherPointer ==
  ASSUME NEW g \in Hosts, NEW b \in Adapters, NEW c \in Adapters,
         c.size = b.size, c.elements = b.elements, c.base = b.base, c.buffer = b.buffer,
         NEW k, k = "memory" => c.ptr <= c.size
  PROVE  /\ EndOf(k, g, c) = EndOf(k, g, b)
         /\ Kept(k, g, b) => Kept(k, g, c)
<1>1. CheckResized(g, c).size = CheckResized(g, b).size
  <2>1. CASE Len(g.data) \div Width # b.elements
    BY <2>1 DEF CheckResized, Adapters
  <2>2. CASE Len(g.data) \div Width = b.elements
    BY <2>2 DEF CheckResized
  <2> QED
    BY <2>1, <2>2
<1>2. EndOf(k, g, c) = EndOf(k, g, b)
  BY <1>1 DEF EndOf
<1>3. SpareZero(g, b) => SpareZero(g, c)
  BY DEF SpareZero
<1>4. Inside(g, b) => Inside(g, c)
  BY DEF Inside
<1> QED
  BY <1>2, <1>3, <1>4 DEF Kept

\* A host of which something else than the bytes changed.
LEMMA OtherHost ==
  ASSUME NEW k, NEW g, NEW h, h.data = g.data, NEW b
  PROVE  EndOf(k, h, b) = EndOf(k, g, b) /\ (Kept(k, g, b) => Kept(k, h, b))
<1>1. EndOf(k, h, b) = EndOf(k, g, b)
  <2>1. CheckResized(h, b) = CheckResized(g, b)
    BY DEF CheckResized
  <2> QED
    BY <2>1 DEF EndOf
<1>2. Kept(k, g, b) => Kept(k, h, b)
  BY DEF Kept, SpareZero, Inside
<1> QED
  BY <1>1, <1>2

\* The vector's size, once it is counted.
LEMMA CheckedKept ==
  ASSUME NEW k \in Vectors, NEW g \in Hosts, NEW b \in Adapters, Whole(g, b), SpareZero(g, b),
         NEW c, c = CheckResized(g, b)
  PROVE  /\ EndOf(k, g, c) = EndOf(k, g, b) /\ EndOf(k, g, b) = c.size
         /\ Kept(k, g, c) /\ c.ptr = b.ptr /\ c \in Adapters
<1>1. /\ c \in Adapters /\ Whole(g, c) /\ Counted(g, c) /\ c.ptr = b.ptr /\ SpareZero(g, c)
  BY CheckedFacts
<1>2. CheckResized(g, c) = c
  BY <1>1, CountedBytes
<1>3. EndOf(k, g, c) = c.size /\ EndOf(k, g, b) = c.size
  BY <1>2, EndFacts
<1> QED
  BY <1>1, <1>3, KeptParts

\* read_some_at.
LEMMA ReadSomeAtPulls ==
  ASSUME ~OsdSeekFails, Good(kind, f, a), Kept(kind, f, a), NEW o \in Nat, NEW n \in Nat,
         NEW r \in ReadSomeAt(o, n)
  PROVE  /\ Untouched(kind, r, f, a) /\ Kept(kind, r.f, r.a)
         /\ r.err = "ok" => Gives(r.out, f.data, EndOf(kind, f, a), o)
         /\ r.err = "ok" /\ kind \in Stdios => r.f.pos = f.pos
         /\ kind = "memory" /\ o <= a.size => o + Len(r.out) <= a.size
<1>1. /\ kind \in AllKinds /\ f \in Hosts /\ a \in Adapters /\ f.data \in Bytes
      /\ Len(f.data) \in Nat /\ a.size \in Nat /\ (kind \in Vectors => Whole(f, a))
  BY GoodFields
\* Where the end is the file's.
<1>2. ASSUME kind \notin Vectors, kind # "memory", Pulls(r, f, o), Kept(kind, r.f, r.a),
             r.err = "ok" /\ kind \in Stdios => r.f.pos = f.pos
      PROVE  /\ Untouched(kind, r, f, a) /\ Kept(kind, r.f, r.a)
             /\ r.err = "ok" => Gives(r.out, f.data, EndOf(kind, f, a), o)
             /\ r.err = "ok" /\ kind \in Stdios => r.f.pos = f.pos
             /\ kind = "memory" /\ o <= a.size => o + Len(r.out) <= a.size
  <2>1. r.f.data = f.data /\ (r.err = "ok" => Gives(r.out, f.data, Len(f.data), o))
    BY <1>2 DEF Pulls
  <2>2. EndOf(kind, f, a) = Len(f.data) /\ EndOf(kind, r.f, r.a) = Len(f.data)
    BY <1>2, <2>1, EndFacts
  <2> QED
    BY <1>2, <2>1, <2>2 DEF Untouched
<1>3. CASE kind \in Rams
  <2>1. r \in RamReadAt(f, a, o, n)
    BY <1>3 DEF ReadSomeAt, Rams, Vectors, Stdios, Proxied
  <2>2. r.f = f /\ r.a = a /\ r.out = Piece(f.data, o, n)
    BY <2>1 DEF RamReadAt, R
  <2>3. Gives(Piece(f.data, o, n), f.data, Len(f.data), o)
    BY <1>1, PieceBytes
  <2>4. Pulls(r, f, o) /\ Kept(kind, r.f, r.a)
    BY <2>2, <2>3 DEF Pulls
  <2> QED
    BY <1>2, <1>3, <2>2, <2>4, KindsApart
<1>4. CASE kind \in Vectors
  <2>1. r \in VecReadAt(f, a, o, n)
    BY <1>4 DEF ReadSomeAt, Rams, Vectors, Stdios, Proxied
  <2>2. r.f = f /\ r.a = CheckResized(f, a) /\ Gives(r.out, f.data, CheckResized(f, a).size, o)
    BY <1>1, <1>4, <2>1, VecReadPulls
  <2>3. SpareZero(f, a)
    BY <1>4, KeptParts
  <2>4. /\ EndOf(kind, f, r.a) = EndOf(kind, f, a) /\ EndOf(kind, f, a) = r.a.size
        /\ Kept(kind, f, r.a)
    BY <1>1, <1>4, <2>2, <2>3, CheckedKept
  <2>5. kind \notin Stdios /\ kind # "memory"
    BY <1>4, KindsApart
  <2> QED
    BY <2>2, <2>4, <2>5 DEF Untouched
<1>5. CASE kind \in Stdios
  <2>1. r \in StdioReadSomeAt(f, a, o, n)
    BY <1>5 DEF ReadSomeAt, Rams, Vectors, Stdios, Proxied
  <2>2. Pulls(r, f, o) /\ (r.err = "ok" => r.f.pos = f.pos)
    BY <1>1, <2>1, StdioReadSomeAtPulls
  <2>3. kind \notin Vectors /\ kind # "memory" /\ kind \notin Rams /\ kind \notin Proxied
    BY <1>5, KindsApart
  <2>4. Kept(kind, r.f, r.a)
    BY <2>3, KeptParts
  <2> QED
    BY <1>2, <2>2, <2>3, <2>4
<1>6. CASE kind = "osd"
  <2>1. r \in OsdReadAt(f, a, o, n)
    BY <1>6 DEF ReadSomeAt, Rams, Vectors, Stdios, Proxied
  <2>2. PICK q \in OsdRead(f, o, n) : r = R(q.f, a, q.err, IF q.err = "ok" THEN q.out ELSE <<>>)
    BY <2>1 DEF OsdReadAt
  <2>3. r.f = q.f /\ r.err = q.err /\ (r.err = "ok" => r.out = q.out)
    BY <2>2 DEF R
  <2>4. q.f.data = f.data /\ (q.err = "ok" => Gives(q.out, f.data, Len(f.data), o))
    BY <1>1, <2>2, OsdReadPulls
  <2>5. Pulls(r, f, o)
    BY <2>3, <2>4 DEF Pulls
  <2>6. kind \notin Vectors /\ kind # "memory" /\ kind \notin Rams /\ kind \notin Proxied /\ kind \notin Stdios
    BY <1>6, KindsApart DEF Proxied
  <2>7. Kept(kind, r.f, r.a)
    BY <2>6, KeptParts
  <2> QED
    BY <1>2, <2>5, <2>6, <2>7
<1>7. CASE kind = "rust"
  <2>1. r \in RustReadAt(f, a, o, n)
    BY <1>7 DEF ReadSomeAt, Rams, Vectors, Stdios, Proxied
  <2>2. Pulls(r, f, o)
    BY <1>1, <2>1, RustReadPulls
  <2>3. kind \notin Vectors /\ kind # "memory" /\ kind \notin Rams /\ kind \notin Proxied /\ kind \notin Stdios
    BY <1>7, KindsApart DEF Proxied
  <2>4. Kept(kind, r.f, r.a)
    BY <2>3, KeptParts
  <2> QED
    BY <1>2, <2>2, <2>3, <2>4
<1>8. CASE kind \in Proxied
  <2>1. r \in CoreReadSomeAt(f, a, o, n)
    BY <1>8 DEF ReadSomeAt, Rams, Vectors, Stdios, Proxied
  <2>2. Inside(f, a)
    BY <1>8, KeptParts
  <2>3. Pulls(r, f, o) /\ Inside(r.f, r.a)
    BY <1>1, <2>1, <2>2, CoreReadPulls
  <2>4. kind \notin Vectors /\ kind # "memory" /\ kind \notin Stdios
    BY <1>8, KindsApart
  <2>5. Kept(kind, r.f, r.a)
    BY <1>8, <2>3, KeptParts
  <2> QED
    BY <1>2, <2>3, <2>4, <2>5
<1>9. CASE kind = "memory"
  <2>1. r \in MemoryReadAt(f, a, o, n)
    BY <1>9 DEF ReadSomeAt, Rams, Vectors, Stdios, Proxied
  <2>2. a.size <= Len(f.data)
    BY <1>9, KeptParts
  <2>3. /\ r.f = f /\ r.a = a /\ Gives(r.out, f.data, a.size, o)
        /\ o <= a.size => o + Len(r.out) <= a.size
    BY <1>1, <2>1, <2>2, MemoryReadPulls
  <2>4. EndOf(kind, f, a) = a.size
    BY <1>1, <1>9, <2>2, EndFacts DEF Least
  <2>5. kind \notin Stdios
    BY <1>9, KindsApart
  <2> QED
    BY <2>3, <2>4, <2>5 DEF Untouched
<1> QED
  BY <1>1, <1>3, <1>4, <1>5, <1>6, <1>7, <1>8, <1>9, KindsApart

\* The pointer moves on by what came or went.
LEMMA MovedKept ==
  ASSUME NEW q, q.f \in Hosts, q.a \in Adapters, Len(q.out) \in Nat, Kept(kind, q.f, q.a),
         kind = "memory" => q.a.ptr + Len(q.out) <= q.a.size, NEW r, r = Moved(q)
  PROVE  /\ r.f = q.f /\ r.err = q.err /\ r.out = q.out /\ r.a.ptr = q.a.ptr + Len(q.out)
         /\ EndOf(kind, r.f, r.a) = EndOf(kind, q.f, q.a) /\ Kept(kind, r.f, r.a)
<1> DEFINE m == q.a.ptr + Len(q.out)
<1>1. m \in Nat /\ q.a.size \in Nat
  BY AdapterFields
<1>2. CASE kind \in Proxied
  <2> DEFINE c == AddOffset(q.a, Len(q.out))
  <2>1. r.f = q.f /\ r.err = q.err /\ r.out = q.out /\ r.a = c
    BY <1>2, Zenon DEF Moved, R
  <2>2. c.ptr = m /\ c.base = q.a.base /\ c.buffer = q.a.buffer
    BY DEF AddOffset, Adapters
  <2> HIDE DEF c
  <2>3. Inside(r.f, r.a)
    <3>1. Inside(q.f, q.a)
      BY <1>2, KeptParts
    <3> QED
      BY <2>1, <2>2, <3>1 DEF Inside
  <2>4. kind \notin Vectors /\ kind # "memory"
    BY <1>2, KindsApart
  <2>5. EndOf(kind, r.f, r.a) = EndOf(kind, q.f, q.a)
    BY <2>1, <2>4, EndFacts
  <2> QED
    BY <1>2, <2>1, <2>2, <2>3, <2>5, KeptParts
<1>3. CASE kind = "memory"
  <2> DEFINE c == AddOffset(q.a, Len(q.out))
  <2>1. r.f = q.f /\ r.err = q.err /\ r.out = q.out /\ r.a = c
    BY <1>3, Zenon DEF Moved, R
  <2>2. c.ptr = m /\ c.size = Most(q.a.size, m)
    BY DEF AddOffset, Adapters
  <2>3. c.size = q.a.size
    BY <1>1, <1>3, <2>2 DEF Most
  <2> HIDE DEF c
  <2>4. q.a.size <= Len(q.f.data)
    BY <1>3, KeptParts
  <2>5. Kept(kind, r.f, r.a)
    BY <1>3, <2>1, <2>2, <2>3, <2>4, KeptParts
  <2>6. EndOf(kind, r.f, r.a) = EndOf(kind, q.f, q.a)
    BY <1>3, <2>1, <2>3, EndFacts
  <2> QED
    BY <2>1, <2>2, <2>5, <2>6
<1>4. CASE kind \notin Proxied \union {"memory"}
  <2> DEFINE c == [q.a EXCEPT !.ptr = m]
  <2>1. r.f = q.f /\ r.err = q.err /\ r.out = q.out /\ r.a = c
    BY <1>4, Zenon DEF Moved, R
  <2> HIDE DEF m
  <2>2. /\ c.size = q.a.size /\ c.elements = q.a.elements /\ c.base = q.a.base
        /\ c.buffer = q.a.buffer /\ c.ptr = m /\ c \in Adapters
    BY <1>1 DEF Adapters
  <2> HIDE DEF c
  <2>3. kind # "memory"
    BY <1>4
  <2>4. EndOf(kind, q.f, c) = EndOf(kind, q.f, q.a) /\ Kept(kind, q.f, c)
    BY <2>2, <2>3, OtherPointer
  <2> QED
    BY <2>1, <2>2, <2>4 DEF m
<1> QED
  BY <1>2, <1>3, <1>4

\* read_some.
LEMMA ReadSomePulls ==
  ASSUME ~OsdSeekFails, Good(kind, f, a), Kept(kind, f, a), NEW n \in Nat, NEW r \in ReadSome(n)
  PROVE  /\ Untouched(kind, r, f, a) /\ Kept(kind, r.f, r.a)
         /\ r.err = "ok" => Gives(r.out, f.data, EndOf(kind, f, a), At(kind, f, a))
<1>1. /\ f \in Hosts /\ a \in Adapters /\ f.data \in Bytes /\ a.ptr \in Nat /\ a.size \in Nat
  BY GoodFields
<1>2. CASE kind \in Stdios
  <2>1. r \in StdioReadSome(f, a, n)
    BY <1>2, Zenon DEF ReadSome
  <2>2. Pulls(r, f, f.pos)
    BY <1>1, <2>1, StdioReadSomePulls
  <2>3. kind \notin Vectors /\ kind # "memory" /\ kind \notin Rams /\ kind \notin Proxied
    BY <1>2, KindsApart
  <2>4. r.f.data = f.data /\ (r.err = "ok" => Gives(r.out, f.data, Len(f.data), f.pos))
    BY <2>2 DEF Pulls
  <2>5. EndOf(kind, f, a) = Len(f.data) /\ EndOf(kind, r.f, r.a) = Len(f.data)
    BY <2>3, <2>4, EndFacts
  <2>6. Kept(kind, r.f, r.a)
    BY <2>3, KeptParts
  <2>7. At(kind, f, a) = f.pos
    BY <1>2 DEF At
  <2> QED
    BY <2>4, <2>5, <2>6, <2>7 DEF Untouched
<1>3. CASE kind \notin Stdios
  <2>1. PICK q \in ReadSomeAt(a.ptr, n) : r = Moved(q)
    BY <1>3 DEF ReadSome
  <2>2. /\ Untouched(kind, q, f, a) /\ Kept(kind, q.f, q.a)
        /\ q.err = "ok" => Gives(q.out, f.data, EndOf(kind, f, a), a.ptr)
        /\ kind = "memory" /\ a.ptr <= a.size => a.ptr + Len(q.out) <= a.size
    BY <1>1, <2>1, ReadSomeAtPulls
  <2>3. Sound(kind, q) /\ q.a.ptr = a.ptr /\ (kind = "memory" => q.f = f /\ q.a = a)
    BY <1>1, <1>3, <2>1, ReadSomeAtFacts
  <2>4. q.f \in Hosts /\ q.a \in Adapters /\ Len(q.out) \in Nat
    BY <2>3 DEF Sound, Good, Bytes
  <2>5. kind = "memory" => q.a.ptr + Len(q.out) <= q.a.size
    BY <2>2, <2>3, KeptParts
  <2>6. /\ r.f = q.f /\ r.err = q.err /\ r.out = q.out
        /\ EndOf(kind, r.f, r.a) = EndOf(kind, q.f, q.a) /\ Kept(kind, r.f, r.a)
    BY <2>1, <2>2, <2>4, <2>5, MovedKept
  <2>7. At(kind, f, a) = a.ptr
    BY <1>3 DEF At
  <2> QED
    BY <2>2, <2>6, <2>7 DEF Untouched
<1> QED
  BY <1>2, <1>3

\* A write to a vector leaves the pointer.
LEMMA VecWritePointer ==
  ASSUME NEW g \in Hosts, NEW b \in Adapters, NEW o \in Nat, NEW w \in Bytes, NEW r \in VecWriteAt(g, b, o, w)
  PROVE  r.a.ptr = b.ptr
<1> DEFINE c == CheckResized(g, b)
           required == ((o + Len(w) + Width - 1) \div Width) * Width
<1>1. c.ptr = b.ptr /\ c \in Adapters
  <2>1. CASE Len(g.data) \div Width # b.elements
    <3> DEFINE e == Len(g.data) \div Width
    <3>1. e \in Nat /\ Len(g.data) \in Nat
      BY HostFields, WidthFacts
    <3>2. c = [b EXCEPT !.elements = e, !.size = Len(g.data)]
      BY <2>1 DEF CheckResized
    <3> HIDE DEF c, e
    <3> QED
      BY <3>1, <3>2 DEF Adapters
  <2>2. CASE Len(g.data) \div Width = b.elements
    BY <2>2 DEF CheckResized
  <2> QED
    BY <2>1, <2>2
<1>2. r \in VecWrite(g, c, o, w, o + Len(w))
  BY DEF VecWriteAt
<1>3. \/ r = VecInPlace(g, c, o, w, o + Len(w))
      \/ r = VecStored(g, c, o, w, Grown(g.data, required), o + Len(w), "ok")
      \/ r = VecStored(g, c, o, w, g.data, Least(o + Len(w), Len(g.data)), "nomem")
  BY <1>2, Zenon DEF VecWrite
<1> HIDE DEF c, required
<1>4. VecInPlace(g, c, o, w, o + Len(w)).a.ptr = c.ptr
  BY <1>1 DEF VecInPlace, R, Adapters
<1>5. ASSUME NEW s, NEW limit, NEW err
      PROVE  VecStored(g, c, o, w, s, limit, err).a.ptr = c.ptr
  BY <1>1 DEF VecStored, R, Adapters
<1> QED
  BY <1>1, <1>3, <1>4, <1>5

\* random_write_fill_wrapper over a vector with b.size bytes.
LEMMA FillWrapperPuts ==
  ASSUME Good(kind, f, a), kind \in Vectors, SpareZero(f, a), NEW o \in Nat, NEW w \in Bytes,
         NEW r \in FillWrapperWrite(o, w)
  PROVE  /\ Within(f.data, CheckResized(f, a).size, r.f.data, r.a.size, o, w, a.filler)
         /\ r.err = "ok" => Took(f.data, CheckResized(f, a).size, r.f.data, r.a.size, o, w, r.out)
         /\ Counted(r.f, r.a) /\ SpareZero(r.f, r.a) /\ r.a.ptr = a.ptr
<1> DEFINE b == CheckResized(f, a)
<1>1. /\ f \in Hosts /\ a \in Adapters /\ Whole(f, a) /\ f.data \in Bytes /\ Len(f.data) \in Nat
      /\ Defined(f)
  BY GoodFields
<1>2. /\ b \in Adapters /\ Whole(f, b) /\ Counted(f, b) /\ b.filler = a.filler /\ b.ptr = a.ptr
      /\ SpareZero(f, b)
  BY <1>1, CheckedFacts
<1>3. CheckResized(f, b) = b
  BY <1>1, <1>2, CountedBytes
<1>4. \/ b.size >= o /\ r \in VecWriteAt(f, b, o, w)
      \/ /\ ~(b.size >= o)
         /\ \E g \in VecWriteAt(f, b, b.size, Repeat(b.filler, o - b.size)) :
              r \in IF g.err = "ok" THEN VecWriteAt(g.f, g.a, o, w) ELSE {R(g.f, g.a, g.err, <<>>)}
  BY DEF FillWrapperWrite
<1> HIDE DEF b
<1>5. Len(w) \in Nat /\ b.size \in Nat /\ b.filler \in Nat
  BY <1>2, AdapterFields DEF Bytes
<1>6. CASE b.size >= o /\ r \in VecWriteAt(f, b, o, w)
  <2>1. Vectored(r, f, b.size, o, w)
    BY <1>1, <1>2, <1>3, <1>6, VecWritePuts
  <2>2. /\ Within(f.data, b.size, r.f.data, r.a.size, o, w, 0)
        /\ Took(f.data, b.size, r.f.data, r.a.size, o, w, r.out)
        /\ Counted(r.f, r.a) /\ SpareZero(r.f, r.a)
    BY <2>1 DEF Vectored
  <2>3. Within(f.data, b.size, r.f.data, r.a.size, o, w, a.filler)
    <3>1. \A j \in 1..r.a.size : j > b.size /\ j <= o => r.f.data[j] = a.filler
      BY <1>5, <1>6
    <3> QED
      BY <2>2, <3>1 DEF Within
  <2>4. r.a.ptr = b.ptr
    BY <1>1, <1>2, <1>6, VecWritePointer
  <2> QED
    BY <1>2, <2>2, <2>3, <2>4 DEF b
<1>7. CASE /\ ~(b.size >= o)
           /\ \E g \in VecWriteAt(f, b, b.size, Repeat(b.filler, o - b.size)) :
                r \in IF g.err = "ok" THEN VecWriteAt(g.f, g.a, o, w) ELSE {R(g.f, g.a, g.err, <<>>)}
  <2> DEFINE u == Repeat(b.filler, o - b.size)
  <2>1. PICK g \in VecWriteAt(f, b, b.size, u) :
          r \in IF g.err = "ok" THEN VecWriteAt(g.f, g.a, o, w) ELSE {R(g.f, g.a, g.err, <<>>)}
    BY <1>7
  <2>2. u \in Bytes /\ Len(u) = o - b.size /\ \A k \in 1..(o - b.size) : u[k] = b.filler
    BY <1>5, <1>7, RepeatFacts
  <2> HIDE DEF u
  <2>3. Vectored(g, f, b.size, b.size, u)
    BY <1>1, <1>2, <1>3, <1>5, <2>1, <2>2, VecWritePuts
  <2>4. /\ Within(f.data, b.size, g.f.data, g.a.size, b.size, u, 0)
        /\ Took(f.data, b.size, g.f.data, g.a.size, b.size, u, g.out)
        /\ Begins(g.out, u) /\ (g.err = "ok" => g.out = u)
        /\ Counted(g.f, g.a) /\ SpareZero(g.f, g.a)
    BY <2>3 DEF Vectored
  <2>5. Fit(g, b) /\ Whole(g.f, g.a) /\ g.a.ptr = b.ptr
    BY <1>1, <1>2, <1>5, <2>1, <2>2, VecWriteFacts, VecWritePointer
  <2>6. /\ g.f \in Hosts /\ g.a \in Adapters /\ g.a.size \in Nat /\ g.out \in Bytes
        /\ Len(g.out) \in Nat /\ Defined(g.f)
    BY <2>5, AdapterFields DEF Fit, Bytes
  <2>7. Extended(f.data, b.size, g.f.data, g.a.size, o, b.filler)
    <3>1. /\ g.a.size >= b.size
          /\ \A j \in 1..b.size : g.f.data[j] = f.data[j]
      <4>1. /\ g.a.size >= b.size
            /\ \A j \in 1..b.size : j <= b.size \/ j > b.size + Len(u) => g.f.data[j] = f.data[j]
        BY <2>4, Zenon DEF Within
      <4> QED
        BY <1>5, <4>1
    <3>2. ASSUME NEW j \in 1..g.a.size, j > b.size PROVE j <= o /\ g.f.data[j] = b.filler
      <4>1. \A i \in 1..g.a.size : i > b.size + Len(g.out) => i <= b.size
        BY <2>4 DEF Took
      <4>2. j <= b.size + Len(g.out)
        BY <1>5, <2>6, <3>2, <4>1
      <4>3. Len(g.out) <= Len(u) /\ \A h \in 1..Len(g.out) : g.f.data[b.size + h] = u[h]
        BY <2>4 DEF Took, Begins
      <4> DEFINE i == j - b.size
      <4>4. i \in 1..Len(g.out) /\ i \in 1..(o - b.size) /\ b.size + i = j /\ j <= o
        <5>1. Len(g.out) <= o - b.size
          BY <2>2, <4>3
        <5>2. j \in Int
          BY <2>6
        <5> QED
          BY <1>5, <2>6, <3>2, <4>2, <5>1, <5>2
      <4> HIDE DEF i
      <4> QED
        BY <2>2, <4>3, <4>4
    <3> QED
      BY <3>1, <3>2 DEF Extended
  <2>8. CASE g.err = "ok"
    <3>1. r \in VecWriteAt(g.f, g.a, o, w)
      BY <2>1, <2>8
    <3>2. CheckResized(g.f, g.a) = g.a
      BY <2>4, <2>5, <2>6, CountedBytes
    <3>3. Vectored(r, g.f, g.a.size, o, w)
      BY <2>4, <2>5, <2>6, <3>1, <3>2, VecWritePuts
    <3>4. /\ Within(g.f.data, g.a.size, r.f.data, r.a.size, o, w, 0)
          /\ Took(g.f.data, g.a.size, r.f.data, r.a.size, o, w, r.out)
          /\ Counted(r.f, r.a) /\ SpareZero(r.f, r.a)
      BY <3>3 DEF Vectored
    <3>5. g.a.size >= o
      <4>1. \A j \in 1..Len(u) : b.size + j <= g.a.size
        BY <2>4, <2>8 DEF Took
      <4>2. o - b.size \in 1..Len(u)
        BY <1>5, <1>7, <2>2
      <4>3. b.size + (o - b.size) <= g.a.size
        BY <4>1, <4>2
      <4> QED
        BY <1>5, <2>6, <4>3
    <3>6. Fit(r, g.a) /\ r.a.ptr = g.a.ptr
      BY <2>5, <2>6, <3>1, VecWriteFacts, VecWritePointer
    <3>7. r.a.size \in Nat /\ r.out \in Bytes
      BY <3>6, AdapterFields DEF Fit
    <3>8. /\ Within(f.data, b.size, r.f.data, r.a.size, o, w, b.filler)
          /\ \A out \in Bytes : Took(g.f.data, g.a.size, r.f.data, r.a.size, o, w, out)
                                  => Took(f.data, b.size, r.f.data, r.a.size, o, w, out)
      BY <1>5, <2>6, <2>7, <3>4, <3>5, <3>7, ExtendWritten, ZenonT(60)
    <3> QED
      BY <1>2, <2>5, <3>4, <3>6, <3>7, <3>8 DEF b
  <2>9. CASE g.err # "ok"
    <3>1. r.f = g.f /\ r.a = g.a /\ r.err # "ok"
      BY <2>1, <2>9 DEF R
    <3>2. Within(f.data, b.size, g.f.data, g.a.size, o, w, b.filler)
      BY <1>5, <2>6, <2>7, ExtendedFailed
    <3> QED
      BY <1>2, <2>4, <2>5, <3>1, <3>2 DEF b
  <2> QED
    BY <2>8, <2>9
<1> QED
  BY <1>4, <1>6, <1>7

\* A write of w at o by an adapter of any kind.
PutsAt(k, r, g, b, o, w) ==
  /\ Within(g.data, EndOf(k, g, b), r.f.data, EndOf(k, r.f, r.a), o, w, FillerOf(k))
  /\ r.err = "ok" => Took(g.data, EndOf(k, g, b), r.f.data, EndOf(k, r.f, r.a), o, w, r.out)

\* Where the end is the file's.
LEMMA PutsAtEnd ==
  ASSUME NEW k, k \notin Vectors, k # "memory", NEW r, NEW g, NEW b, NEW o, NEW w,
         Puts(r, g, o, w, FillerOf(k))
  PROVE  PutsAt(k, r, g, b, o, w)
<1>1. EndOf(k, g, b) = Len(g.data) /\ EndOf(k, r.f, r.a) = Len(r.f.data)
  BY EndFacts
<1> QED
  BY <1>1 DEF Puts, PutsAt

\* Without a filling wrapper the filler is zero.
LEMMA NoFiller ==
  ASSUME NEW k, k \notin {"ramfill", "vecfill", "filler"}
  PROVE  FillerOf(k) = 0
BY DEF FillerOf, Filling

\* The outcomes of the adapters that write to a file of their own.
LEMMA FilePuts ==
  ASSUME ~OsdSeekFails, Good(kind, f, a), kind \notin Vectors, kind \notin ReadOnly,
         NEW o \in Nat, NEW w \in Bytes, NEW r \in WriteSomeAt(o, w)
  PROVE  /\ Puts(r, f, o, w, FillerOf(kind)) /\ (kind \in Proxied => Inside(r.f, r.a))
         /\ kind \notin Stdios => r.a.ptr = a.ptr
         /\ r.err = "ok" /\ kind \in Stdios => r.f.pos = f.pos
<1>1. kind \in AllKinds /\ f \in Hosts /\ a \in Adapters /\ a.filler = FillerOf(kind)
  BY GoodFields
<1>2. CASE kind = "stdio"
  <2>1. r \in StdioWriteSomeAt(f, a, o, w)
    BY <1>2 DEF WriteSomeAt, Proxied, ReadOnly, Rams
  <2>2. Puts(r, f, o, w, 0) /\ (r.err = "ok" => r.f.pos = f.pos)
    BY <1>1, <2>1, StdioWriteSomeAtPuts
  <2> QED
    BY <1>2, <2>2, NoFiller DEF Stdios, Proxied
<1>3. CASE kind = "filler"
  <2>1. r \in FillerWriteSomeAt(f, a, o, w)
    BY <1>3 DEF WriteSomeAt, Proxied, ReadOnly, Rams
  <2>2. Puts(r, f, o, w, a.filler) /\ (r.err = "ok" => r.f.pos = f.pos)
    BY <1>1, <2>1, FillerWriteSomeAtPuts
  <2> QED
    BY <1>1, <1>3, <2>2 DEF Stdios, Proxied
<1>4. CASE kind = "osd"
  <2>1. r \in OsdWriteAt(f, a, o, w)
    BY <1>4 DEF WriteSomeAt, Proxied, ReadOnly, Rams
  <2>2. PICK q \in OsdWrite(f, o, w) : r = R(q.f, a, q.err, IF q.err = "ok" THEN q.out ELSE <<>>)
    BY <2>1 DEF OsdWriteAt
  <2>3. r.f = q.f /\ r.err = q.err /\ r.a = a /\ (r.err = "ok" => r.out = q.out)
    BY <2>2 DEF R
  <2>4. Puts(q, f, o, w, 0)
    BY <1>1, <2>2, OsdWritePuts
  <2>5. Puts(r, f, o, w, 0)
    BY <2>3, <2>4 DEF Puts
  <2> QED
    BY <1>4, <2>3, <2>5, NoFiller DEF Stdios, Proxied
<1>5. CASE kind = "rust"
  <2>1. r \in RustWriteAt(f, a, o, w)
    BY <1>5 DEF WriteSomeAt, Proxied, ReadOnly, Rams
  <2>2. Puts(r, f, o, w, 0)
    BY <1>1, <2>1, RustWritePuts
  <2>3. r.a = a
    BY <2>1 DEF RustWriteAt, R
  <2> QED
    BY <1>5, <2>2, <2>3, NoFiller DEF Stdios, Proxied
<1>6. CASE kind \in Proxied
  <2>1. r \in CoreWriteSomeAt(f, a, o, w)
    BY <1>6 DEF WriteSomeAt, Proxied, ReadOnly, Rams
  <2>2. Puts(r, f, o, w, 0) /\ Inside(r.f, r.a)
    BY <1>1, <2>1, CoreWritePuts
  <2>3. r.a.ptr = a.ptr
    <3>1. PICK q \in OsdWrite(f, o, w) :
            r = IF q.err = "ok"
                THEN R(q.f, [a EXCEPT !.buffer = <<>>, !.size = Most(@, o + Len(q.out))], "ok", q.out)
                ELSE R(q.f, [a EXCEPT !.buffer = <<>>], q.err, <<>>)
      BY <2>1 DEF CoreWriteSomeAt
    <3>2. CASE q.err = "ok"
      BY <1>1, <3>1, <3>2 DEF R, Adapters
    <3>3. CASE q.err # "ok"
      BY <1>1, <3>1, <3>3 DEF R, Adapters
    <3> QED
      BY <3>2, <3>3
  <2>4. kind \notin Stdios /\ FillerOf(kind) = 0
    BY <1>6, NoFiller DEF Stdios, Proxied
  <2> QED
    BY <2>2, <2>3, <2>4
<1> QED
  BY <1>1, <1>2, <1>3, <1>4, <1>5, <1>6 DEF AllKinds, Vectors, ReadOnly, Rams, Proxied

\* write_some_at.
LEMMA WriteSomeAtPuts ==
  ASSUME ~OsdSeekFails, Good(kind, f, a), Kept(kind, f, a), NEW o \in Nat, NEW w \in Bytes,
         NEW r \in WriteSomeAt(o, w)
  PROVE  /\ PutsAt(kind, r, f, a, o, w) /\ Kept(kind, r.f, r.a)
         /\ kind \notin Stdios => r.a.ptr = a.ptr
         /\ r.err = "ok" /\ kind \in Stdios => r.f.pos = f.pos
         /\ kind \in ReadOnly => r.a = a /\ r.out = <<>>
<1>1. /\ kind \in AllKinds /\ f \in Hosts /\ a \in Adapters /\ a.filler = FillerOf(kind)
      /\ f.data \in Bytes /\ Len(f.data) \in Nat /\ (kind \in Vectors => Whole(f, a)) /\ a.size \in Nat
  BY GoodFields
<1>2. CASE kind \in ReadOnly
  <2>1. r = R(f, a, "badf", <<>>)
    BY <1>2 DEF WriteSomeAt, ReadOnly, Rams, Proxied
  <2>2. r.f = f /\ r.a = a /\ r.err = "badf" /\ r.out = <<>>
    BY <2>1 DEF R
  <2>3. kind \notin Stdios /\ kind \notin Vectors
    BY <1>2, KindsApart DEF ReadOnly
  <2>4. EndOf(kind, f, a) \in Nat
    BY <1>1, <2>3, EndFacts, LeastMost
  <2> DEFINE e == EndOf(kind, f, a)
             fill == FillerOf(kind)
  <2> HIDE DEF e, fill
  <2>5. Within(f.data, e, f.data, e, o, w, fill)
    BY <2>4, NothingWritten DEF e
  <2>6. PutsAt(kind, r, f, a, o, w)
    BY <2>2, <2>5 DEF PutsAt, e, fill
  <2> QED
    BY <2>2, <2>3, <2>6
<1>3. CASE kind \in Vectors
  <2> DEFINE e == CheckResized(f, a).size
  <2>0. kind \notin Stdios /\ kind \notin ReadOnly /\ SpareZero(f, a)
    BY <1>3, KindsApart, KeptParts DEF ReadOnly
  <2>1. /\ Within(f.data, e, r.f.data, r.a.size, o, w, FillerOf(kind))
        /\ r.err = "ok" => Took(f.data, e, r.f.data, r.a.size, o, w, r.out)
        /\ Counted(r.f, r.a) /\ SpareZero(r.f, r.a) /\ r.a.ptr = a.ptr
    <3>1. CASE kind = "vec"
      <4>1. r \in VecWriteAt(f, a, o, w)
        BY <3>1 DEF WriteSomeAt, Proxied, ReadOnly, Rams
      <4>2. Vectored(r, f, e, o, w)
        BY <1>1, <1>3, <2>0, <4>1, VecWritePuts
      <4>3. r.a.ptr = a.ptr
        BY <1>1, <4>1, VecWritePointer
      <4>4. FillerOf(kind) = 0
        BY <3>1, NoFiller
      <4> HIDE DEF e
      <4> QED
        BY <4>2, <4>3, <4>4 DEF Vectored
    <3>2. CASE kind = "vecfill"
      <4>1. r \in FillWrapperWrite(o, w)
        BY <3>2 DEF WriteSomeAt, Proxied, ReadOnly, Rams
      <4> QED
        BY <1>1, <1>3, <2>0, <4>1, FillWrapperPuts
    <3> QED
      BY <1>3, <3>1, <3>2 DEF Vectors
  <2>2. Sound(kind, r)
    BY WriteSomeAtFacts
  <2>3. r.f \in Hosts /\ r.a \in Adapters /\ Whole(r.f, r.a)
    BY <1>3, <2>2, GoodFields DEF Sound
  <2>4. CheckResized(r.f, r.a) = r.a
    BY <2>1, <2>3, CountedBytes
  <2>5. EndOf(kind, r.f, r.a) = r.a.size /\ EndOf(kind, f, a) = e
    BY <1>3, <2>4, EndFacts
  <2> HIDE DEF e
  <2>6. PutsAt(kind, r, f, a, o, w)
    BY <2>1, <2>5 DEF PutsAt
  <2>7. Kept(kind, r.f, r.a)
    BY <1>3, <2>1, KeptParts
  <2> QED
    BY <2>0, <2>1, <2>6, <2>7
<1>4. CASE kind \notin Vectors /\ kind \notin ReadOnly
  <2>1. /\ Puts(r, f, o, w, FillerOf(kind)) /\ (kind \in Proxied => Inside(r.f, r.a))
        /\ kind \notin Stdios => r.a.ptr = a.ptr
        /\ r.err = "ok" /\ kind \in Stdios => r.f.pos = f.pos
    BY <1>4, FilePuts
  <2>2. kind # "memory" /\ kind \notin Rams
    BY <1>4 DEF ReadOnly
  <2>3. PutsAt(kind, r, f, a, o, w)
    BY <1>4, <2>1, <2>2, PutsAtEnd
  <2>4. Kept(kind, r.f, r.a)
    BY <1>4, <2>1, <2>2, KeptParts
  <2> QED
    BY <1>4, <2>1, <2>3, <2>4
<1> QED
  BY <1>2, <1>3, <1>4

\* write_some moves the position on by what was taken, when it succeeds.
LEMMA WriteSomePuts ==
  ASSUME ~OsdSeekFails, Good(kind, f, a), Kept(kind, f, a), NEW w \in Bytes, NEW r \in WriteSome(w)
  PROVE  /\ PutsAt(kind, r, f, a, At(kind, f, a), w) /\ Kept(kind, r.f, r.a)
         /\ r.err = "ok" => At(kind, r.f, r.a) = At(kind, f, a) + Len(r.out)
<1>1. f \in Hosts /\ a \in Adapters /\ a.filler = FillerOf(kind) /\ a.ptr \in Nat
  BY GoodFields
<1>2. CASE kind \in Stdios
  <2>1. /\ Puts(r, f, f.pos, w, FillerOf(kind))
        /\ r.err = "ok" => r.f.pos = f.pos + Len(r.out)
    <3>1. CASE kind = "stdio"
      <4>1. r \in StdioWriteSome(f, a, w)
        BY <3>1 DEF WriteSome
      <4>2. FillerOf(kind) = 0
        BY <3>1, NoFiller
      <4> QED
        BY <1>1, <4>1, <4>2, StdioWriteSomePuts
    <3>2. CASE kind = "filler"
      <4>1. r \in FillerWriteSome(f, a, w)
        BY <3>2 DEF WriteSome
      <4> QED
        BY <1>1, <4>1, FillerWriteSomePuts
    <3> QED
      BY <1>2, <3>1, <3>2 DEF Stdios
  <2>2. kind \notin Vectors /\ kind # "memory" /\ kind \notin Rams /\ kind \notin Proxied
    BY <1>2, KindsApart
  <2>3. PutsAt(kind, r, f, a, f.pos, w) /\ Kept(kind, r.f, r.a)
    BY <2>1, <2>2, PutsAtEnd, KeptParts
  <2>4. At(kind, f, a) = f.pos /\ At(kind, r.f, r.a) = r.f.pos
    BY <1>2 DEF At
  <2> QED
    BY <2>1, <2>3, <2>4
<1>3. CASE kind \notin Stdios
  <2>1. PICK q \in WriteSomeAt(a.ptr, w) : r = Moved(q)
    BY <1>3 DEF WriteSome, Stdios
  <2>2. /\ PutsAt(kind, q, f, a, a.ptr, w) /\ Kept(kind, q.f, q.a) /\ q.a.ptr = a.ptr
        /\ kind \in ReadOnly => q.a = a /\ q.out = <<>>
    BY <1>1, <1>3, <2>1, WriteSomeAtPuts
  <2>3. Sound(kind, q)
    BY <1>1, <2>1, WriteSomeAtFacts
  <2>4. q.f \in Hosts /\ q.a \in Adapters /\ Len(q.out) \in Nat
    BY <2>3 DEF Sound, Good, Bytes
  <2>5. kind = "memory" => q.a.ptr + Len(q.out) <= q.a.size
    <3>1. ASSUME kind = "memory" PROVE q.a.ptr + Len(q.out) <= q.a.size
      <4>1. Len(q.out) = 0 /\ q.a.ptr <= q.a.size
        BY <2>2, <3>1, KeptParts, NothingFacts DEF ReadOnly
      <4> QED
        BY <1>1, <2>2, <4>1
    <3> QED
      BY <3>1
  <2>6. /\ r.f = q.f /\ r.err = q.err /\ r.out = q.out /\ r.a.ptr = q.a.ptr + Len(q.out)
        /\ EndOf(kind, r.f, r.a) = EndOf(kind, q.f, q.a) /\ Kept(kind, r.f, r.a)
    BY <2>1, <2>2, <2>4, <2>5, MovedKept
  <2>7. At(kind, f, a) = a.ptr /\ At(kind, r.f, r.a) = r.a.ptr
    BY <1>3 DEF At
  <2>8. PutsAt(kind, r, f, a, a.ptr, w)
    BY <2>2, <2>6 DEF PutsAt
  <2> QED
    BY <2>2, <2>6, <2>7, <2>8
<1> QED
  BY <1>2, <1>3

\* Where the pointer is sent by a seek of an adapter that keeps one.
LEMMA PointerGoes ==
  ASSUME Good(kind, f, a), Kept(kind, f, a), kind \notin Stdios, NEW c \in Adapters,
         c.ptr = a.ptr, EndOf(kind, f, c) = EndOf(kind, f, a), Kept(kind, f, c),
         NEW from \in Int, NEW offset \in Int, NEW r, r = Gone(PointerSeek(c, from, offset)),
         kind = "memory" => from + offset <= c.size
  PROVE  /\ Untouched(kind, r, f, a) /\ Kept(kind, r.f, r.a)
         /\ r.err = "ok" => At(kind, r.f, r.a) = from + offset /\ from + offset \in 0..Top
         /\ r.err # "ok" => At(kind, r.f, r.a) = At(kind, f, a)
<1> DEFINE to == from + offset
           s == PointerSeek(c, from, offset)
<1>0. r.f = f /\ r.a = s.a /\ r.err = s.err
  BY DEF Gone, R
<1>1. f \in Hosts /\ Top \in Nat
  BY GoodFields, WidthAssumption
<1>2. CASE to \in 0..Top
  <2> DEFINE d == [c EXCEPT !.ptr = to]
  <2>1. s.a = d /\ s.err = "ok"
    BY <1>2 DEF PointerSeek
  <2>2. to \in Nat /\ (kind = "memory" => to <= c.size)
    BY <1>1, <1>2
  <2> HIDE DEF to, s
  <2>3. /\ d \in Adapters /\ d.ptr = to /\ d.size = c.size /\ d.elements = c.elements
        /\ d.base = c.base /\ d.buffer = c.buffer
    BY <2>2 DEF Adapters
  <2> HIDE DEF d
  <2>4. EndOf(kind, f, d) = EndOf(kind, f, c) /\ Kept(kind, f, d)
    BY <1>1, <2>2, <2>3, OtherPointer
  <2>5. At(kind, r.f, r.a) = to
    BY <1>0, <2>1, <2>3 DEF At
  <2> QED
    BY <1>0, <1>2, <2>1, <2>4, <2>5 DEF Untouched, to
<1>3. CASE to \notin 0..Top
  <2>1. s.a = c /\ s.err = "invalid"
    BY <1>3 DEF PointerSeek
  <2> HIDE DEF s
  <2> QED
    BY <1>0, <2>1 DEF Untouched, At
<1> QED
  BY <1>2, <1>3

\* Only a seek from the end looks at it.
LEMMA FromSame ==
  ASSUME NEW whence \in {"set", "cur", "end"}, NEW x, NEW y, whence # "end" \/ x = y
  PROVE  From(whence, x) = From(whence, y)
BY DEF From

\* seek.
LEMMA SeekGoes ==
  ASSUME Good(kind, f, a), Kept(kind, f, a), NEW whence \in {"set", "cur", "end"}, NEW offset \in Int,
         kind = "memory" => Base(whence) + offset <= Len(Contents),
         kind = "rust" => Base(whence) + offset \in 0..Top,
         NEW r \in Seeks(whence, offset)
  PROVE  /\ Untouched(kind, r, f, a) /\ Kept(kind, r.f, r.a)
         /\ r.err = "ok" => At(kind, r.f, r.a) = Base(whence) + offset /\ Base(whence) + offset \in 0..Top
         /\ r.err # "ok" => At(kind, r.f, r.a) = At(kind, f, a)
<1> DEFINE end == EndOf(kind, f, a)
<1>1. /\ kind \in AllKinds /\ f \in Hosts /\ a \in Adapters /\ a.size \in Nat /\ Len(f.data) \in Nat
      /\ (kind \in Vectors => Whole(f, a)) /\ a.ptr \in Nat
  BY GoodFields
<1>2. end = Len(Contents) /\ end \in Nat
  BY ContentsLength
<1>3. /\ kind \in Proxied => Base(whence) = From(whence, a.size)
      /\ kind \notin Proxied => Base(whence) = From(whence, end)
  <2>1. kind \in Proxied => Base(whence) = From(whence, a.size)
    BY Zenon DEF Base
  <2>2. kind \notin Proxied => Base(whence) = From(whence, end)
    BY <1>2, Zenon DEF Base
  <2> QED
    BY <2>1, <2>2
<1> HIDE DEF end
<1>4. \A x \in Int : From(whence, x) \in Int
  BY FromFacts
<1>5. CASE kind \in Stdios
  <2> DEFINE to == offset + From(whence, Len(f.data))
  <2>1. r \in StdioSeek(f, a, to)
    BY <1>5 DEF Seeks, Stdios, Rams, Vectors
  <2>2. kind \notin Vectors /\ kind # "memory" /\ kind \notin Rams /\ kind \notin Proxied
    BY <1>5, KindsApart
  <2>3. end = Len(f.data)
    BY <2>2, EndFacts DEF end
  <2>4. to \in Int /\ to = Base(whence) + offset
    <3>1. From(whence, Len(f.data)) = Base(whence) /\ From(whence, Len(f.data)) \in Int
      BY <1>1, <1>3, <1>4, <2>2, <2>3
    <3> QED
      BY <3>1
  <2> HIDE DEF to
  <2>5. /\ r.f.data = f.data /\ (r.err = "ok" => r.f.pos = to /\ to \in 0..Top)
        /\ r.err # "ok" => r.f.pos = f.pos
    BY <1>1, <2>1, <2>4, StdioSeekGoes
  <2>6. EndOf(kind, r.f, r.a) = EndOf(kind, f, a) /\ Kept(kind, r.f, r.a)
    BY <2>2, <2>5, EndFacts, KeptParts
  <2>7. At(kind, r.f, r.a) = r.f.pos /\ At(kind, f, a) = f.pos
    BY <1>5 DEF At
  <2> QED
    BY <2>4, <2>5, <2>6, <2>7 DEF Untouched
<1>6. CASE kind \in Vectors
  <2> DEFINE c == CheckResized(f, a)
             d == IF whence = "end" THEN c ELSE a
  <2>1. r \in VecSeek(whence, offset)
    BY <1>6 DEF Seeks, Stdios, Rams, Vectors
  <2>2. r = Gone(PointerSeek(d, From(whence, c.size), offset))
    BY <2>1 DEF VecSeek, VecLength, Asked, R
  <2>3. SpareZero(f, a) /\ kind \notin Stdios /\ kind \notin Proxied /\ kind # "memory"
    BY <1>6, KeptParts, KindsApart
  <2>4. /\ EndOf(kind, f, c) = EndOf(kind, f, a) /\ EndOf(kind, f, a) = c.size
        /\ Kept(kind, f, c) /\ c.ptr = a.ptr /\ c \in Adapters
    BY <1>1, <1>6, <2>3, CheckedKept
  <2> HIDE DEF c
  <2>5. /\ EndOf(kind, f, d) = EndOf(kind, f, a) /\ Kept(kind, f, d) /\ d.ptr = a.ptr
        /\ d \in Adapters
    BY <1>1, <2>4
  <2>6. From(whence, c.size) = Base(whence) /\ From(whence, c.size) \in Int
    BY <1>2, <1>3, <1>4, <2>3, <2>4 DEF end
  <2> HIDE DEF d
  <2> QED
    BY <2>2, <2>3, <2>5, <2>6, PointerGoes
<1>7. CASE kind = "osd"
  <2>0. kind \notin Stdios /\ kind \notin Proxied /\ kind # "memory"
    BY <1>7, KindsApart DEF Proxied
  <2>1. r \in OsdAdapterSeek(whence, offset)
    BY <1>7 DEF Seeks, Stdios, Rams, Vectors
  <2>2. CASE whence = "end"
    <3>1. r.f = f /\ r.a = a /\ r.err = "invalid"
      BY <2>1, <2>2 DEF OsdAdapterSeek, R
    <3> QED
      BY <3>1 DEF Untouched
  <2>3. CASE whence # "end"
    <3>1. r = Gone(PointerSeek(a, From(whence, 0), offset))
      BY <2>1, <2>3 DEF OsdAdapterSeek
    <3>2. From(whence, 0) = Base(whence) /\ From(whence, 0) \in Int
      BY <1>3, <1>4, <2>0, <2>3, FromSame
    <3> QED
      BY <1>1, <2>0, <3>1, <3>2, PointerGoes
  <2> QED
    BY <2>2, <2>3
<1>8. CASE kind = "rust"
  <2>0. kind \notin Stdios /\ kind \notin Proxied /\ kind # "memory" /\ kind \notin Vectors /\ kind \notin Rams
    BY <1>8, KindsApart DEF Proxied
  <2>1. r \in RustSeekTo(whence, offset)
    BY <1>8 DEF Seeks, Stdios, Rams, Vectors
  <2>2. \/ r = Gone(RustSeek(a, Base(whence), offset))
        \/ r.f = f /\ r.a = a /\ r.err # "ok"
    <3>1. CASE whence = "end"
      <4>1. PICK l \in RustLength : r = IF l.err = "ok" THEN Gone(RustSeek(a, l.out[1], offset)) ELSE l
        BY <2>1, <3>1 DEF RustSeekTo
      <4>2. l.f = f /\ l.a = a /\ (l.err = "ok" => l.out = <<Len(f.data)>>)
        BY <4>1, RustLengthFacts
      <4>3. Base(whence) = Len(f.data)
        BY <1>3, <2>0, <3>1, EndFacts DEF From, end
      <4> QED
        BY <4>1, <4>2, <4>3
    <3>2. CASE whence # "end"
      <4>1. r = Gone(RustSeek(a, From(whence, 0), offset))
        BY <2>1, <3>2 DEF RustSeekTo
      <4> QED
        BY <1>3, <3>2, <4>1, FromSame
    <3> QED
      BY <3>1, <3>2
  <2>3. CASE r = Gone(RustSeek(a, Base(whence), offset))
    <3> DEFINE to == Base(whence) + offset
               d == [a EXCEPT !.ptr = to % (Top + 1)]
    <3>1. r.f = f /\ r.a = d /\ r.err = "ok"
      BY <2>3 DEF Gone, R, RustSeek
    <3>2. to \in 0..Top /\ Top \in Nat
      BY <1>8, WidthAssumption
    <3> HIDE DEF to
    <3>3. to % (Top + 1) = to
      BY <3>2
    <3>4. d.ptr = to
      BY <1>1, <3>3 DEF Adapters
    <3> HIDE DEF d
    <3>5. EndOf(kind, r.f, r.a) = EndOf(kind, f, a) /\ Kept(kind, r.f, r.a)
      BY <2>0, <3>1, EndFacts, KeptParts
    <3>6. At(kind, r.f, r.a) = to
      BY <2>0, <3>1, <3>4 DEF At
    <3> QED
      BY <3>1, <3>2, <3>5, <3>6 DEF Untouched, to
  <2>4. CASE r.f = f /\ r.a = a /\ r.err # "ok"
    BY <2>4 DEF Untouched
  <2> QED
    BY <2>2, <2>3, <2>4
<1>9. CASE kind \in Rams \/ kind \in Proxied \/ kind = "memory"
  <2>0. kind \notin Stdios /\ kind \notin Vectors
    BY <1>9, KindsApart
  <2>1. r = Gone(PointerSeek(a, From(whence, a.size), offset))
    BY <1>9, <2>0 DEF Seeks, Proxied, Rams, RamSeek, CoreSeek
  <2>2. kind \notin Proxied => a.size = end
    <3>1. CASE kind \in Rams
      <4>1. kind \notin Vectors /\ kind # "memory" /\ a.size = Len(f.data)
        BY <3>1, KindsApart, KeptParts
      <4> QED
        BY <4>1, EndFacts DEF end
    <3>2. CASE kind = "memory"
      <4>1. a.size <= Len(f.data)
        BY <3>2, KeptParts
      <4> QED
        BY <1>1, <3>2, <4>1, EndFacts DEF end, Least
    <3> QED
      BY <1>9, <3>1, <3>2
  <2>3. From(whence, a.size) = Base(whence) /\ From(whence, a.size) \in Int
    <3>1. CASE kind \in Proxied
      BY <1>1, <1>3, <1>4, <3>1
    <3>2. CASE kind \notin Proxied
      <4>1. From(whence, a.size) = From(whence, end)
        BY <2>2, <3>2
      <4> QED
        BY <1>2, <1>3, <1>4, <3>2, <4>1
    <3> QED
      BY <3>1, <3>2
  <2>4. kind = "memory" => Base(whence) + offset <= a.size
    BY <1>2, <2>2 DEF Proxied
  <2> QED
    BY <1>1, <2>0, <2>1, <2>3, <2>4, PointerGoes
<1> QED
  BY <1>1, <1>5, <1>6, <1>7, <1>8, <1>9, KindsApart

\* length.
LEMMA LengthStays ==
  ASSUME Good(kind, f, a), Kept(kind, f, a), NEW r \in LengthOf
  PROVE  /\ Untouched(kind, r, f, a) /\ Kept(kind, r.f, r.a)
         /\ r.err = "ok" => At(kind, r.f, r.a) = At(kind, f, a)
<1>1. f \in Hosts /\ a \in Adapters /\ (kind \in Vectors => Whole(f, a))
  BY GoodFields
<1>2. ASSUME r.f = f, r.a = a
      PROVE  /\ Untouched(kind, r, f, a) /\ Kept(kind, r.f, r.a)
             /\ At(kind, r.f, r.a) = At(kind, f, a)
  BY <1>2 DEF Untouched
<1>3. CASE kind \in Stdios
  <2>1. r \in StdioLength(f, a)
    BY <1>3 DEF LengthOf, Stdios, Vectors
  <2>2. kind \notin Vectors /\ kind # "memory" /\ kind \notin Rams /\ kind \notin Proxied
    BY <1>3, KindsApart
  <2>3. r.f.data = f.data /\ (r.err = "ok" => r.f.pos = f.pos)
    BY <1>1, <2>1, StdioLengthStays
  <2>4. EndOf(kind, r.f, r.a) = EndOf(kind, f, a) /\ Kept(kind, r.f, r.a)
    BY <2>2, <2>3, EndFacts, KeptParts
  <2> QED
    BY <1>3, <2>3, <2>4 DEF Untouched, At
<1>4. CASE kind = "osd"
  <2>1. r = R(f, a, "unsupported", <<>>)
    BY <1>4 DEF LengthOf, Stdios, Vectors
  <2> QED
    BY <1>2, <2>1 DEF R
<1>5. CASE kind \in Vectors
  <2>1. r \in VecLength
    BY <1>5 DEF LengthOf, Stdios, Vectors
  <2>2. r.f = f /\ r.a = CheckResized(f, a)
    <3>1. r = Asked(CheckResized(f, a), CheckResized(f, a).size)
      BY <2>1 DEF VecLength
    <3> QED
      BY <3>1, Zenon DEF Asked, R
  <2>3. SpareZero(f, a) /\ kind \notin Stdios
    BY <1>5, KeptParts, KindsApart
  <2>4. EndOf(kind, f, r.a) = EndOf(kind, f, a) /\ Kept(kind, f, r.a) /\ r.a.ptr = a.ptr
    BY <1>1, <1>5, <2>2, <2>3, CheckedKept
  <2> QED
    BY <2>2, <2>3, <2>4 DEF Untouched, At
<1>6. CASE kind = "rust"
  <2>1. r \in RustLength
    BY <1>6 DEF LengthOf, Stdios, Vectors
  <2> QED
    BY <1>2, <2>1, RustLengthFacts
<1>7. CASE kind \notin Stdios /\ kind # "osd" /\ kind \notin Vectors /\ kind # "rust"
  <2>1. r = R(f, a, "ok", <<a.size>>)
    BY <1>7 DEF LengthOf, Asked
  <2> QED
    BY <1>2, <2>1 DEF R
<1> QED
  BY <1>3, <1>4, <1>5, <1>6, <1>7

\* flush.
LEMMA FlushStays ==
  ASSUME Good(kind, f, a), Kept(kind, f, a), NEW r \in FlushOf
  PROVE  /\ Untouched(kind, r, f, a) /\ Kept(kind, r.f, r.a)
         /\ At(kind, r.f, r.a) = At(kind, f, a)
<1>1. f \in Hosts /\ a \in Adapters
  BY GoodFields
<1>2. CASE kind \in Stdios
  <2>1. r \in StdioFlush(f, a)
    BY <1>2 DEF FlushOf, Stdios, Proxied
  <2>2. kind \notin Vectors /\ kind # "memory" /\ kind \notin Rams /\ kind \notin Proxied
    BY <1>2, KindsApart
  <2>3. r.f.data = f.data /\ r.f.pos = f.pos
    BY <1>1, <2>1, StdioFlushStays
  <2>4. EndOf(kind, r.f, r.a) = EndOf(kind, f, a) /\ Kept(kind, r.f, r.a)
    BY <2>2, <2>3, EndFacts, KeptParts
  <2> QED
    BY <1>2, <2>3, <2>4 DEF Untouched, At
<1>3. CASE kind = "osd"
  <2>0. r \in {R(g.f, a, g.err, <<>>) : g \in OsdFlush(f)}
    BY <1>3 DEF FlushOf, Stdios, Proxied
  <2>1. PICK g \in OsdFlush(f) : r = R(g.f, a, g.err, <<>>)
    BY <2>0
  <2>2. r.f = g.f /\ r.a = a
    BY <2>1 DEF R
  <2>3. PICK h \in Fflush(f) : g = Out(h.f, "ok", <<>>)
    BY <2>1 DEF OsdFlush
  <2>4. g.f = h.f /\ h.f.data = f.data
    BY <1>1, <2>3, FflushFacts DEF Out
  <2>5. kind \notin Vectors /\ kind # "memory" /\ kind \notin Rams /\ kind \notin Proxied /\ kind \notin Stdios
    BY <1>3, KindsApart DEF Proxied
  <2>6. EndOf(kind, r.f, r.a) = EndOf(kind, f, a) /\ Kept(kind, r.f, r.a)
    BY <2>2, <2>4, <2>5, EndFacts, KeptParts
  <2> QED
    BY <2>2, <2>4, <2>5, <2>6 DEF Untouched, At
<1>4. CASE kind \in Proxied
  <2>1. r \in CoreFlush(f, a)
    BY <1>4 DEF FlushOf, Stdios, Proxied
  <2>2. r.f.data = f.data /\ r.a.ptr = a.ptr /\ Inside(r.f, r.a)
    BY <1>1, <2>1, CoreFlushStays
  <2>3. kind \notin Vectors /\ kind # "memory" /\ kind \notin Stdios
    BY <1>4, KindsApart
  <2>4. EndOf(kind, r.f, r.a) = EndOf(kind, f, a) /\ Kept(kind, r.f, r.a)
    BY <1>4, <2>2, <2>3, EndFacts, KeptParts
  <2> QED
    BY <2>2, <2>3, <2>4 DEF Untouched, At
<1>5. CASE kind \notin Stdios /\ kind # "osd" /\ kind \notin Proxied
  <2>1. r = R(f, a, "ok", <<>>)
    BY <1>5 DEF FlushOf
  <2>2. r.f = f /\ r.a = a
    BY <2>1 DEF R
  <2> QED
    BY <2>2 DEF Untouched
<1> QED
  BY <1>2, <1>3, <1>4, <1>5

\* truncate.
LEMMA TruncateResizes ==
  ASSUME Good(kind, f, a), Kept(kind, f, a), kind \in Proxied \union {"memory"}, a.buffer = <<>>,
         NEW n \in Nat, kind = "memory" => a.ptr <= n, NEW r \in TruncateOf(n)
  PROVE  /\ Resized(f.data, EndOf(kind, f, a), r.f.data, EndOf(kind, r.f, r.a))
         /\ Kept(kind, r.f, r.a) /\ At(kind, r.f, r.a) = At(kind, f, a)
<1>1. /\ f \in Hosts /\ a \in Adapters /\ Len(f.data) \in Nat /\ a.size \in Nat /\ kind \notin Stdios
  BY GoodFields, KindsApart
<1>2. CASE kind \in Proxied
  <2>1. kind # "memory" /\ kind \notin Vectors
    BY <1>2, KindsApart
  <2>2. r \in CoreTruncate(f, a, n)
    BY <2>1 DEF TruncateOf
  <2>3. /\ Resized(f.data, Len(f.data), r.f.data, Len(r.f.data))
        /\ r.a.ptr = a.ptr /\ Inside(r.f, r.a)
    BY <1>1, <2>2, CoreTruncateResizes
  <2>4. EndOf(kind, f, a) = Len(f.data) /\ EndOf(kind, r.f, r.a) = Len(r.f.data)
    BY <2>1, EndFacts
  <2> QED
    BY <1>1, <1>2, <2>3, <2>4, KeptParts DEF At
<1>3. CASE kind = "memory"
  <2>1. r \in MemoryTruncate(f, a, n)
    BY <1>3 DEF TruncateOf
  <2>2. r.f = f /\ r.a.ptr = a.ptr /\ r.a.size <= a.size /\ r.a.ptr <= r.a.size
    <3>1. a.ptr <= a.size /\ a.ptr <= n
      BY <1>3, KeptParts
    <3>2. CASE a.size < n
      BY <1>1, <2>1, <3>1, <3>2 DEF MemoryTruncate, R
    <3>3. CASE ~(a.size < n)
      <4>1. r.f = f /\ r.a = [a EXCEPT !.size = n]
        BY <2>1, <3>3 DEF MemoryTruncate, R
      <4>2. r.a.ptr = a.ptr /\ r.a.size = n
        BY <1>1, <4>1 DEF Adapters
      <4> QED
        BY <1>1, <3>1, <3>3, <4>1, <4>2
    <3> QED
      BY <3>2, <3>3
  <2>3. r.a.size \in Nat
    BY <2>1, <1>1 DEF MemoryTruncate, R, Adapters
  <2>4. a.size <= Len(f.data)
    BY <1>3, KeptParts
  <2>5. Kept(kind, r.f, r.a)
    <3>1. r.a.size <= Len(r.f.data)
      BY <1>1, <2>2, <2>3, <2>4
    <3> QED
      BY <1>3, <2>2, <3>1, KeptParts
  <2> QED
    BY <1>1, <2>2, <2>5 DEF Resized, At
<1> QED
  BY <1>2, <1>3

\* The owner of a vector resizes it.
LEMMA VectorResizes ==
  ASSUME Good(kind, f, a), Kept(kind, f, a), kind \in Vectors, NEW m \in Nat,
         NEW g \in Hosts, g.data = [k \in 1..m |-> IF k <= Len(f.data) THEN f.data[k] ELSE 0]
  PROVE  /\ Resized(f.data, EndOf(kind, f, a), g.data, EndOf(kind, g, a))
         /\ Kept(kind, g, a)
<1>1. /\ f \in Hosts /\ a \in Adapters /\ Len(f.data) \in Nat /\ a.size \in Nat /\ Whole(f, a)
      /\ f.data \in Bytes
  BY GoodFields
<1>2. Len(g.data) = m
  BY <1>1, ResizedFacts
<1>3. \A j \in 1..m : g.data[j] = IF j <= Len(f.data) THEN f.data[j] ELSE 0
  OBVIOUS
<1>4. EndOf(kind, f, a) \in Nat /\ EndOf(kind, f, a) <= Len(f.data)
  <2> DEFINE c == CheckResized(f, a)
  <2>1. c \in Adapters /\ Whole(f, c) /\ Counted(f, c)
    BY <1>1, CheckedFacts
  <2>2. c.size <= Len(f.data) /\ c.size \in Nat
    BY <1>1, <2>1, CountedBytes, AdapterFields
  <2>3. EndOf(kind, f, a) = c.size
    BY EndFacts
  <2> QED
    BY <2>2, <2>3
<1>5. CASE EndOf(kind, g, a) <= m
  <2>1. \A j \in 1..EndOf(kind, f, a) : j <= EndOf(kind, g, a) => g.data[j] = f.data[j]
    <3> SUFFICES ASSUME NEW j \in 1..EndOf(kind, f, a), j <= EndOf(kind, g, a)
                 PROVE  g.data[j] = f.data[j]
      OBVIOUS
    <3>1. CheckResized(g, a).size \in Nat
      <4>1. CheckResized(g, a).size \in {Len(g.data), a.size}
        BY <1>1 DEF CheckResized, Adapters
      <4> QED
        BY <1>1, <1>2, <4>1
    <3>2. EndOf(kind, g, a) \in Nat
      BY <3>1, EndFacts
    <3>3. j \in 1..m /\ j <= Len(f.data)
      BY <1>1, <1>4, <1>5, <3>2
    <3> QED
      BY <1>3, <3>3
  <2>2. SpareZero(g, a)
    <3> SUFFICES ASSUME NEW j \in 1..Len(g.data), j > a.size, j <= a.elements * Width
                 PROVE  g.data[j] = 0
      BY DEF SpareZero
    <3>1. SpareZero(f, a)
      BY KeptParts
    <3>2. CASE j <= Len(f.data)
      <4>1. j \in 1..Len(f.data) /\ j \in 1..m
        BY <1>1, <1>2, <3>2
      <4> QED
        BY <1>3, <3>1, <3>2, <4>1 DEF SpareZero
    <3>3. CASE ~(j <= Len(f.data))
      BY <1>2, <1>3, <3>3
    <3> QED
      BY <3>2, <3>3
  <2> QED
    BY <2>1, <2>2, KeptParts DEF Resized
<1>6. EndOf(kind, g, a) <= m
  <2>1. EndOf(kind, g, a) = CheckResized(g, a).size
    BY EndFacts
  <2>2. CASE Len(g.data) \div Width # a.elements
    <3>1. CheckResized(g, a).size = Len(g.data)
      BY <1>1, <2>2 DEF CheckResized, Adapters
    <3> QED
      BY <1>2, <2>1, <3>1
  <2>3. CASE Len(g.data) \div Width = a.elements
    <3>1. CheckResized(g, a) = a
      BY <2>3 DEF CheckResized
    <3>2. a.size <= (m \div Width) * Width
      BY <1>2, <1>1, <2>3 DEF Whole
    <3>3. (m \div Width) * Width <= m
      BY WidthAssumption, SMT
    <3>4. m \div Width \in Nat
      BY WidthFacts
    <3> QED
      BY <1>1, <2>1, <3>1, <3>2, <3>3, <3>4, WidthAssumption
  <2> QED
    BY <2>2, <2>3
<1> QED
  BY <1>5, <1>6

-----------------------------------------------------------------------------
(* The array of bytes that a client sees *)

ContentsOf(k, g, b) == IF k \in Vectors \union {"memory"} THEN SubSeq(g.data, 1, EndOf(k, g, b)) ELSE g.data

\* Contents and Position of the refinement mapping, as the methods leave them.
LEMMA ContentsIs == Contents = ContentsOf(kind, f, a) /\ Position = At(kind, f, a)
<1>1. CASE kind \in Vectors
  <2>1. Contents = SubSeq(f.data, 1, CheckResized(f, a).size)
    BY <1>1 DEF Contents, Vectors
  <2>2. EndOf(kind, f, a) = CheckResized(f, a).size
    BY <1>1, EndFacts
  <2> QED
    BY <1>1, <2>1, <2>2 DEF ContentsOf, Position, At
<1>2. CASE kind = "memory"
  <2>1. Contents = SubSeq(f.data, 1, Least(a.size, Len(f.data)))
    BY <1>2 DEF Contents, Vectors
  <2>2. EndOf(kind, f, a) = Least(a.size, Len(f.data))
    BY <1>2, EndFacts
  <2> QED
    BY <1>2, <2>1, <2>2 DEF ContentsOf, Position, At
<1>3. CASE kind \notin Vectors /\ kind # "memory"
  BY <1>3 DEF Contents, ContentsOf, Position, At
<1> QED
  BY <1>1, <1>2, <1>3

\* The same after a step.
LEMMA ContentsNext == Contents' = ContentsOf(kind', f', a') /\ Position' = At(kind', f', a')
<1>1. (Contents = ContentsOf(kind, f, a) /\ Position = At(kind, f, a))'
  BY ContentsIs, PTL
<1> QED
  BY <1>1

\* Contents has the bytes of the file up to the end.
LEMMA ContentsBytes ==
  ASSUME NEW k, NEW g, NEW b, Good(k, g, b)
  PROVE  /\ ContentsOf(k, g, b) \in Bytes /\ EndOf(k, g, b) \in Nat
         /\ Len(ContentsOf(k, g, b)) = EndOf(k, g, b)
         /\ DOMAIN ContentsOf(k, g, b) = 1..EndOf(k, g, b)
         /\ \A j \in 1..EndOf(k, g, b) : ContentsOf(k, g, b)[j] = g.data[j]
<1> DEFINE e == EndOf(k, g, b)
<1>1. /\ g \in Hosts /\ b \in Adapters /\ g.data \in Bytes /\ Len(g.data) \in Nat /\ b.size \in Nat
      /\ (k \in Vectors => Whole(g, b))
  BY GoodFields
<1>2. CASE k \in Vectors \union {"memory"}
  <2>1. e \in Nat /\ e <= Len(g.data)
    <3>1. CASE k \in Vectors
      <4>1. e = CheckResized(g, b).size
        BY <3>1, EndFacts
      <4> QED
        BY <1>1, <3>1, <4>1, CheckResizedFacts, AdapterFields
    <3>2. CASE k = "memory"
      <4>1. e = Least(b.size, Len(g.data))
        BY <3>2, EndFacts
      <4> QED
        BY <1>1, <4>1, LeastMost
    <3> QED
      BY <1>2, <3>1, <3>2
  <2>2. ContentsOf(k, g, b) = SubSeq(g.data, 1, e)
    BY <1>2 DEF ContentsOf
  <2> HIDE DEF e
  <2>3. /\ SubSeq(g.data, 1, e) \in Bytes /\ Len(SubSeq(g.data, 1, e)) = e
        /\ \A j \in 1..e : SubSeq(g.data, 1, e)[j] = g.data[j]
    <3>1. SubSeq(g.data, 1, e) \in Bytes /\ Len(SubSeq(g.data, 1, e)) = e
      BY <1>1, <2>1, SubSeqFacts
    <3>2. \A j \in 1..e : SubSeq(g.data, 1, e)[j] = g.data[j]
      BY <1>1, <2>1 DEF Bytes
    <3> QED
      BY <3>1, <3>2
  <2>4. DOMAIN SubSeq(g.data, 1, e) = 1..e
    BY <2>3 DEF Bytes
  <2> QED
    BY <2>1, <2>2, <2>3, <2>4 DEF e
<1>3. CASE k \notin Vectors \union {"memory"}
  <2>1. e = Len(g.data) /\ ContentsOf(k, g, b) = g.data
    BY <1>3, EndFacts DEF ContentsOf
  <2>2. DOMAIN g.data = 1..Len(g.data)
    BY <1>1 DEF Bytes
  <2> QED
    BY <1>1, <2>1, <2>2
<1> QED
  BY <1>2, <1>3

\* A method that touches no byte leaves Contents alone.
LEMMA UntouchedContents ==
  ASSUME NEW k, NEW r, NEW g, NEW b, Untouched(k, r, g, b)
  PROVE  ContentsOf(k, r.f, r.a) = ContentsOf(k, g, b)
BY DEF Untouched, ContentsOf

\* A file being loaded is read whole by the first transfer that succeeds: while it is as
\* it was when it was opened nothing moved and the buffer is empty.
Loading(g, b, c) ==
  c.phase = "busy" /\ c.op = "load" /\ Len(g.data) > 1 =>
    c.n = Len(g.data) /\ c.moved = 0 /\ b.buffer = <<>> /\ b.ptr = 0
Bytewise(k, g, b, c) ==
  Kept(k, g, b) /\ Loading(g, b, c) /\ (c.phase = "busy" /\ c.op \in Writes => c.w # <<>>)
ByteInv == IoInv /\ Bytewise(kind, f, a, call)

\* A transfer begins.
LEMMA BeginRefines ==
  ASSUME call.phase # "busy", kind' = kind, Contents' = Contents, NEW op, NEW o, NEW n, NEW w,
         call' = Call(op, o, n, w), op = "load" => Position' = 0, op # "load" => Position' = Position
  PROVE  Abstract!Next
<1>1. call'.phase = "busy" /\ call'.moved = 0 /\ call'.got = <<>> /\ call'.op = op
  BY DEF Call, Idle
<1>2. Abstract!Begin
  BY <1>1 DEF Abstract!Begin, Abstract!Busy
<1> QED
  BY <1>2 DEF Abstract!Next

-----------------------------------------------------------------------------
(* The calls of the client, byte by byte *)

\* A transfer that begins has moved nothing.
LEMMA BeganBytewise ==
  ASSUME NEW k, NEW g, NEW b, Kept(k, g, b), NEW op, NEW o, NEW n, NEW w,
         op \in Writes => w # <<>>,
         op = "load" /\ Len(g.data) > 1 => n = Len(g.data) /\ b.buffer = <<>> /\ b.ptr = 0
  PROVE  Bytewise(k, g, b, Call(op, o, n, w))
<1>1. /\ Call(op, o, n, w).op = op /\ Call(op, o, n, w).w = w /\ Call(op, o, n, w).n = n
      /\ Call(op, o, n, w).moved = 0
  BY DEF Call, Idle
<1> QED
  BY <1>1 DEF Bytewise, Loading

\* A call that came back.
LEMMA BackBytewise ==
  ASSUME NEW k, NEW g, NEW b, Kept(k, g, b), NEW c, c.phase # "busy"
  PROVE  Bytewise(k, g, b, c)
BY DEF Bytewise, Loading

\* read begins.
LEMMA ReadRefines ==
  ASSUME ByteInv, NEW n \in Lengths, Read(n)
  PROVE  Abstract!Next /\ Bytewise(kind', f', a', call')
<1>1. /\ call.phase # "busy" /\ f' = f /\ a' = a /\ kind' = kind
      /\ call' = Call("read", Position, n, <<>>) /\ Kept(kind, f, a)
  BY DEF ByteInv, Bytewise, Read, NewCall
<1>2. Contents' = Contents /\ Position' = Position
  BY <1>1, ContentsIs, ContentsNext
<1>3. Bytewise(kind, f, a, Call("read", Position, n, <<>>))
  BY <1>1, BeganBytewise DEF Writes
<1> QED
  BY <1>1, <1>2, <1>3, BeginRefines

\* read_at begins.
LEMMA ReadAtRefines ==
  ASSUME ByteInv, NEW n \in Lengths, NEW o \in Offsets, ReadAt(o, n)
  PROVE  Abstract!Next /\ Bytewise(kind', f', a', call')
<1>1. /\ call.phase # "busy" /\ f' = f /\ a' = a /\ kind' = kind
      /\ call' = Call("read_at", o, n, <<>>) /\ Kept(kind, f, a)
  BY DEF ByteInv, Bytewise, ReadAt, NewCall
<1>2. Contents' = Contents /\ Position' = Position
  BY <1>1, ContentsIs, ContentsNext
<1>3. Bytewise(kind, f, a, Call("read_at", o, n, <<>>))
  BY <1>1, BeganBytewise DEF Writes
<1> QED
  BY <1>1, <1>2, <1>3, BeginRefines

\* write begins.
LEMMA WriteRefines ==
  ASSUME ByteInv, NEW w \in Payloads, w # <<>>, Write(w)
  PROVE  Abstract!Next /\ Bytewise(kind', f', a', call')
<1>1. /\ call.phase # "busy" /\ f' = f /\ a' = a /\ kind' = kind
      /\ call' = Call("write", Position, Len(w), w) /\ Kept(kind, f, a)
  BY DEF ByteInv, Bytewise, Write, NewCall
<1>2. Contents' = Contents /\ Position' = Position
  BY <1>1, ContentsIs, ContentsNext
<1>3. Bytewise(kind, f, a, Call("write", Position, Len(w), w))
  BY <1>1, BeganBytewise
<1> QED
  BY <1>1, <1>2, <1>3, BeginRefines

\* write_at begins.
LEMMA WriteAtRefines ==
  ASSUME ByteInv, NEW w \in Payloads, w # <<>>, NEW o \in Offsets, WriteAt(o, w)
  PROVE  Abstract!Next /\ Bytewise(kind', f', a', call')
<1>1. /\ call.phase # "busy" /\ f' = f /\ a' = a /\ kind' = kind
      /\ call' = Call("write_at", o, Len(w), w) /\ Kept(kind, f, a)
  BY DEF ByteInv, Bytewise, WriteAt, NewCall
<1>2. Contents' = Contents /\ Position' = Position
  BY <1>1, ContentsIs, ContentsNext
<1>3. Bytewise(kind, f, a, Call("write_at", o, Len(w), w))
  BY <1>1, BeganBytewise
<1> QED
  BY <1>1, <1>2, <1>3, BeginRefines

\* core_file::load opens the file again, at its start and with an empty buffer.
LEMMA LoadRefines ==
  ASSUME ByteInv, Load
  PROVE  Abstract!Next /\ Bytewise(kind', f', a', call')
<1> DEFINE g == Stream(f.data)
           b == Adapter(Len(f.data), 0)
<1>1. /\ call.phase # "busy" /\ kind = "core" /\ kind' = kind /\ f' = g /\ a' = b
      /\ call' = Call("load", 0, Len(f.data), <<>>) /\ Good(kind, f, a)
  BY DEF ByteInv, IoInv, Safe, Load, NewCall
<1>2. f.data \in Bytes /\ Len(f.data) \in Nat
  BY <1>1, GoodFields
<1>3. g.data = f.data /\ b.ptr = 0 /\ b.buffer = <<>>
  BY DEF Stream, Adapter
<1> HIDE DEF g, b
<1>4. /\ kind \notin Stdios /\ kind \notin Vectors /\ kind # "memory" /\ kind \in Proxied
      /\ "load" \notin Writes
  BY <1>1 DEF Stdios, Vectors, Proxied, Writes
<1>5. Inside(g, b)
  BY <1>3, EmptyGives DEF Inside
<1>6. Kept(kind, g, b)
  BY <1>4, <1>5, KeptParts
<1>7. Contents' = Contents /\ Position' = 0
  <2>1. ContentsOf(kind, g, b) = g.data /\ ContentsOf(kind, f, a) = f.data
    BY <1>4 DEF ContentsOf
  <2>2. At(kind, g, b) = 0
    BY <1>3, <1>4 DEF At
  <2> QED
    BY <1>1, <1>3, <2>1, <2>2, ContentsIs, ContentsNext
<1>8. Bytewise(kind, g, b, Call("load", 0, Len(f.data), <<>>))
  BY <1>3, <1>4, <1>6, BeganBytewise
<1> QED
  BY <1>1, <1>7, <1>8, BeginRefines

\* The calls that come back at once.
LEMMA AnswerParts ==
  ASSUME NEW op, NEW o, NEW r
  PROVE  /\ Answer(op, o, r).phase = "back" /\ Answer(op, o, r).op = op
         /\ Answer(op, o, r).o = o /\ Answer(op, o, r).err = r.err
BY DEF Answer, Idle

\* seek.
LEMMA SeekRefines ==
  ASSUME ByteInv, NEW t \in Targets, Seek(t[1], t[2]), "memory" \notin PastEnd, "rust" \notin OutOfRange
  PROVE  Abstract!Next /\ Bytewise(kind', f', a', call')
<1> DEFINE whence == t[1]
           offset == t[2]
           o == Base(whence) + offset
<1>1. whence \in {"set", "cur", "end"} /\ offset \in Int
  BY PlaceAssumption
<1>2. /\ Good(kind, f, a) /\ Kept(kind, f, a) /\ kind' = kind /\ call.phase # "busy"
      /\ kind = "memory" => o <= Len(Contents)
      /\ kind = "rust" => o \in 0..Top
  BY DEF ByteInv, Bytewise, IoInv, Safe, Seek, NewCall
<1>3. PICK r \in Seeks(whence, offset) : Effect(r) /\ call' = Answer("seek", o, r)
  BY DEF Seek
<1> HIDE DEF whence, offset
<1>4. /\ Untouched(kind, r, f, a) /\ Kept(kind, r.f, r.a)
      /\ r.err = "ok" => At(kind, r.f, r.a) = o /\ o \in 0..Top
      /\ r.err # "ok" => At(kind, r.f, r.a) = At(kind, f, a)
  BY <1>1, <1>2, <1>3, SeekGoes
<1> HIDE DEF o
<1>5. f' = r.f /\ a' = r.a
  BY <1>3 DEF Effect
<1>6. Contents' = Contents /\ Position' = At(kind, r.f, r.a) /\ Position = At(kind, f, a)
  BY <1>2, <1>4, <1>5, UntouchedContents, ContentsIs, ContentsNext
<1>7. call'.phase = "back" /\ call'.op = "seek" /\ call'.o = o /\ call'.err = r.err
  BY <1>3, AnswerParts
<1>8. Abstract!Seek
  BY <1>2, <1>4, <1>6, <1>7 DEF Abstract!Seek, Abstract!Busy
<1>9. Bytewise(kind, r.f, r.a, call')
  BY <1>4, <1>7, BackBytewise
<1> QED
  BY <1>2, <1>5, <1>8, <1>9 DEF Abstract!Next

\* A call that answers and touches nothing.
LEMMA AskRefines ==
  ASSUME NEW op \in {"length", "flush"}, kind' = kind, call.phase # "busy", NEW r, Effect(r),
         call' = Answer(op, 0, r), Untouched(kind, r, f, a), Kept(kind, r.f, r.a),
         r.err = "ok" => At(kind, r.f, r.a) = At(kind, f, a)
  PROVE  Abstract!Next /\ Bytewise(kind', f', a', call')
<1>1. f' = r.f /\ a' = r.a
  BY DEF Effect
<1>2. Contents' = Contents /\ Position' = At(kind, r.f, r.a) /\ Position = At(kind, f, a)
  BY <1>1, UntouchedContents, ContentsIs, ContentsNext
<1>3. call'.phase = "back" /\ call'.op = op /\ call'.err = r.err
  BY AnswerParts
<1>4. Abstract!Ask
  BY <1>2, <1>3 DEF Abstract!Ask, Abstract!Busy
<1>5. Bytewise(kind, r.f, r.a, call')
  BY <1>3, BackBytewise
<1> QED
  BY <1>1, <1>4, <1>5 DEF Abstract!Next

\* length.
LEMMA LengthRefines ==
  ASSUME ByteInv, Length
  PROVE  Abstract!Next /\ Bytewise(kind', f', a', call')
<1>1. Good(kind, f, a) /\ Kept(kind, f, a) /\ kind' = kind /\ call.phase # "busy"
  BY DEF ByteInv, Bytewise, IoInv, Safe, Length, NewCall
<1>2. PICK r \in LengthOf : Effect(r) /\ call' = Answer("length", 0, r)
  BY DEF Length
<1>3. /\ Untouched(kind, r, f, a) /\ Kept(kind, r.f, r.a)
      /\ r.err = "ok" => At(kind, r.f, r.a) = At(kind, f, a)
  BY <1>1, LengthStays
<1> QED
  BY <1>1, <1>2, <1>3, AskRefines

\* flush.
LEMMA FlushRefines ==
  ASSUME ByteInv, Flush
  PROVE  Abstract!Next /\ Bytewise(kind', f', a', call')
<1>1. Good(kind, f, a) /\ Kept(kind, f, a) /\ kind' = kind /\ call.phase # "busy"
  BY DEF ByteInv, Bytewise, IoInv, Safe, Flush, NewCall
<1>2. PICK r \in FlushOf : Effect(r) /\ call' = Answer("flush", 0, r)
  BY DEF Flush
<1>3. /\ Untouched(kind, r, f, a) /\ Kept(kind, r.f, r.a)
      /\ At(kind, r.f, r.a) = At(kind, f, a)
  BY <1>1, FlushStays
<1> QED
  BY <1>1, <1>2, <1>3, AskRefines

\* Bytes that were cut off, or appended.
LEMMA ResizedContents ==
  ASSUME NEW g, NEW b, NEW h, NEW c, Good(kind, g, b), Good(kind, h, c),
         Resized(g.data, EndOf(kind, g, b), h.data, EndOf(kind, h, c))
  PROVE  \A j \in DOMAIN ContentsOf(kind, g, b) \intersect DOMAIN ContentsOf(kind, h, c) :
           ContentsOf(kind, h, c)[j] = ContentsOf(kind, g, b)[j]
<1> DEFINE s == ContentsOf(kind, g, b)
           t == ContentsOf(kind, h, c)
           e == EndOf(kind, g, b)
           d == EndOf(kind, h, c)
<1>1. e \in Nat /\ DOMAIN s = 1..e /\ \A j \in 1..e : s[j] = g.data[j]
  BY ContentsBytes
<1>2. d \in Nat /\ DOMAIN t = 1..d /\ \A j \in 1..d : t[j] = h.data[j]
  BY ContentsBytes
<1>3. \A j \in 1..e : j <= d => h.data[j] = g.data[j]
  BY DEF Resized
<1> HIDE DEF s, t, e, d
<1>4. \A j \in DOMAIN s \intersect DOMAIN t : t[j] = s[j]
  BY <1>1, <1>2, <1>3
<1> QED
  BY <1>4 DEF s, t

\* truncate.
LEMMA TruncateRefines ==
  ASSUME ByteInv, NEW n \in Offsets, Truncate(n), ~CutBuffered, "memory" \notin PastEnd
  PROVE  Abstract!Next /\ Bytewise(kind', f', a', call')
<1>1. /\ Good(kind, f, a) /\ Kept(kind, f, a) /\ kind' = kind /\ call.phase # "busy"
      /\ kind \in Proxied \union {"memory"} /\ a.buffer = <<>> /\ n \in Nat
      /\ kind = "memory" => Position <= n
  BY PlaceAssumption DEF ByteInv, Bytewise, IoInv, Safe, Truncate, NewCall
<1>2. PICK r \in TruncateOf(n) : Effect(r) /\ call' = Answer("truncate", n, r)
  BY DEF Truncate
<1>3. kind = "memory" => a.ptr <= n
  BY <1>1, KindsApart DEF Position
<1>4. /\ Resized(f.data, EndOf(kind, f, a), r.f.data, EndOf(kind, r.f, r.a))
      /\ Kept(kind, r.f, r.a) /\ At(kind, r.f, r.a) = At(kind, f, a)
  BY <1>1, <1>3, TruncateResizes
<1>5. f' = r.f /\ a' = r.a
  BY <1>2 DEF Effect
<1>6. Good(kind, r.f, r.a)
  BY <1>1, TruncateFacts DEF Sound
<1>7. \A j \in DOMAIN Contents \intersect DOMAIN Contents' : Contents'[j] = Contents[j]
  BY <1>1, <1>4, <1>5, <1>6, ResizedContents, ContentsIs, ContentsNext
<1>8. Position' = Position
  BY <1>1, <1>4, <1>5, ContentsIs, ContentsNext
<1>9. call'.phase = "back" /\ call'.op = "truncate"
  BY <1>2, AnswerParts
<1>10. Abstract!Resize
  BY <1>1, <1>7, <1>8, <1>9 DEF Abstract!Resize, Abstract!Busy
<1>11. Bytewise(kind, r.f, r.a, call')
  BY <1>4, <1>9, BackBytewise
<1> QED
  BY <1>1, <1>5, <1>10, <1>11 DEF Abstract!Next

\* The owner of a vector resizes it.
LEMMA ResizeRefines ==
  ASSUME ByteInv, IoInv', NEW n \in Offsets, ResizeVector(n)
  PROVE  Abstract!Next /\ Bytewise(kind', f', a', call')
<1> DEFINE s == [k \in 1..(n * Width) |-> IF k <= Len(f.data) THEN f.data[k] ELSE 0]
<1>1. /\ Good(kind, f, a) /\ Kept(kind, f, a) /\ kind' = kind /\ call.phase # "busy"
      /\ kind \in Vectors /\ a' = a /\ f' = [f EXCEPT !.data = s]
      /\ call' = [Idle EXCEPT !.op = "truncate"]
  BY DEF ByteInv, Bytewise, IoInv, Safe, ResizeVector, NewCall
<1>2. Good(kind, f', a)
  <2>1. Good(kind', f', a')
    BY DEF IoInv, Safe
  <2> QED
    BY <1>1, <2>1
<1>3. n * Width \in Nat /\ f \in Hosts /\ f' \in Hosts
  BY <1>1, <1>2, PlaceAssumption, WidthAssumption, GoodFields
<1>4. f'.data = s
  BY <1>1, <1>3 DEF Hosts
<1>5. /\ Resized(f.data, EndOf(kind, f, a), f'.data, EndOf(kind, f', a))
      /\ Kept(kind, f', a)
  BY <1>1, <1>3, <1>4, VectorResizes
<1> HIDE DEF s
<1>6. \A j \in DOMAIN Contents \intersect DOMAIN Contents' : Contents'[j] = Contents[j]
  <2>1. Contents = ContentsOf(kind, f, a) /\ Contents' = ContentsOf(kind, f', a)
    BY <1>1, ContentsIs, ContentsNext
  <2> DEFINE g == f'
  <2>2. /\ Good(kind, f, a) /\ Good(kind, g, a)
        /\ Resized(f.data, EndOf(kind, f, a), g.data, EndOf(kind, g, a))
    BY <1>1, <1>2, <1>5
  <2> HIDE DEF g
  <2>3. \A j \in DOMAIN ContentsOf(kind, f, a) \intersect DOMAIN ContentsOf(kind, g, a) :
          ContentsOf(kind, g, a)[j] = ContentsOf(kind, f, a)[j]
    BY <2>2, ResizedContents
  <2> QED
    BY <2>1, <2>3 DEF g
<1>7. Position' = Position
  <2>1. kind \notin Stdios
    BY <1>1, KindsApart
  <2> QED
    BY <1>1, <2>1, ContentsIs, ContentsNext DEF At
<1>8. call'.phase = "idle" /\ call'.op = "truncate"
  BY <1>1 DEF Idle
<1>9. Abstract!Resize
  BY <1>1, <1>6, <1>7, <1>8 DEF Abstract!Resize, Abstract!Busy
<1>10. Bytewise(kind, f', a, call')
  BY <1>5, <1>8, BackBytewise
<1> QED
  BY <1>1, <1>9, <1>10 DEF Abstract!Next

\* Another process cuts a file that is being loaded.
LEMMA CutRefines ==
  ASSUME ByteInv, IoInv', CutWhileLoading
  PROVE  Abstract!Next /\ Bytewise(kind', f', a', call')
<1> DEFINE s == SubSeq(f.data, 1, 1)
<1>1. /\ Good(kind, f, a) /\ Loading(f, a, call) /\ kind = "core" /\ call.phase = "busy"
      /\ call.op = "load" /\ Len(f.data) > 1 /\ kind' = kind /\ a' = a /\ call' = call
      /\ f' = [f EXCEPT !.data = s]
  BY DEF ByteInv, Bytewise, IoInv, Safe, CutWhileLoading
<1>2. /\ f \in Hosts /\ f.data \in Bytes /\ Len(f.data) \in Nat /\ kind \notin Stdios /\ kind \notin Vectors
      /\ kind \in Proxied /\ kind # "memory" /\ call.op \notin Writes
  BY <1>1, GoodFields DEF Stdios, Vectors, Proxied, Writes
<1>3. s \in Bytes /\ Len(s) = 1 /\ s[1] = f.data[1]
  BY <1>1, <1>2 DEF Bytes
<1>4. f'.data = s
  BY <1>1, <1>2 DEF Hosts
<1> HIDE DEF s
<1>5. a.buffer = <<>>
  BY <1>1 DEF Loading
<1>6. Kept(kind, f', a)
  BY <1>2, <1>5, EmptyGives, KeptParts DEF Inside
<1>7. Bytewise(kind, f', a, call)
  <2> DEFINE g == f'
  <2>1. g.data = s /\ Kept(kind, g, a)
    BY <1>4, <1>6
  <2> HIDE DEF g
  <2>2. Len(g.data) = 1
    BY <1>3, <2>1
  <2>3. Loading(g, a, call)
    BY <2>2 DEF Loading
  <2>4. Bytewise(kind, g, a, call)
    BY <1>2, <2>1, <2>3 DEF Bytewise
  <2> QED
    BY <2>4 DEF g
<1>8. Good(kind, f', a)
  <2>1. Good(kind', f', a')
    BY DEF IoInv, Safe
  <2> QED
    BY <1>1, <2>1
<1>9. Resized(f.data, EndOf(kind, f, a), f'.data, EndOf(kind, f', a))
  <2>1. EndOf(kind, f, a) = Len(f.data) /\ EndOf(kind, f', a) = 1
    BY <1>2, <1>3, <1>4, EndFacts
  <2>2. \A j \in 1..Len(f.data) : j <= 1 => s[j] = f.data[j]
    BY <1>3
  <2> QED
    BY <1>4, <2>1, <2>2 DEF Resized
<1>10. \A j \in DOMAIN Contents \intersect DOMAIN Contents' : Contents'[j] = Contents[j]
  <2>1. Contents = ContentsOf(kind, f, a) /\ Contents' = ContentsOf(kind, f', a)
    BY <1>1, ContentsIs, ContentsNext
  <2> DEFINE g == f'
  <2>2. /\ Good(kind, f, a) /\ Good(kind, g, a)
        /\ Resized(f.data, EndOf(kind, f, a), g.data, EndOf(kind, g, a))
    BY <1>1, <1>8, <1>9
  <2> HIDE DEF g
  <2>3. \A j \in DOMAIN ContentsOf(kind, f, a) \intersect DOMAIN ContentsOf(kind, g, a) :
          ContentsOf(kind, g, a)[j] = ContentsOf(kind, f, a)[j]
    BY <2>2, ResizedContents
  <2> QED
    BY <2>1, <2>3 DEF g
<1>11. Position' = Position
  BY <1>1, <1>2, ContentsIs, ContentsNext DEF At
<1>12. Abstract!Resize
  BY <1>1, <1>10, <1>11 DEF Abstract!Resize
<1> QED
  BY <1>1, <1>7, <1>12 DEF Abstract!Next

\* What a method's answer makes of the call.
LEMMA ContinuedLast ==
  ASSUME NEW c \in Calls, NEW r, NEW m \in Nat
  PROVE  Continued(c, r, m).last = r.err
<1> DEFINE p == IF GoesOn(r, m) THEN "busy" ELSE "back"
           v == IF GoesOn(r, m) THEN "ok" ELSE Verdict(r, m)
<1>1. Continued(c, r, m) = [c EXCEPT !.moved = m, !.last = r.err, !.phase = p, !.err = v]
  BY Zenon DEF Continued
<1> HIDE DEF p, v
<1> QED
  BY <1>1 DEF Calls

Carried(d, r) ==
  /\ d.op = call.op /\ d.o = call.o /\ d.n = call.n /\ d.w = call.w /\ d.last = r.err
  /\ d.moved = call.moved + Len(r.out)
  /\ d.phase = "busy" => GoesOn(r, d.moved)

\* The call after a step of a write.
LEMMA AfterWriteParts ==
  ASSUME call \in Calls, NEW r, r.err \in Errors, Len(r.out) \in Nat
  PROVE  Carried(AfterWrite(call, r), r)
<1> DEFINE m == call.moved + Len(r.out)
           c == Continued(call, r, m)
<1>1. m \in Nat
  BY CallFields
<1>2. AfterWrite(call, r) = c
  BY DEF AfterWrite
<1>3. /\ c.op = call.op /\ c.o = call.o /\ c.n = call.n /\ c.w = call.w /\ c.moved = m
      /\ c.last = r.err /\ (~GoesOn(r, m) => c.phase = "back")
  <2> HIDE DEF m
  <2> QED
    BY <1>1, ContinuedFacts, ContinuedLast
<1> HIDE DEF c
<1>4. c.phase = "busy" => GoesOn(r, c.moved)
  BY <1>3
<1> QED
  BY <1>2, <1>3, <1>4 DEF Carried

\* What was joined behind m bytes.
LEMMA JoinBehind ==
  ASSUME NEW s \in Bytes, NEW u \in Bytes, NEW m \in Nat, Len(s) = m
  PROVE  /\ s \o u \in Bytes /\ Len(s \o u) = m + Len(u)
         /\ \A k \in 1..Len(u) : (s \o u)[m + k] = u[k]
<1>1. s \o u \in Bytes /\ Len(s \o u) = Len(s) + Len(u) /\ Len(s) \in Nat /\ Len(u) \in Nat
  BY SMTT(30) DEF Bytes
<1>2. \A k \in 1..Len(u) : (s \o u)[Len(s) + k] = u[k]
  BY <1>1 DEF Bytes
<1> QED
  BY <1>1, <1>2

\* The call after a step of a read, and what it got.
LEMMA AfterReadParts ==
  ASSUME call \in Calls, NEW r, r.err \in Errors, r.out \in Bytes, Len(call.got) = call.moved,
         a.filler \in Nat
  PROVE  /\ Carried(AfterRead(call, r), r)
         /\ \A k \in 1..Len(r.out) : AfterRead(call, r).got[call.moved + k] = r.out[k]
<1> DEFINE m == call.moved + Len(r.out)
           v == SubSeq(call.got, 1, call.moved)
           s == v \o r.out
           c0 == [call EXCEPT !.got = s]
           d == Continued(c0, r, m)
           u == Repeat(a.filler, d.n - d.moved)
           t == s \o u
           e == [d EXCEPT !.got = t]
<1>1. /\ call.moved \in Nat /\ call.got \in Bytes /\ call.n \in Nat /\ Len(r.out) \in Nat
      /\ m \in Nat
  BY CallFields DEF Bytes
<1>2. v \in Bytes /\ Len(v) = call.moved
  BY <1>1, SubSeqFacts
<1>3. \/ AfterRead(call, r) = d
      \/ d.phase = "back" /\ AfterRead(call, r) = [d EXCEPT !.got = @ \o u]
  BY DEF AfterRead
<1> HIDE DEF m, v
<1>4. /\ s \in Bytes /\ Len(s) = call.moved + Len(r.out)
      /\ \A k \in 1..Len(r.out) : s[call.moved + k] = r.out[k]
  BY <1>1, <1>2, JoinBehind, ZenonT(60)
<1> HIDE DEF s
<1>5. /\ c0 \in Calls /\ c0.op = call.op /\ c0.o = call.o /\ c0.n = call.n /\ c0.w = call.w
      /\ c0.got = s
  BY <1>4 DEF Calls
<1> HIDE DEF c0
<1>6. /\ d \in Calls /\ d.op = call.op /\ d.o = call.o /\ d.n = call.n /\ d.w = call.w
      /\ d.got = s /\ d.moved = m /\ d.last = r.err
      /\ ~GoesOn(r, m) => d.phase = "back"
  <2>1. c0 \in Calls /\ r.err \in Errors /\ m \in Nat
    BY <1>1, <1>5
  <2>2. Continued(c0, r, m).last = r.err
    BY <2>1, ContinuedLast, Zenon
  <2>3. /\ Continued(c0, r, m) \in Calls /\ Continued(c0, r, m).op = c0.op
        /\ Continued(c0, r, m).o = c0.o /\ Continued(c0, r, m).n = c0.n
        /\ Continued(c0, r, m).w = c0.w /\ Continued(c0, r, m).got = c0.got
        /\ Continued(c0, r, m).moved = m
        /\ GoesOn(r, m) => Continued(c0, r, m).phase = "busy"
        /\ ~GoesOn(r, m) => /\ Continued(c0, r, m).phase = "back"
                            /\ Continued(c0, r, m).err = Verdict(r, m)
    BY <2>1, ContinuedFacts, Zenon
  <2> QED
    BY <1>5, <2>2, <2>3
<1> HIDE DEF d
<1>7. d.phase = "busy" => GoesOn(r, d.moved)
  BY <1>6
<1>8. CASE AfterRead(call, r) = d
  <2>1. \A k \in 1..Len(r.out) : d.got[call.moved + k] = r.out[k]
    BY <1>4, <1>6
  <2>2. Carried(d, r)
    BY <1>6, <1>7 DEF Carried, m
  <2> QED
    BY <1>8, <2>1, <2>2
<1>9. CASE d.phase = "back" /\ AfterRead(call, r) = [d EXCEPT !.got = @ \o u]
  <2>1. d.n - d.moved \in Int
    BY <1>1, <1>6
  <2>2. u \in Bytes
    BY <2>1, RepeatFacts
  <2> HIDE DEF u
  <2>3. t \in Bytes /\ \A k \in 1..Len(s) : t[k] = s[k]
    <3>1. \A k \in 1..Len(s) : (s \o u)[k] = s[k]
      BY <1>4, <2>2 DEF Bytes
    <3> QED
      BY <1>4, <2>2, <3>1, JoinFacts
  <2>4. AfterRead(call, r) = e
    BY <1>6, <1>9
  <2> HIDE DEF t
  <2>5. /\ e.op = d.op /\ e.o = d.o /\ e.n = d.n /\ e.w = d.w /\ e.moved = d.moved
        /\ e.last = d.last /\ e.phase = d.phase /\ e.got = t
    BY <1>6 DEF Calls
  <2> HIDE DEF e
  <2>6. Carried(e, r)
    BY <1>6, <1>9, <2>5 DEF Carried, m
  <2>7. ASSUME NEW k \in 1..Len(r.out) PROVE e.got[call.moved + k] = r.out[k]
    <3>1. call.moved + k \in 1..Len(s)
      BY <1>1, <1>4
    <3> QED
      BY <1>4, <2>3, <2>5, <3>1
  <2> QED
    BY <2>4, <2>6, <2>7
<1> QED
  BY <1>3, <1>8, <1>9

\* What is left of a write.
LEMMA LeftFacts ==
  ASSUME NEW w \in Bytes, NEW m \in Nat, m <= Len(w)
  PROVE  /\ SubSeq(w, m + 1, Len(w)) \in Bytes /\ Len(SubSeq(w, m + 1, Len(w))) = Len(w) - m
         /\ \A j \in 1..(Len(w) - m) : SubSeq(w, m + 1, Len(w))[j] = w[m + j]
<1>1. Len(w) \in Nat
  BY DEF Bytes
<1>2. /\ SubSeq(w, m + 1, Len(w)) \in Bytes /\ Len(SubSeq(w, m + 1, Len(w))) = Len(w) - m
  BY <1>1, SubSeqFacts, SMTT(40)
<1>3. \A j \in 1..(Len(w) - m) : SubSeq(w, m + 1, Len(w))[j] = w[m + j]
  BY <1>1 DEF Bytes
<1> QED
  BY <1>2, <1>3

\* A step of a write.
LEMMA WriteStepRefines ==
  ASSUME ~OsdSeekFails, ByteInv, call.phase = "busy", call.w # <<>>, NEW r \in Transfers, Step(r)
  PROVE  Abstract!Next /\ Bytewise(kind', f', a', call')
<1> DEFINE d == AfterWrite(call, r)
           u == SubSeq(call.w, call.moved + 1, call.n)
           p == IF call.op = "write_at" THEN call.o + call.moved ELSE At(kind, f, a)
<1>1. /\ Good(kind, f, a) /\ Kept(kind, f, a) /\ call \in Calls /\ Underway(kind, f, a, call)
      /\ f' = r.f /\ a' = r.a /\ kind' = kind /\ call' = d
  BY DEF ByteInv, Bytewise, IoInv, Safe, Step, Effect
<1>2. /\ call.op \in Writes /\ call.o \in Nat /\ call.moved \in Nat /\ call.moved <= call.n
      /\ call.n = Len(call.w) /\ call.w \in Bytes /\ call.n \in Nat
  BY <1>1, CallFields DEF Underway
<1>3. u \in Bytes /\ Len(u) = Len(call.w) - call.moved /\ \A j \in 1..Len(u) : u[j] = call.w[call.moved + j]
  <2> DEFINE w == call.w
             m == call.moved
  <2>1. w \in Bytes /\ m \in Nat /\ m <= Len(w)
    BY <1>2
  <2>2. u = SubSeq(w, m + 1, Len(w))
    BY <1>2
  <2> HIDE DEF w, m, u
  <2>3. /\ SubSeq(w, m + 1, Len(w)) \in Bytes /\ Len(SubSeq(w, m + 1, Len(w))) = Len(w) - m
        /\ \A j \in 1..(Len(w) - m) : SubSeq(w, m + 1, Len(w))[j] = w[m + j]
    BY <2>1, LeftFacts, Zenon
  <2>4. u \in Bytes /\ Len(u) = Len(w) - m /\ \A j \in 1..Len(u) : u[j] = w[m + j]
    BY <2>2, <2>3, Zenon
  <2> QED
    BY <2>4 DEF w, m
<1>4. r \in IF call.op = "write_at" THEN WriteSomeAt(call.o + call.moved, u) ELSE WriteSome(u)
  BY <1>2 DEF Transfers, Writes
<1> HIDE DEF u
<1>5. /\ PutsAt(kind, r, f, a, p, u) /\ Kept(kind, r.f, r.a) /\ Sound(kind, r)
      /\ r.err = "ok" => At(kind, r.f, r.a) = IF call.op = "write_at" THEN At(kind, f, a)
                                              ELSE At(kind, f, a) + Len(r.out)
      /\ Len(r.out) <= Len(u)
  <2>1. CASE call.op = "write_at"
    <3>1. r \in WriteSomeAt(call.o + call.moved, u) /\ call.o + call.moved \in Nat
      BY <1>2, <1>4, <2>1
    <3>2. /\ PutsAt(kind, r, f, a, call.o + call.moved, u) /\ Kept(kind, r.f, r.a)
          /\ kind \notin Stdios => r.a.ptr = a.ptr
          /\ r.err = "ok" /\ kind \in Stdios => r.f.pos = f.pos
      BY <1>1, <1>3, <3>1, WriteSomeAtPuts
    <3>3. Sound(kind, r) /\ Len(r.out) <= Len(u)
      BY <1>1, <1>3, <3>1, WriteSomeAtFacts
    <3> QED
      BY <2>1, <3>2, <3>3 DEF At
  <2>2. CASE call.op # "write_at"
    <3>1. r \in WriteSome(u)
      BY <1>4, <2>2
    <3>2. /\ PutsAt(kind, r, f, a, At(kind, f, a), u) /\ Kept(kind, r.f, r.a)
          /\ r.err = "ok" => At(kind, r.f, r.a) = At(kind, f, a) + Len(r.out)
      BY <1>1, <1>3, <3>1, WriteSomePuts
    <3>3. Sound(kind, r) /\ Len(r.out) <= Len(u)
      BY <1>1, <1>3, <3>1, WriteSomeFacts
    <3> QED
      BY <2>2, <3>2, <3>3
  <2> QED
    BY <2>1, <2>2
<1>6. Good(kind, r.f, r.a) /\ r.err \in Errors /\ Len(r.out) \in Nat
  BY <1>5 DEF Sound, Bytes
<1>7. Carried(d, r)
  BY <1>1, <1>6, AfterWriteParts
<1>8. /\ d.op = call.op /\ d.o = call.o /\ d.n = call.n /\ d.w = call.w /\ d.last = r.err
      /\ d.moved = call.moved + Len(r.out)
  BY <1>7 DEF Carried
<1>9. p \in Nat
  BY <1>1, <1>2, GoodFields DEF At
<1> HIDE DEF d
<1>10. p = Abstract!At(call, Position)
  BY <1>2, ContentsIs DEF Abstract!At, Abstract!Positional, Writes
<1>11. r.err = "ok" => Position' = IF call.op \in {"read_at", "write_at"} THEN Position ELSE Position + Len(r.out)
  BY <1>1, <1>2, <1>5, ContentsIs, ContentsNext DEF Writes
<1> HIDE DEF p
<1> DEFINE x == EndOf(kind, f, a)
           y == EndOf(kind, r.f, r.a)
           fill == FillerOf(kind)
<1>12. /\ x \in Nat /\ Len(Contents) = x /\ DOMAIN Contents = 1..x
       /\ \A j \in 1..x : Contents[j] = f.data[j]
  BY <1>1, ContentsBytes, ContentsIs
<1>13. /\ y \in Nat /\ Len(Contents') = y /\ DOMAIN Contents' = 1..y
       /\ \A j \in 1..y : Contents'[j] = r.f.data[j]
  BY <1>1, <1>6, ContentsBytes, ContentsNext
<1>14. /\ Within(f.data, x, r.f.data, y, p, u, fill)
       /\ r.err = "ok" => Took(f.data, x, r.f.data, y, p, u, r.out)
  BY <1>5 DEF PutsAt
<1> HIDE DEF x, y, fill
<1> DEFINE last == p + Len(call.w) - call.moved
<1>15. last = p + Len(u) /\ last \in Int
  BY <1>2, <1>3, <1>9
<1>16. /\ \A k \in 1..Len(Contents) : k <= p \/ k > last => Contents'[k] = Contents[k]
       /\ \A k \in 1..Len(Contents') : k > Len(Contents) /\ k <= p => Contents'[k] = fill
       /\ Len(Contents') >= Len(Contents) /\ (Len(Contents') <= last \/ Len(Contents') = Len(Contents))
  <2>1. /\ y >= x /\ (y <= p + Len(u) \/ y = x)
        /\ \A j \in 1..x : j <= p \/ j > p + Len(u) => r.f.data[j] = f.data[j]
        /\ \A j \in 1..y : j > x /\ j <= p => r.f.data[j] = fill
    BY <1>14, Zenon DEF Within
  <2>2. \A k \in 1..x : k \in 1..y
    BY <1>12, <1>13, <2>1
  <2> HIDE DEF last
  <2>3. \A k \in 1..x : k <= p \/ k > last => Contents'[k] = Contents[k]
    BY <1>12, <1>13, <1>15, <2>1, <2>2
  <2>4. \A k \in 1..y : k > x /\ k <= p => Contents'[k] = fill
    BY <1>13, <2>1
  <2> QED
    BY <1>12, <1>13, <1>15, <2>1, <2>3, <2>4
<1>17. ASSUME r.err = "ok"
       PROVE  /\ \A k \in 1..Len(r.out) : Contents'[p + k] = call.w[call.moved + k]
              /\ \A k \in DOMAIN Contents' : k > p + Len(r.out) => k \in DOMAIN Contents /\ Contents'[k] = Contents[k]
  <2>1. /\ \A j \in 1..Len(r.out) : p + j <= y /\ r.f.data[p + j] = u[j]
        /\ \A j \in 1..y : j > p + Len(r.out) => j <= x /\ r.f.data[j] = f.data[j]
    BY <1>14, <1>17 DEF Took
  <2>2. ASSUME NEW k \in 1..Len(r.out) PROVE Contents'[p + k] = call.w[call.moved + k]
    <3>1. p + k <= y /\ r.f.data[p + k] = u[k]
      BY <2>1
    <3>2. p + k \in 1..y /\ k \in 1..Len(u)
      BY <1>2, <1>3, <1>5, <1>6, <1>9, <1>13, <3>1
    <3> QED
      BY <1>3, <1>13, <3>1, <3>2
  <2>3. ASSUME NEW k \in 1..y, k > p + Len(r.out) PROVE k \in 1..x /\ Contents'[k] = Contents[k]
    <3>1. k <= x /\ r.f.data[k] = f.data[k]
      BY <2>1, <2>3
    <3>2. k \in 1..x
      BY <1>12, <1>13, <3>1
    <3> QED
      BY <1>12, <1>13, <3>1, <3>2
  <2> QED
    BY <1>12, <1>13, <2>2, <2>3
<1>18. Abstract!Write
  <2>1. call'.moved - call.moved = Len(r.out)
    BY <1>1, <1>2, <1>6, <1>8
  <2>2. Abstract!Busy /\ Abstract!Same(call, call')
    BY <1>1, <1>8 DEF Abstract!Busy, Abstract!Same
  <2>3. call'.last = r.err
    BY <1>1, <1>8
  <2> QED
    BY <1>10, <1>11, <1>16, <1>17, <2>1, <2>2, <2>3 DEF Abstract!Write, Abstract!Positional, fill
<1>19. Bytewise(kind, r.f, r.a, d)
  <2>1. call.op # "load"
    BY <1>2 DEF Writes
  <2> QED
    BY <1>5, <1>8, <2>1 DEF Bytewise, Loading
<1> QED
  BY <1>1, <1>18, <1>19 DEF Abstract!Next

\* A file being loaded gives all its bytes in the first transfer that succeeds.
LEMMA LoadStepLoading ==
  ASSUME ~OsdSeekFails, ByteInv, call.phase = "busy", call.op = "load",
         NEW r \in ReadSome(Left(call)), Untouched(kind, r, f, a),
         r.err \in Errors, r.out \in Bytes, NEW d, Carried(d, r)
  PROVE  Loading(r.f, r.a, d)
<1> SUFFICES ASSUME d.phase = "busy", Len(r.f.data) > 1
             PROVE  d.n = Len(r.f.data) /\ d.moved = 0 /\ r.a.buffer = <<>> /\ r.a.ptr = 0
  BY DEF Loading
<1> DEFINE n == Left(call)
<1>1. /\ Good(kind, f, a) /\ Kept(kind, f, a) /\ call \in Calls /\ kind = "core"
      /\ Loading(f, a, call)
  BY DEF ByteInv, Bytewise, IoInv, Safe
<1>2. r.f.data = f.data /\ f \in Hosts /\ a \in Adapters /\ f.data \in Bytes /\ Len(f.data) \in Nat
  BY <1>1, GoodFields DEF Untouched
<1>3. call.n = Len(f.data) /\ call.moved = 0 /\ a.buffer = <<>> /\ a.ptr = 0
  BY <1>1, <1>2 DEF Loading
<1>4. n = Len(f.data) /\ n \in Nat /\ n > 0
  BY <1>2, <1>3 DEF Left
<1>5. kind \notin Stdios /\ kind \in Proxied /\ kind \notin Rams /\ kind \notin Vectors
  BY <1>1 DEF Stdios, Proxied, Rams, Vectors
<1> HIDE DEF n
<1>6. PICK q \in ReadSomeAt(a.ptr, n) : r = Moved(q)
  BY <1>5 DEF ReadSome, n
<1>7. q \in CoreReadSomeAt(f, a, 0, n)
  <2>1. ReadSomeAt(a.ptr, n) = CoreReadSomeAt(f, a, a.ptr, n)
    BY <1>1, <1>5 DEF ReadSomeAt, Stdios, Rams, Vectors, Proxied
  <2> QED
    BY <1>3, <1>6, <2>1
<1>8. \/ q.err = "ok" /\ Len(q.out) = n
      \/ q.err # "ok" /\ q.out = <<>> /\ q.a.buffer = <<>> /\ q.a.ptr = a.ptr
  BY <1>2, <1>3, <1>4, <1>7, CoreReadsAll
<1>9. r.err = q.err /\ r.out = q.out /\ r.a = AddOffset(q.a, Len(q.out))
  BY <1>5, <1>6, Zenon DEF Moved, R
<1>10. d.n = call.n /\ d.moved = call.moved + Len(r.out) /\ GoesOn(r, d.moved)
  BY DEF Carried
<1>11. q.err # "ok"
  <2>1. ASSUME q.err = "ok" PROVE FALSE
    <3>1. Len(q.out) = n
      BY <1>8, <2>1
    <3>2. d.moved = n /\ call.n = n
      BY <1>3, <1>4, <1>9, <1>10, <3>1
    <3> QED
      BY <1>4, <1>10, <3>2 DEF GoesOn
  <2> QED
    BY <2>1
<1>12. q.out = <<>> /\ q.a.buffer = <<>> /\ q.a.ptr = 0
  BY <1>3, <1>8, <1>11
<1>13. Len(q.out) = 0
  BY <1>12
<1>14. q.a \in Adapters
  <2>1. Sound(kind, q)
    BY <1>1, <1>3, <1>4, <1>6, ReadSomeAtFacts
  <2> QED
    BY <2>1, GoodFields DEF Sound
<1>15. r.a.buffer = <<>> /\ r.a.ptr = 0
  BY <1>9, <1>12, <1>13, <1>14 DEF AddOffset, Adapters
<1> QED
  BY <1>2, <1>3, <1>9, <1>10, <1>13, <1>15

\* A step of a read.
LEMMA ReadStepRefines ==
  ASSUME ~OsdSeekFails, ByteInv, call.phase = "busy", call.w = <<>>, NEW r \in Transfers, Step(r)
  PROVE  Abstract!Next /\ Bytewise(kind', f', a', call')
<1> DEFINE d == AfterRead(call, r)
           n == Left(call)
           o == call.o + call.moved
           p == IF call.op = "read_at" THEN o ELSE At(kind, f, a)
<1>1. /\ Good(kind, f, a) /\ Kept(kind, f, a) /\ call \in Calls /\ Underway(kind, f, a, call)
      /\ f' = r.f /\ a' = r.a /\ kind' = kind /\ call' = d /\ call.op \notin Writes
  BY DEF ByteInv, Bytewise, IoInv, Safe, Step, Effect
<1>2. /\ call.op \in {"read", "read_at", "load"} /\ call.o \in Nat /\ call.moved \in Nat /\ call.moved <= call.n
      /\ call.n \in Nat /\ Len(call.got) = call.moved
  BY <1>1, CallFields DEF Underway, Reads
<1>3. n \in Nat /\ o \in Nat
  BY <1>2 DEF Left
<1>4. r \in IF call.op = "read_at" THEN ReadSomeAt(o, n) ELSE ReadSome(n)
  BY <1>2 DEF Transfers
<1> HIDE DEF n, o
<1>5. /\ Untouched(kind, r, f, a) /\ Kept(kind, r.f, r.a) /\ Sound(kind, r)
      /\ r.err = "ok" => Gives(r.out, f.data, EndOf(kind, f, a), p)
      /\ r.err = "ok" => At(kind, r.f, r.a) = IF call.op = "read_at" THEN At(kind, f, a)
                                              ELSE At(kind, f, a) + Len(r.out)
  <2>1. CASE call.op = "read_at"
    <3>1. r \in ReadSomeAt(o, n)
      BY <1>4, <2>1
    <3>2. /\ Untouched(kind, r, f, a) /\ Kept(kind, r.f, r.a)
          /\ r.err = "ok" => Gives(r.out, f.data, EndOf(kind, f, a), o)
          /\ r.err = "ok" /\ kind \in Stdios => r.f.pos = f.pos
      BY <1>1, <1>3, <3>1, ReadSomeAtPulls
    <3>3. Sound(kind, r) /\ (kind \notin Stdios => r.a.ptr = a.ptr)
      BY <1>1, <1>3, <3>1, ReadSomeAtFacts
    <3> QED
      BY <2>1, <3>2, <3>3 DEF At
  <2>2. CASE call.op # "read_at"
    <3>1. r \in ReadSome(n)
      BY <1>4, <2>2
    <3>2. /\ Untouched(kind, r, f, a) /\ Kept(kind, r.f, r.a)
          /\ r.err = "ok" => Gives(r.out, f.data, EndOf(kind, f, a), At(kind, f, a))
      BY <1>1, <1>3, <3>1, ReadSomePulls
    <3>3. Sound(kind, r) /\ At(kind, r.f, r.a) = At(kind, f, a) + Len(r.out)
      BY <1>1, <1>3, <3>1, ReadSomeFacts
    <3> QED
      BY <2>2, <3>2, <3>3
  <2> QED
    BY <2>1, <2>2
<1>6. r.err \in Errors /\ r.out \in Bytes /\ Len(r.out) \in Nat /\ a.filler \in Nat
  BY <1>1, <1>5, GoodFields DEF Sound, Bytes
<1>7. Carried(d, r) /\ \A k \in 1..Len(r.out) : d.got[call.moved + k] = r.out[k]
  BY <1>1, <1>2, <1>6, AfterReadParts
<1>8. /\ d.op = call.op /\ d.o = call.o /\ d.n = call.n /\ d.w = call.w /\ d.last = r.err
      /\ d.moved = call.moved + Len(r.out)
  BY <1>7 DEF Carried
<1>9. p \in Nat
  BY <1>1, <1>3, GoodFields DEF At
<1>10. p = Abstract!At(call, Position)
  BY <1>2, ContentsIs DEF Abstract!At, Abstract!Positional, o
<1> HIDE DEF d, p
<1>11. Contents' = Contents
  BY <1>1, <1>5, UntouchedContents, ContentsIs, ContentsNext
<1>12. r.err = "ok" => Position' = IF call.op \in {"read_at", "write_at"} THEN Position
                                   ELSE Position + Len(r.out)
  BY <1>1, <1>2, <1>5, ContentsIs, ContentsNext
<1>13. ASSUME r.err = "ok", NEW k \in 1..Len(r.out)
       PROVE  p + k <= Len(Contents) /\ d.got[call.moved + k] = Contents[p + k]
  <2> DEFINE x == EndOf(kind, f, a)
  <2>1. x \in Nat /\ Len(Contents) = x /\ \A j \in 1..x : Contents[j] = f.data[j]
    BY <1>1, ContentsBytes, ContentsIs
  <2>2. p + k <= x /\ r.out[k] = f.data[p + k]
    BY <1>5, <1>13 DEF Gives
  <2> HIDE DEF x
  <2>3. p + k \in 1..x
    BY <1>6, <1>9, <2>1, <2>2
  <2> QED
    BY <1>7, <2>1, <2>2, <2>3
<1>14. Abstract!Read
  <2>1. call'.moved - call.moved = Len(r.out)
    BY <1>1, <1>2, <1>6, <1>8
  <2>2. Abstract!Busy /\ Abstract!Same(call, call')
    BY <1>1, <1>8 DEF Abstract!Busy, Abstract!Same
  <2>3. call'.last = r.err /\ call'.got = d.got
    BY <1>1, <1>8
  <2> QED
    BY <1>10, <1>11, <1>12, <1>13, <2>1, <2>2, <2>3 DEF Abstract!Read, Abstract!Positional
<1>15. Loading(r.f, r.a, d)
  <2>1. CASE call.op = "load"
    <3>1. r \in ReadSome(Left(call))
      BY <1>4, <2>1 DEF n
    <3> QED
      BY <1>5, <1>6, <1>7, <2>1, <3>1, LoadStepLoading
  <2>2. CASE call.op # "load"
    BY <1>8, <2>2 DEF Loading
  <2> QED
    BY <2>1, <2>2
<1>16. Bytewise(kind, r.f, r.a, d)
  BY <1>1, <1>5, <1>8, <1>15 DEF Bytewise
<1> QED
  BY <1>1, <1>14, <1>16 DEF Abstract!Next

\* A step of the loops of read and write.
LEMMA TransferRefines ==
  ASSUME ~OsdSeekFails, ByteInv, Transfer
  PROVE  Abstract!Next /\ Bytewise(kind', f', a', call')
<1>1. PICK r \in Transfers : Step(r)
  BY DEF Transfer
<1>2. call.phase = "busy"
  BY DEF Transfer
<1> QED
  BY <1>1, <1>2, ReadStepRefines, WriteStepRefines

-----------------------------------------------------------------------------
(* The adapter from its opening on *)

\* A file all of whose bytes are in S.
LEMMA BytesOf ==
  ASSUME NEW S, NEW c \in Bytes, \A j \in 1..Len(c) : c[j] \in S
  PROVE  c \in Seq(S)
<1>1. Len(c) \in Nat /\ c = [j \in 1..Len(c) |-> c[j]]
  BY DEF Bytes
<1> QED
  BY <1>1

\* A file opened has the bytes it is given, or none when it is created anew.
LEMMA ByteInit ==
  ASSUME Init, Initial \in Seq(0..255)
  PROVE  ByteInv /\ Abstract!Init
<1> DEFINE s == f.data
<1>1. /\ kind \in Kinds /\ kind \in AllKinds /\ a = Adapter(Len(s), FillerOf(kind)) /\ call = Idle
      /\ Good(kind, f, a) /\ IoInv
  BY KindAssumption, IoInit DEF Init, IoInv, Safe
<1>2. f \in {Stream(Initial), Stream(<<>>)}
  <2>1. PICK flags \in OpenFlags : f \in Opened(flags)
    BY DEF Init
  <2>2. CASE kind \in Proxied \union {"osd"}
    <3>1. Opened(flags) = {OsdOpen(TRUE, Initial, flags).f : w \in flags \intersect {"write"}}
      BY <2>2 DEF Opened, Proxied
    <3>2. OsdOpen(TRUE, Initial, flags).f \in {Stream(Initial), Stream(<<>>)}
      BY DEF OsdOpen, Out
    <3> QED
      BY <2>1, <3>1, <3>2
  <2>3. CASE kind \notin Proxied \union {"osd"}
    BY <2>1, <2>3 DEF Opened
  <2> QED
    BY <2>2, <2>3
<1>3. s \in Seq(0..255) /\ f.pos = 0
  <2>1. /\ Stream(Initial).data = Initial /\ Stream(<<>>).data = <<>>
        /\ Stream(Initial).pos = 0 /\ Stream(<<>>).pos = 0
    BY DEF Stream
  <2>2. <<>> \in Seq(0..255)
    OBVIOUS
  <2> QED
    BY <1>2, <2>1, <2>2
<1>4. s \in Bytes /\ Len(s) \in Nat /\ FillerOf(kind) \in Nat
  BY <1>1, GoodFields
<1>5. /\ a.size = Len(s) /\ a.ptr = 0 /\ a.buffer = <<>> /\ a.elements = Len(s) \div Width
  BY <1>1, <1>4, NewAdapterFacts DEF Adapter
<1>6. EndOf(kind, f, a) = Len(s)
  <2>1. CASE kind \in Vectors
    <3>1. CheckResized(f, a) = a
      BY <1>5 DEF CheckResized
    <3> QED
      BY <1>5, <2>1, <3>1, EndFacts
  <2>2. CASE kind = "memory"
    BY <1>4, <1>5, <2>2, EndFacts DEF Least
  <2>3. CASE kind \notin Vectors /\ kind # "memory"
    BY <2>3, EndFacts
  <2> QED
    BY <2>1, <2>2, <2>3
<1> HIDE DEF s
<1>7. Kept(kind, f, a)
  <2>1. SpareZero(f, a)
    BY <1>5 DEF SpareZero, s
  <2>2. Inside(f, a)
    BY <1>5, EmptyGives DEF Inside
  <2> QED
    BY <1>4, <1>5, <2>1, <2>2 DEF Kept, s
<1>8. ByteInv
  BY <1>1, <1>7, IdleFacts, BackBytewise DEF ByteInv
<1>9. Contents \in Seq(0..255)
  <2> DEFINE c == Contents
             e == Len(s)
  <2>1. c \in Bytes /\ Len(c) = e /\ \A j \in 1..e : c[j] = s[j]
    BY <1>1, <1>6, ContentsBytes, ContentsIs DEF s
  <2> HIDE DEF c
  <2>2. \A j \in 1..Len(c) : c[j] \in 0..255
    BY <1>3, <2>1
  <2>3. c \in Seq(0..255)
    BY <2>1, <2>2, BytesOf
  <2> QED
    BY <2>3 DEF c
<1>10. Position = 0
  BY <1>3, <1>5 DEF Position
<1> QED
  BY <1>1, <1>8, <1>9, <1>10, IdleFacts DEF Abstract!Init

\* Every call of a client, and every step of its loops, is one of an array of bytes.
LEMMA ByteStep ==
  ASSUME ~OsdSeekFails, ~CutBuffered, "memory" \notin PastEnd, "rust" \notin OutOfRange,
         <<>> \notin Payloads, ByteInv, [Next]_vars
  PROVE  ByteInv' /\ [Abstract!Next]_Abstract!vars
<1>1. IoInv'
  BY IoStep DEF ByteInv
<1>2. CASE UNCHANGED vars
  <2>1. kind' = kind /\ f' = f /\ a' = a /\ call' = call
    BY <1>2 DEF vars
  <2>2. Contents' = Contents /\ Position' = Position
    BY <2>1, ContentsIs, ContentsNext
  <2> QED
    BY <1>1, <2>1, <2>2 DEF ByteInv, Abstract!vars
<1>3. CASE Done
  <2>1. UNCHANGED vars
    BY <1>3 DEF Done
  <2> QED
    BY <1>2, <2>1
<1>4. CASE \E n \in Lengths : Read(n) \/ \E o \in Offsets : ReadAt(o, n)
  BY <1>1, <1>4, ReadRefines, ReadAtRefines DEF ByteInv
<1>5. CASE \E w \in Payloads : Write(w) \/ \E o \in Offsets : WriteAt(o, w)
  BY <1>1, <1>5, WriteRefines, WriteAtRefines DEF ByteInv
<1>6. CASE \E t \in Targets : Seek(t[1], t[2])
  BY <1>1, <1>6, SeekRefines DEF ByteInv
<1>7. CASE \E o \in Offsets : Truncate(o) \/ ResizeVector(o)
  BY <1>1, <1>7, TruncateRefines, ResizeRefines DEF ByteInv
<1>8. CASE Load \/ Transfer \/ Length \/ Flush \/ CutWhileLoading
  BY <1>1, <1>8, LoadRefines, TransferRefines, LengthRefines, FlushRefines, CutRefines DEF ByteInv
<1> QED
  BY <1>2, <1>3, <1>4, <1>5, <1>6, <1>7, <1>8 DEF Next

-----------------------------------------------------------------------------
\* Every adapter of ioprocs.cpp, ioprocsvec.h, ioprocsfill.h, corefile.cpp, minimal_osd.cpp
\* and chd_shim.cpp is an array of bytes with a position: each transfer that succeeds moves
\* the bytes of its place however the host cuts it up, a failed one touches no byte outside
\* its range, the space a filling adapter skips gets the filler, and a seek goes where it
\* says or nowhere.  The client writes at least one byte a call, leaves the position of
\* memory within it, seeks a Rust stream to places that exist, and truncates no core file
\* whose buffer has bytes; the seeks of minimal_osd.cpp succeed.
THEOREM EveryAdapterIsAByteStream ==
  ASSUME ~OsdSeekFails, ~CutBuffered, "memory" \notin PastEnd, "rust" \notin OutOfRange,
         <<>> \notin Payloads, Initial \in Seq(0..255)
  PROVE  Spec => IsByteStream
<1>1. Init => ByteInv /\ Abstract!Init
  BY ByteInit
<1>2. ByteInv /\ [Next]_vars => ByteInv' /\ [Abstract!Next]_Abstract!vars
  BY ByteStep
<1> QED
  BY <1>1, <1>2, PTL DEF Spec, IsByteStream, Abstract!Spec
=============================================================================
