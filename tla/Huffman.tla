------------------------------ MODULE Huffman ------------------------------
(***************************************************************************)
(* The canonical Huffman coder (lib/util/huffman.cpp, huffman.h).  A tree  *)
(* is the function from codes to m_numbits; everything else follows from   *)
(* it.  Streams are those of BitStream; an operation on a stream returns   *)
(* the stream it leaves.  Errors are the strings of huffman_error.         *)
(***************************************************************************)
EXTENDS Integers, Sequences, SequencesExt, FiniteSets, FiniteSetsExt, BitStream

\* The function f, as a table: TLC evaluates every f[x] once, to compare f.
Table(f) == CHOOSE g \in {f} : g = f

NumCodes(tree) == Cardinality(DOMAIN tree)
Used(tree) == {c \in DOMAIN tree : tree[c] > 0}

-----------------------------------------------------------------------------
(* Codes from lengths *)

\* The first code of each length, longest first; those of a length start where half
\* of the longer ones end.
Starts(tree) ==
  LET count == Table([l \in 1..32 |-> Cardinality({c \in DOMAIN tree : tree[c] = l})])
      start[l \in 1..32] == IF l = 32 THEN 0 ELSE (start[l + 1] + count[l + 1]) \div 2
  IN  Table([l \in 1..32 |-> [at |-> start[l], count |-> count[l]]])

\* The two ways assign_canonical_codes fails: a length beyond the maximum, or an odd
\* number of codes of a length above 1.
ConsistentTree(tree, maxbits) ==
  /\ \A c \in DOMAIN tree : tree[c] <= maxbits
  /\ LET s == Starts(tree) IN \A l \in 2..32 : (s[l].at + s[l].count) % 2 = 0

\* assign_canonical_codes: codes of one length are consecutive, in code order.  A
\* coder has the length and the bits of each code in use.
Coder(tree) ==
  LET starts == Starts(tree)
      nth(c) == Cardinality({d \in Used(tree) : d < c /\ tree[d] = tree[c]})
  IN  Table([c \in Used(tree) |-> ToBits(starts[tree[c]].at + nth(c), tree[c])])

EncodeOne(o, coder, c) == WriteBits(o, coder[c])

\* build_lookup_table and decode_one: the code whose bits come next, and the stream
\* after it.  The encoders leave no word without a code.
DecodeOne(i, coder, maxbits) ==
  LET match(p, d) == SubSeq(p.buffer, 1, Len(coder[d])) = coder[d]
      taken(p, c) == <<c, RemoveBits(p, Len(coder[c]))>>
      decoded(p) == taken(p, CHOOSE d \in DOMAIN coder : match(p, d))
  IN  decoded(Peeked(i, maxbits))

-----------------------------------------------------------------------------
(* Trees from histograms *)

\* build_tree: the list is sorted by weight, largest first (ties by code, and a new
\* node goes behind its equals); the last two are joined until one is left.  A node
\* is its weight and the depths of the codes below it.
Deeper(d) == Table([c \in DOMAIN d |-> d[c] + 1])
Both(d, e) == [c \in DOMAIN d \cup DOMAIN e |-> IF c \in DOMAIN d THEN d[c] ELSE e[c]]
JoinLast(list) ==
  LET n == Len(list)
      weight == list[n - 1].weight + list[n].weight
      new == [weight |-> weight, depth |-> Deeper(Both(list[n - 1].depth, list[n].depth))]
      at == Min({k \in 1..(n - 2) : list[k].weight < weight} \cup {n - 1})
  IN  SubSeq(list, 1, at - 1) \o <<new>> \o SubSeq(list, at, n - 2)
Join(list) == Iterate(JoinLast, list, Max({0, Len(list) - 1}))

BuildTree(histo, totaldata, totalweight) ==
  LET used == {c \in DOMAIN histo : histo[c] # 0}
      weight(c) == Max({1, (histo[c] * totalweight) \div totaldata})
      rank(c) == 1 + Cardinality({d \in used : \/ weight(d) > weight(c)
                                               \/ weight(d) = weight(c) /\ d < c})
      list == [k \in 1..Cardinality(used) |->
                 LET c == CHOOSE e \in used : rank(e) = k IN
                 [weight |-> weight(c), depth |-> [d \in {c} |-> 0]]]
      root == Join(list)[1].depth
  IN  Table([c \in DOMAIN histo |-> IF c \notin used THEN 0 ELSE Max({1, root[c]})])

\* compute_tree_from_histo: the largest scaling of the weights whose tree is not
\* deeper than maxbits, by bisection.
Bisect(histo, total, maxbits) ==
  LET weights == 0..(2 * total)
      tree[r \in weights \X weights] ==      \* from the lower bound and the upper one
        LET cur == (r[1] + r[2]) \div 2
            narrow(t) == IF \E c \in DOMAIN t : t[c] > maxbits THEN tree[<<r[1], cur>>]
                         ELSE IF cur = total \/ r[2] - cur <= 1 THEN t
                         ELSE tree[<<cur, r[2]>>]
        IN  narrow(BuildTree(histo, total, cur))
  IN  tree[<<0, 2 * total>>]

\* Codes are numbers from 0 on.
DataCount(histo) == Fold(LAMBDA t, i : t + histo[i - 1], 0, [k \in 1..NumCodes(histo) |-> k])
ComputeTree(histo, maxbits) == Bisect(histo, DataCount(histo), maxbits)

HistoOf(source, codes) == Table([c \in codes |-> Cardinality({k \in DOMAIN source : source[k] = c})])

-----------------------------------------------------------------------------
(* Trees in streams: run lengths *)

RleBits(maxbits) == IF maxbits >= 16 THEN 5 ELSE IF maxbits >= 8 THEN 4 ELSE 3

\* The words write_rle_tree_bits writes: 1 is the escape, so a length of 1 is written
\* twice.
RleTreeWords(value, reps, numbits) ==
  LET cur(n) == Min({n - 3, 2^numbits - 1})
      words[n \in 0..reps] ==
        IF n = 0 THEN <<>>
        ELSE IF value = 1 THEN <<1, 1>> \o words[n - 1]
        ELSE IF n <= 2 THEN <<value>> \o words[n - 1]
        ELSE <<1, value, cur(n)>> \o words[n - (cur(n) + 3)]
  IN  words[reps]

\* The length of the run of equal lengths that starts at code c.
RunAt(tree, c) ==
  Max({n \in 1..(NumCodes(tree) - c) : \A k \in 0..(n - 1) : tree[c + k] = tree[c]})

ExportRle(o, tree, numbits) ==
  LET words[c \in 0..NumCodes(tree)] ==
        IF c = NumCodes(tree) THEN <<>>
        ELSE RleTreeWords(tree[c], RunAt(tree, c), numbits) \o words[c + RunAt(tree, c)]
  IN  Fold(LAMBDA w, v : Write(w, v, numbits), o, words[0])

Exported(out) == <<IF OutOverflow(out) THEN "OUTPUT_BUFFER_TOO_SMALL" ELSE "NONE", out>>
ExportTreeRle(o, tree, maxbits) == Exported(ExportRle(o, tree, RleBits(maxbits)))

\* The lengths the next one, two or three words stand for, and the stream after them.
RleWords(i, numbits) ==
  LET run(v, r) == <<[k \in 1..(r[1] + 3) |-> v], r[2]>>
      escaped(b) == IF b[1] = 1 THEN <<<<1>>, b[2]>> ELSE run(b[1], Read(b[2], numbits))
      first(a) == IF a[1] # 1 THEN <<<<a[1]>>, a[2]>> ELSE escaped(Read(a[2], numbits))
  IN  first(Read(i, numbits))

\* The lengths as they come, possibly one run too long.
ImportRle(i, numcodes, numbits) ==
  LET add(r, w) == <<r[1] \o w[1], w[2]>>
      more(r) == IF Len(r[1]) >= numcodes THEN r ELSE add(r, RleWords(r[2], numbits))
  IN  Iterate(more, <<<<>>, i>>, numcodes)

\* What both imports do with the lengths they have read, and the stream after them.
TreeRead(i, tree, maxbits) ==
  IF ~ConsistentTree(tree, maxbits) THEN <<"INTERNAL_INCONSISTENCY", <<>>, i>>
  ELSE <<IF InOverflow(i) THEN "INPUT_BUFFER_TOO_SMALL" ELSE "NONE", tree, i>>
Imported(r, numcodes, maxbits) ==
  IF Len(r[1]) # numcodes THEN <<"INVALID_DATA", <<>>, r[2]>>
  ELSE TreeRead(r[2], Table([c \in 0..(numcodes - 1) |-> r[1][c + 1]]), maxbits)

ImportTreeRle(i, numcodes, maxbits) ==
  Imported(ImportRle(i, numcodes, RleBits(maxbits)), numcodes, maxbits)

-----------------------------------------------------------------------------
(* Trees in streams: run lengths that are Huffman coded themselves *)

SmallCodes == 0..23
SmallMax == 6

\* Bits of the longest run length, of a uint32_t.
RleFullBits(numcodes) ==
  LET bits[n \in 0..numcodes] == IF n = 0 THEN 0 ELSE 1 + bits[n \div 2] IN
  bits[numcodes - 9]

\* The lengths as tokens: a length l as l + 1, and a run of two or more repeats as
\* 0 with its length less 2.
RleTokens(tree) ==
  LET token(code, count) == [code |-> code, count |-> count]
      run(length, reps) == CASE reps = 0 -> <<token(length + 1, 0)>>
                             [] reps = 1 -> <<token(length + 1, 0), token(length + 1, 0)>>
                             [] OTHER    -> <<token(length + 1, 0), token(0, reps - 2)>>
      from[c \in 0..NumCodes(tree)] ==
        IF c = NumCodes(tree) THEN <<>> ELSE run(tree[c], RunAt(tree, c) - 1) \o from[c + RunAt(tree, c)]
  IN  from[0]

\* Mutant: no distinction between short and long runs.
WriteToken_ShortOnly(o, coder, token, full) ==
  LET count(w) == IF token.code # 0 THEN w ELSE Write(w, token.count % 8, 3) IN
  count(EncodeOne(o, coder, token.code))

WriteToken(o, coder, token, full) ==
  LET count(w) == IF token.code # 0 THEN w
                  ELSE IF token.count < 7 THEN Write(w, token.count, 3)
                  ELSE Write(Write(w, 7, 3), token.count - 7, full)
  IN  count(EncodeOne(o, coder, token.code))

\* The small tree: its code 0, the first used code (at most 8), then the lengths from
\* there to the last used code, and 7.
ExportSmallTree(o, small) ==
  LET used == {c \in SmallCodes : c > 0 /\ small[c] # 0}
      first == Min({8} \cup used)
      last == Max({0} \cup used)
      head == Write(Write(o, small[0], 3), first - 1, 3)
      lens == [k \in 1..(last - first + 1) |-> small[first + k - 1]]
  IN  Write(Fold(LAMBDA w, l : Write(w, l, 3), head, lens), 7, 3)

ExportTreeHuffman(o, tree) ==
  LET full == RleFullBits(NumCodes(tree))
      smallTree(tokens) ==
        ComputeTree(HistoOf([k \in DOMAIN tokens |-> tokens[k].code], SmallCodes), SmallMax)
      write(out, tokens, coder) == Fold(LAMBDA w, t : WriteToken(w, coder, t, full), out, tokens)
      both(tokens, small) == write(ExportSmallTree(o, small), tokens, Coder(small))
      export(tokens) == both(tokens, smallTree(tokens))
  IN  Exported(export(RleTokens(tree)))

\* Lengths from code c on, until a 7 or the end: with the stream after them.
ImportSmallFrom(i, lens, c) ==
  LET next(s, r) == IF r[1] = 7 THEN [s EXCEPT !.in = r[2], !.c = 24]
                    ELSE [in |-> r[2], lens |-> [s.lens EXCEPT ![s.c] = r[1]], c |-> s.c + 1]
      more(s) == IF s.c = 24 THEN s ELSE next(s, Read(s.in, 3))
      all == Iterate(more, [in |-> i, lens |-> lens, c |-> c], 24)
  IN  <<all.lens, all.in>>

\* A count of repeats, and the stream after it.
LOCAL ReadCount(i, full) ==
  LET long(x) == <<7 + 2 + x[1], x[2]>>
      short(r) == IF r[1] = 7 THEN long(Read(r[2], full)) ELSE <<r[1] + 2, r[2]>>
  IN  short(Read(i, 3))

\* The loop's state: the stream, the lengths so far, and the last one that was coded.
ImportHuffman(i, coder, numcodes) ==
  LET repeat(s, r) == [s EXCEPT !.in = r[2],
                                !.lens = @ \o [k \in 1..Min({r[1], numcodes - Len(@)}) |-> s.last]]
      next(s, d) == IF d[1] = 0 THEN repeat(s, ReadCount(d[2], RleFullBits(numcodes)))
                    ELSE [in |-> d[2], lens |-> Append(s.lens, d[1] - 1), last |-> d[1] - 1]
      more(s) == IF Len(s.lens) = numcodes THEN s ELSE next(s, DecodeOne(s.in, coder, SmallMax))
      all == Iterate(more, [in |-> i, lens |-> <<>>, last |-> 0], numcodes)
  IN  <<all.lens, all.in>>

ImportTreeHuffman(i, numcodes, maxbits) ==
  LET first(z, s) == ImportSmallFrom(s[2], [c \in SmallCodes |-> IF c = 0 THEN z ELSE 0], s[1] + 1)
      smallTree(z) == first(z[1], Read(z[2], 3))
      lengths(lens) == ImportHuffman(lens[2], Coder(lens[1]), numcodes)
      import(lens) == IF ~ConsistentTree(lens[1], SmallMax) THEN <<"INTERNAL_INCONSISTENCY", <<>>, i>>
                      ELSE Imported(lengths(lens), numcodes, maxbits)
  IN  import(smallTree(Read(i, 3)))

-----------------------------------------------------------------------------
(* huffman_8bit_encoder, huffman_8bit_decoder *)

EncodeAll(o, coder, source) == Fold(LAMBDA w, c : EncodeOne(w, coder, c), o, source)

\* n codes, and the stream after them.
DecodeAll(i, coder, maxbits, n) ==
  LET add(s, d) == <<Append(s[1], d[1]), d[2]>>
      one(s) == add(s, DecodeOne(s[2], coder, maxbits))
  IN  Iterate(one, <<<<>>, i>>, n)

\* encode and decode of a whole buffer: an error and the bytes.
Encode8(source, dlength, codes, maxbits) ==
  LET flushed(out) == <<Exported(out)[1], Output(out)>>
      data(tree, e) == IF e[1] # "NONE" THEN <<e[1], <<>>>>
                       ELSE flushed(FlushOut(EncodeAll(e[2], Coder(tree), source)))
      encode(tree) == IF ~ConsistentTree(tree, maxbits) THEN <<"INTERNAL_INCONSISTENCY", <<>>>>
                      ELSE data(tree, ExportTreeHuffman(BitstreamOut(dlength), tree))
  IN  encode(ComputeTree(HistoOf(source, codes), maxbits))

Decode8(data, dlength, codes, maxbits) ==
  LET flushed(d) == <<IF InOverflow(FlushIn(d[2])) THEN "INPUT_BUFFER_TOO_SMALL" ELSE "NONE", d[1]>>
      decode(t) == IF t[1] # "NONE" THEN <<t[1], <<>>>>
                   ELSE flushed(DecodeAll(t[3], Coder(t[2]), maxbits, dlength))
  IN  decode(ImportTreeHuffman(BitstreamIn(data), Cardinality(codes), maxbits))
=============================================================================
