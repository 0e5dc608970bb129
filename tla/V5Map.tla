------------------------------- MODULE V5Map -------------------------------
(***************************************************************************)
(* The hunk map of a compressed v5 file, in memory and in the file         *)
(* (chd_file::compress_v5_map, decompress_v5_map in lib/util/chd.cpp).     *)
(*                                                                         *)
(* A raw map is a sequence of entries [comp, length, offset, crc], hunk 0  *)
(* first.  Its CRC-16 in the map's header is the map itself.               *)
(***************************************************************************)
EXTENDS Huffman

\* V5 compression types; a codec of m_compression is 0..3.
NONE == 4
SELF == 5
PARENT == 6
RLE_SMALL == 7
RLE_LARGE == 8
SELF_0 == 9
SELF_1 == 10
PARENT_SELF == 11
PARENT_0 == 12
PARENT_1 == 13
Unwritten == 255    \* the memset of a map not written yet

Entry(comp, length, offset, crc) == [comp |-> comp, length |-> length, offset |-> offset, crc |-> crc]
CrcBits == 16
MapCodes == 0..15
MapMaxBits == 8

\* Mutant: one bit less for a power of two.
BitsForValue_Short(v) ==
  LET bits[n \in 0..v] == IF n = 0 THEN 0 ELSE 1 + bits[n \div 2] IN bits[Max({0, v - 1})]

BitsForValue(v) ==
  LET bits[n \in 0..v] == IF n = 0 THEN 0 ELSE 1 + bits[n \div 2] IN bits[v]

-----------------------------------------------------------------------------
(* Compressing *)

\* Mutant: the next parent hunk is taken to be one unit on.
PromotedType_Unit(p, e, hunk, uph) ==
  CASE e.comp = SELF   -> IF e.offset = p.self THEN SELF_0 ELSE IF e.offset = p.self + 1 THEN SELF_1 ELSE SELF
    [] e.comp = PARENT -> IF e.offset = hunk * uph THEN PARENT_SELF ELSE IF e.offset = p.parent THEN PARENT_0
                          ELSE IF e.offset = p.parent + 1 THEN PARENT_1 ELSE PARENT
    [] OTHER           -> e.comp

\* A reference to the hunk or unit of the last one, or to the next hunk, gets a type of
\* its own.  uph is units per hunk.
PromotedType(p, e, hunk, uph) ==
  CASE e.comp = SELF   -> IF e.offset = p.self THEN SELF_0 ELSE IF e.offset = p.self + 1 THEN SELF_1 ELSE SELF
    [] e.comp = PARENT -> IF e.offset = hunk * uph THEN PARENT_SELF ELSE IF e.offset = p.parent THEN PARENT_0
                          ELSE IF e.offset = p.parent + uph THEN PARENT_1 ELSE PARENT
    [] OTHER           -> e.comp

\* The references left, and the lengths, set how many bits one takes.
PromoteOne(p, e, c) ==
  [comps |-> Append(p.comps, c),
   self |-> IF e.comp = SELF THEN e.offset ELSE p.self,
   parent |-> IF e.comp = PARENT THEN e.offset ELSE p.parent,
   maxself |-> IF c = SELF THEN Max({p.maxself, e.offset}) ELSE p.maxself,
   maxparent |-> IF c = PARENT THEN Max({p.maxparent, e.offset}) ELSE p.maxparent,
   maxlen |-> IF e.comp \in {SELF, PARENT} THEN p.maxlen ELSE Max({p.maxlen, e.length})]

Promote(rawmap, uph) ==
  Fold(LAMBDA p, e : PromoteOne(p, e, PromotedType(p, e, Len(p.comps), uph)),
       [comps |-> <<>>, self |-> 0, parent |-> 0, maxself |-> 0, maxparent |-> 0, maxlen |-> 0], rawmap)

\* count repeats of a type already written.
RepeatTokens(comp, count) ==
  LET large(n) == Min({n, 3 + 16 + 255})
      tokens[n \in 0..count] ==
        IF n = 0 THEN <<>>
        ELSE IF n < 3 THEN <<comp>> \o tokens[n - 1]
        ELSE IF n <= 3 + 15 THEN <<RLE_SMALL, n - 3>>
        ELSE <<RLE_LARGE, (large(n) - 19) \div 16, (large(n) - 19) % 16>> \o tokens[n - large(n)]
  IN  tokens[count]

\* Run by run; the type before the first hunk is 0.
RleTypes(comps) ==
  LET last(at) == IF at = 0 THEN 0 ELSE comps[at]
      run(at) == Max({n \in 0..(Len(comps) - at) : \A k \in 1..n : comps[at + k] = last(at)})
      after(next) == IF next > Len(comps) THEN <<>> ELSE <<comps[next]>>
      from[at \in 0..(Len(comps) + 1)] ==
        IF at > Len(comps) THEN <<>>
        ELSE RepeatTokens(last(at), run(at)) \o after(at + run(at) + 1) \o from[at + run(at) + 1]
  IN  from[0]

\* What a hunk needs beside its type.
WriteEntry(o, comp, e, p) ==
  CASE comp \in 0..3 -> Write(Write(o, e.length, BitsForValue(p.maxlen)), e.crc, CrcBits)
    [] comp = NONE   -> Write(o, e.crc, CrcBits)
    [] comp = SELF   -> Write(o, e.offset, BitsForValue(p.maxself))
    [] comp = PARENT -> Write(o, e.offset, BitsForValue(p.maxparent))
    [] OTHER         -> o

\* Bytes allocated for the stream: 12 bits and the longest entry for each hunk.
MapRoom(p, hunks) ==
  ((12 + Max({BitsForValue(p.maxlen) + 16, BitsForValue(p.maxself), BitsForValue(p.maxparent)})) * hunks) \div 8 + 1

\* compress_v5_map: the map as it is written to the file.  Bytes that did not fit the
\* buffer are written all the same, from whatever follows it: bits equal to beyond.
CompressMap(rawmap, uph, beyond) ==
  LET stored == {k \in DOMAIN rawmap : rawmap[k].comp \in 0..NONE}
      result(p, error, out) ==
        [error |-> IF error # "NONE" THEN "COMPRESSION_ERROR" ELSE "NONE",
         stream |-> Output(out) \o [k \in 1..(Len(out.data) - Len(Output(out))) |-> beyond],
         overflow |-> OutOverflow(out),
         firstoffs |-> IF stored = {} THEN 0 ELSE rawmap[Min(stored)].offset,
         mapcrc |-> rawmap,
         lengthbits |-> BitsForValue(p.maxlen), selfbits |-> BitsForValue(p.maxself),
         parentbits |-> BitsForValue(p.maxparent)]
      entries(o, p) == Fold(LAMBDA w, k : WriteEntry(w, p.comps[k], rawmap[k], p), o, [k \in DOMAIN rawmap |-> k])
      data(p, tokens, tree, e) == result(p, e[1], FlushOut(entries(EncodeAll(e[2], Coder(tree), tokens), p)))
      trees(p, tokens, tree) ==
        data(p, tokens, tree, ExportTreeRle(BitstreamOut(MapRoom(p, Len(rawmap))), tree, MapMaxBits))
      types(p, tokens) == trees(p, tokens, ComputeTree(HistoOf(tokens, MapCodes), MapMaxBits))
      write(p) == types(p, RleTypes(p.comps))
  IN  write(Promote(rawmap, uph))

-----------------------------------------------------------------------------
(* Decompressing *)

\* The types of n hunks, and the stream after them.
DecodeTypes(i, coder, n) ==
  LET last(comps) == IF comps = <<>> THEN 0 ELSE comps[Len(comps)]
      one(in) == DecodeOne(in, coder, MapMaxBits)
      add(comps, count, v, in) == <<comps \o [k \in 1..Min({count, n - Len(comps)}) |-> v], in>>
      large(comps, a, b) == add(comps, 1 + 2 + 16 + 16 * a + b[1], last(comps), b[2])
      repeat(comps, v, a) == IF v = RLE_SMALL THEN add(comps, 1 + 2 + a[1], last(comps), a[2])
                             ELSE large(comps, a[1], one(a[2]))
      types(comps, v) == IF v[1] \in {RLE_SMALL, RLE_LARGE} THEN repeat(comps, v[1], one(v[2]))
                         ELSE add(comps, 1, v[1], v[2])
      more(s) == IF Len(s[1]) = n THEN s ELSE types(s[1], one(s[2]))
  IN  Iterate(more, <<<<>>, i>>, n)

\* One entry: blocks follow each other, references follow the last one.
ReadEntry(d, comp, h, hunkbytes, uph) ==
  LET hunk == Len(d.rawmap)
      add(in, e, curoffset, self, parent) ==
        [in |-> in, rawmap |-> Append(d.rawmap, e), curoffset |-> curoffset, self |-> self, parent |-> parent]
      block(length, c) ==
        add(c[2], Entry(comp, length, d.curoffset, c[1]), d.curoffset + length, d.self, d.parent)
      sized(l) == block(l[1], Read(l[2], CrcBits))
      \* A reference, and the stream after it.
      copy(r) == add(r[2], Entry(SELF, 0, r[1], 0), d.curoffset, r[1], d.parent)
      inherit(r) == add(r[2], Entry(PARENT, 0, r[1], 0), d.curoffset, d.self, r[1])
  IN  CASE comp \in 0..3      -> sized(Read(d.in, h.lengthbits))
        [] comp = NONE        -> block(hunkbytes, Read(d.in, CrcBits))
        [] comp = SELF        -> copy(Read(d.in, h.selfbits))
        [] comp = SELF_0      -> copy(<<d.self, d.in>>)
        [] comp = SELF_1      -> copy(<<d.self + 1, d.in>>)
        [] comp = PARENT      -> inherit(Read(d.in, h.parentbits))
        [] comp = PARENT_SELF -> inherit(<<hunk * uph, d.in>>)
        [] comp = PARENT_0    -> inherit(<<d.parent, d.in>>)
        [] comp = PARENT_1    -> inherit(<<d.parent + uph, d.in>>)
        [] OTHER              -> add(d.in, Entry(comp, 0, d.curoffset, 0), d.curoffset, d.self, d.parent)

\* decompress_v5_map on what CompressMap left: an error and the raw map.
DecompressMap(h, hunks, hunkbytes, uph) ==
  LET bad == [error |-> "DECOMPRESSION_ERROR", rawmap |-> <<>>]
      check(d) == IF d.rawmap = h.mapcrc THEN [error |-> "NONE", rawmap |-> d.rawmap] ELSE bad
      entries(types) ==
        Fold(LAMBDA x, c : ReadEntry(x, c, h, hunkbytes, uph),
             [in |-> types[2], rawmap |-> <<>>, curoffset |-> h.firstoffs, self |-> 0, parent |-> 0], types[1])
      decode(t) == IF t[1] # "NONE" THEN bad ELSE check(entries(DecodeTypes(t[3], Coder(t[2]), hunks)))
  IN  decode(ImportTreeRle(BitstreamIn(h.stream), Cardinality(MapCodes), MapMaxBits))
=============================================================================
