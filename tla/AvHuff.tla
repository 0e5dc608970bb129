------------------------------- MODULE AvHuff -------------------------------
(***************************************************************************)
(* avhuff_encoder and avhuff_decoder (lib/util/avhuff.cpp): one frame of   *)
(* metadata, audio and video.  Data is a sequence of the cells of Flac.    *)
(***************************************************************************)
EXTENDS Huffman, Flac

CONSTANT Values    \* values of a byte of video: 256
ASSUME ValuesAssumption == Values \in Nat \ {0, 1}

LOCAL U16(n) == <<ByteCell((n \div 256) % 256), ByteCell(n % 256)>>
LOCAL GetU8(data, at) == data[at + 1][2]
LOCAL GetU16(data, at) == GetU8(data, at) * 256 + GetU8(data, at + 1)
LOCAL Sub(data, at, n) == SubSeq(data, at + 1, at + n)
LOCAL From(data, at) == SubSeq(data, at + 1, Len(data))

LOCAL Cells(bits) == [k \in 1..(Len(bits) \div 8) |-> ByteCell(FromBits(SubSeq(bits, 8 * k - 7, 8 * k)))]
LOCAL Bits(cells) == FlattenSeq([k \in DOMAIN cells |-> ToBits(cells[k][2], 8)])

-----------------------------------------------------------------------------
(* Delta and run lengths *)

Codes == 0..(Values + 15)
MaxBits == 16

CodeToRleCount(code) ==
  IF code = 0 THEN 1
  ELSE IF code <= Values + 7 THEN 8 + (code - Values) ELSE 16 * 2^(code - (Values + 8))

RleCountToCode(n) ==
  IF n >= 16 THEN Values + 8 + Max({k \in 0..7 : 16 * 2^k <= n})
  ELSE IF n >= 8 THEN Values + (n - 8) ELSE 0

\* rle_and_histo_bitmap on one row after the value prev: a run of 8 or more that
\* reaches the end of the row gets the largest code.
RECURSIVE RleRow(_, _)
RleRow(row, prev) ==
  LET run == Max({n \in 0..Len(row) : \A k \in 1..n : row[k] = prev})
      code == RleCountToCode(IF run = Len(row) /\ run >= 8 THEN 100000 ELSE run)
  IN  IF row = <<>> THEN <<>>
      ELSE IF row[1] # prev
      THEN <<(row[1] - prev + Values) % Values>> \o RleRow(Tail(row), row[1])
      ELSE <<code>> \o RleRow(SubSeq(row, CodeToRleCount(code) + 1, Len(row)), prev)

\* The items of a plane lie advance bytes apart, and rows follow each other.
RleBitmap(source, first, items, advance, rows) ==
  LET item(r, k) == GetU8(source, first + ((r - 1) * items + k - 1) * advance)
      prev(r) == IF r = 1 \/ items = 0 THEN 0 ELSE item(r - 1, items)
  IN  FlattenSeq([r \in 1..rows |-> RleRow([k \in 1..items |-> item(r, k)], prev(r))])

EncoderContext(codes) ==
  LET context(tree) == [codes |-> codes, rle |-> 0, tree |-> tree, coder |-> Coder(tree)] IN
  context(ComputeTree(HistoOf(codes, Codes), MaxBits))

\* deltarle_encoder::encode_one, on an output and a context.
DeltaEncode(o, c) ==
  LET data == Head(c.codes) IN
  IF c.rle # 0 THEN <<o, [c EXCEPT !.rle = @ - 1]>>
  ELSE <<EncodeOne(o, c.coder, data),
         [c EXCEPT !.codes = Tail(@),
                   !.rle = IF data >= Values THEN CodeToRleCount(data) - 1 ELSE 0]>>

DecoderContext(tree) == [coder |-> Coder(tree), rle |-> 0, prev |-> 0]

\* deltarle_decoder::decode_one: the input and the context after it; the value is prev.
DeltaDecode(i, c) ==
  LET next(d) == IF d[1] < Values THEN <<d[2], [c EXCEPT !.prev = (@ + d[1]) % Values]>>
                 ELSE <<d[2], [c EXCEPT !.rle = CodeToRleCount(d[1]) - 1]>>
  IN  IF c.rle # 0 THEN <<i, [c EXCEPT !.rle = @ - 1]>> ELSE next(DecodeOne(i, c.coder, MaxBits))

-----------------------------------------------------------------------------
(* Video *)

Planes == <<"y", "cb", "cr">>
LOCAL RowOrder(width) == FlattenSeq([k \in 1..(width \div 2) |-> <<"y", "cb", "y", "cr">>])

\* Mutant: runs go on into the next row.
FlushRle_Keeps(s) == s

\* flush_rle on all contexts.
FlushRle(s) == [s EXCEPT !.y.rle = 0, !.cb.rle = 0, !.cr.rle = 0]

EncodePlane(s, p) ==
  LET next(r) == [s EXCEPT !.bits = r[1], ![p] = r[2]] IN next(DeltaEncode(s.bits, s[p]))
EncodeRow(s, width) == Fold(EncodePlane, FlushRle(s), RowOrder(width))

\* encode_video_lossless: 0x80, the three trees, each from a new byte, and the data.
\* The result is an error and the stream; what is beyond its limit is not written.
EncodeVideo(source, width, height) ==
  LET plane(p) == EncoderContext(CASE p = "y"  -> RleBitmap(source, 0, width, 2, height)
                                   [] p = "cb" -> RleBitmap(source, 1, width \div 2, 4, height)
                                   [] p = "cr" -> RleBitmap(source, 3, width \div 2, 4, height))
      flushed(t) == <<t[1], FlushOut(t[2])>>
      trees(ctx) == Fold(LAMBDA e, p : IF e[1] # "NONE" THEN e ELSE flushed(ExportTreeRle(e[2], ctx[p].tree, MaxBits)),
                         <<"NONE", Write(BitstreamOut(width * height * 2), 128, 8)>>, Planes)
      rows(s) == Fold(LAMBDA t, r : EncodeRow(t, width), s, [r \in 1..height |-> r])
      missing(out) == Max({0, Len(out.data) \div 8 - out.dlength})
      result(out) == <<"NONE", Cells(Output(out)) \o [k \in 1..missing(out) |-> Stale]>>
      data(ctx, e) == IF e[1] # "NONE" THEN <<"COMPRESSION_ERROR", <<>>>>
                      ELSE result(FlushOut(rows(ctx @@ [bits |-> e[2]]).bits))
      encode(ctx) == data(ctx, trees(ctx))
  IN  encode(Table([p \in ToSet(Planes) |-> plane(p)]))

DecodePlane(s, p) ==
  LET next(r) == [s EXCEPT !.bits = r[1], ![p] = r[2], !.out = Append(@, ByteCell(r[2].prev))] IN
  next(DeltaDecode(s.bits, s[p]))
DecodeRow(s, width) == FlushRle(Fold(DecodePlane, s, RowOrder(width)))

\* The two bytes of a pixel, for a buffer of 16-bit pixels of a little-endian machine.
SwappedPixels(video, xor) ==
  [k \in DOMAIN video |-> video[IF ~xor THEN k ELSE IF k % 2 = 1 THEN k + 1 ELSE k - 1]]

\* decode_video, decode_video_lossless.
DecodeVideo(source, width, height, xor) ==
  LET next(e, p, t) == [error |-> t[1], bits |-> FlushIn(t[3]), trees |-> [e.trees EXCEPT ![p] = t[2]]]
      tree(e, p) == IF e.error # "NONE" THEN e ELSE next(e, p, ImportTreeRle(e.bits, Cardinality(Codes), MaxBits))
      trees == Fold(tree, [error |-> "NONE", bits |-> Read(BitstreamIn(Bits(source)), 8)[2],
                               trees |-> [p \in ToSet(Planes) |-> <<>>]], Planes)
      state(e) == [p \in ToSet(Planes) |-> DecoderContext(e.trees[p])] @@ [bits |-> e.bits, out |-> <<>>]
      rows(s) == Fold(LAMBDA t, r : DecodeRow(t, width), s, [r \in 1..height |-> r])
      result(s) == <<IF InOverflow(s.bits) \/ ReadOffset(s.bits) # Len(source) THEN "INVALID_DATA" ELSE "NONE",
                     SwappedPixels(s.out, xor)>>
      decode(e) == IF e.error # "NONE" THEN <<"INVALID_DATA", <<>>>> ELSE result(rows(state(e)))
  IN  IF source = <<>> \/ GetU8(source, 0) < 128 THEN <<"INVALID_DATA", <<>>>> ELSE decode(trees)

-----------------------------------------------------------------------------
(* Audio *)

\* Samples, as their two bytes; one channel to an element.
LOCAL Samples(data, at, n) ==
  [k \in 1..n |-> <<<<GetU8(data, at + 2 * k - 2), GetU8(data, at + 2 * k - 1)>>>>]
LOCAL SampleCells(samples) ==
  FlattenSeq([k \in DOMAIN samples |-> <<ByteCell(samples[k][1][1]), ByteCell(samples[k][1][2])>>])

\* encode_audio: FLAC, one stream per channel, told apart by a tree size of 0xffff.
\* A stream may be longer than the samples it stands for: it is then not written.
EncodeAudio(source, channels, samples) ==
  LET channel(c) == EncodeInterleaved(ResetEncoder(FlacEncoder(samples, TRUE), samples * 2),
                                      Samples(source, 2 * samples * (c - 1), samples), TRUE)
      result(e) == [error |-> IF samples = 0 \/ CanEncode(FlacEncoder(samples, TRUE)) THEN "NONE" ELSE "COMPRESSION_ERROR",
                    treesize |-> 65535,
                    sizes |-> [c \in 1..channels |-> e[c].offset],
                    data |-> FlattenSeq([c \in 1..channels |-> Encoded(e[c])])]
  IN  result([c \in 1..channels |-> channel(c)])

\* Differences of samples, as high and low byte.
LOCAL Value(s) == s[1][1] * Values + s[1][2]
LOCAL Deltas(samples) ==
  [k \in DOMAIN samples |->
     LET d == (Value(samples[k]) - (IF k = 1 THEN 0 ELSE Value(samples[k - 1])) + Values * Values) % (Values * Values)
     IN  <<<<d \div Values, d % Values>>>>]
LOCAL Summed(deltas) ==
  LET v[k \in 0..Len(deltas)] == IF k = 0 THEN 0 ELSE (v[k - 1] + Value(deltas[k])) % (Values * Values) IN
  [k \in DOMAIN deltas |-> <<<<v[k] \div Values, v[k] % Values>>>>]

\* encode_audio of the builds without FLAC: two trees, the channels, or the
\* differences themselves when that takes too much room.
EncodeAudioHuffman(source, channels, samples) ==
  LET room == 2 * channels * samples
      treeOf(all, n) == ComputeTree(HistoOf([k \in DOMAIN all |-> all[k][1][n]], 0..(Values - 1)), MaxBits)
      export(o, tree) == FlushOut(ExportTreeRle(o, tree, MaxBits)[2])
      one(o, d, hi, lo) == EncodeOne(EncodeOne(o, hi, d[1][1]), lo, d[1][2])
      channel(o, deltas, hi, lo) == FlushOut(Fold(LAMBDA w, d : one(w, d, hi, lo), o, deltas))
      \* The streams after the trees and after each channel.
      outs(trees, deltas, hi, lo) == Fold(LAMBDA s, d : Append(s, channel(Last(s), d, hi, lo)), <<trees>>, deltas)
      size(o) == Len(o.data) \div 8
      result(deltas, out) ==
        IF OutOverflow(out[1]) THEN [error |-> "COMPRESSION_ERROR", treesize |-> 0, sizes |-> <<>>, data |-> <<>>]
        ELSE IF \E c \in 1..channels : size(out[c + 1]) >= room
        THEN [error |-> "NONE", treesize |-> 0, sizes |-> [c \in 1..channels |-> 2 * samples],
              data |-> SampleCells(FlattenSeq(deltas))]
        ELSE [error |-> "NONE", treesize |-> size(out[1]),
              sizes |-> [c \in 1..channels |-> size(out[c + 1]) - size(out[c])], data |-> Cells(Last(out).data)]
      encode(deltas, hi, lo) ==
        result(deltas, outs(export(export(BitstreamOut(room), hi), lo), deltas, Coder(hi), Coder(lo)))
      trees(deltas, all) == encode(deltas, treeOf(all, 1), treeOf(all, 2))
      start(deltas) == trees(deltas, FlattenSeq(deltas))
  IN  start([c \in 1..channels |-> Deltas(Samples(source, 2 * samples * (c - 1), samples))])

\* One channel of decode_audio from its trees, and whether its data ran out.
LOCAL DecodeChannel(data, hi, lo, samples) ==
  LET add(out, h, l) == <<l[2], Append(out, <<<<h, l[1]>>>>)>>
      low(out, h) == add(out, h[1], DecodeOne(h[2], lo, MaxBits))
      result(r) == <<InOverflow(r[1]), Summed(r[2])>>
  IN  result(Fold(LAMBDA r, k : low(r[2], DecodeOne(r[1], hi, MaxBits)),
                  <<BitstreamIn(Bits(data)), <<>>>>, [k \in 1..samples |-> k]))

\* Mutant: the same for every buffer.
SwapsFlac_Always(xor) == TRUE

\* FLAC samples are swapped for a raw frame, whose bytes are big-endian.
SwapsFlac(xor) == ~xor

\* decode_audio: the samples of the wanted channels, in the byte order wanted.
DecodeAudio(source, channels, samples, treesize, sizes, wanted, xor) ==
  LET start(c) == (IF treesize = 65535 THEN 0 ELSE treesize) + FoldFunctionOnSet(+, 0, sizes, 1..(c - 1))
      data(c) == Sub(source, start(c), sizes[c])
      flac(c) == DecodeInterleaved(ResetDecoder(samples, data(c)), samples, SwapsFlac(xor)).out
      bad(e) == [error |-> e, audio |-> <<>>]
      audio(f) == [error |-> "NONE", audio |-> [c \in 1..channels |-> IF c \in wanted THEN f[c] ELSE <<>>]]
      swapped(f) == audio([c \in wanted |-> Swapped(f[c], xor)])
      flacs(f) == IF \E c \in wanted : Len(f[c]) < samples THEN bad("LOOPS") ELSE audio(f)
      coded(f) == IF \E c \in wanted : f[c][1] THEN bad("INVALID_DATA") ELSE swapped([c \in wanted |-> f[c][2]])
      decode(hi, lo) == coded([c \in wanted |-> DecodeChannel(data(c), hi, lo, samples)])
      low(hi, lo) == IF lo[1] # "NONE" \/ ReadOffset(lo[3]) # treesize THEN bad("INVALID_DATA")
                     ELSE decode(Coder(hi), Coder(lo[2]))
      high(hi) == IF hi[1] # "NONE" THEN bad("INVALID_DATA")
                  ELSE low(hi[2], ImportTreeRle(FlushIn(hi[3]), Values, MaxBits))
  IN  IF treesize = 65535 THEN flacs([c \in wanted |-> flac(c)])
      ELSE IF treesize = 0 THEN swapped([c \in wanted |-> Summed(Samples(data(c), 0, samples))])
      ELSE high(ImportTreeRle(BitstreamIn(Bits(Sub(source, 0, treesize))), Values, MaxBits))

-----------------------------------------------------------------------------
(* Frames *)

LOCAL Chav == [k \in 1..4 |-> <<"chav", 0, k>>]

\* assemble_data: channels of samples and rows of pixels, each pixel two bytes.
AssembleData(width, height, audio, meta, video) ==
  IF Len(meta) > 255 THEN <<"METADATA_TOO_LARGE", <<>>>>
  ELSE IF Len(audio[1]) > 65535 THEN <<"AUDIO_TOO_LARGE", <<>>>>
  ELSE IF width > 65535 \/ height > 65535 THEN <<"VIDEO_TOO_LARGE", <<>>>>
  ELSE <<"NONE", Chav \o <<ByteCell(Len(meta)), ByteCell(Len(audio))>> \o U16(Len(audio[1]))
                 \o U16(width) \o U16(height) \o meta
                 \o FlattenSeq([c \in DOMAIN audio |-> SampleCells(audio[c])]) \o video>>

RawDataSize(data) ==
  IF SubSeq(data, 1, 4) # Chav THEN 0
  ELSE 12 + GetU8(data, 4) + 2 * GetU8(data, 5) * GetU16(data, 6)
       + 2 * GetU16(data, 8) * (GetU16(data, 10) % 32768)

\* encode_data: header, metadata, audio and video behind one another.
EncodeData(source, huffman) ==
  LET metasize == GetU8(source, 4)
      channels == GetU8(source, 5)
      samples == GetU16(source, 6)
      width == GetU16(source, 8)
      height == GetU16(source, 10)
      body == From(source, 12 + metasize)
      audio == IF channels = 0 THEN [error |-> "NONE", treesize |-> 0, sizes |-> <<>>, data |-> <<>>]
               ELSE IF huffman THEN EncodeAudioHuffman(body, channels, samples)
               ELSE EncodeAudio(body, channels, samples)
      video == IF width > 0 /\ height > 0 THEN EncodeVideo(From(body, channels * samples * 2), width, height)
               ELSE <<"NONE", <<>>>>
      both(a, v) == IF a.error # "NONE" THEN <<a.error, <<>>>>
                    ELSE IF v[1] # "NONE" THEN <<v[1], <<>>>>
                    ELSE <<"NONE", SubSeq(source, 5, 12) \o U16(a.treesize)
                                   \o FlattenSeq([c \in 1..channels |-> U16(a.sizes[c])])
                                   \o Sub(source, 12, metasize) \o a.data \o v[2]>>
  IN  IF SubSeq(source, 1, 4) # Chav THEN <<"INVALID_DATA", <<>>>> ELSE both(audio, video)

\* The buffers decode_data fills: all of a raw frame, or those that were configured.
RawOutput == [raw |-> TRUE]
Config(width, height, channels, maxsamples, maxmeta) ==
  [raw |-> FALSE, width |-> width, height |-> height, channels |-> channels,
   maxsamples |-> maxsamples, maxmeta |-> maxmeta]

DataStart(channels, metasize) == 10 + 2 * channels + metasize

\* decode_data: the audio and video it decodes, and in raw mode the whole frame.  The
\* size test leaves the metadata out and asks for at least one byte besides the audio.
DecodeData(source, config) ==
  LET metasize == GetU8(source, 0)
      channels == GetU8(source, 1)
      samples == GetU16(source, 2)
      width == GetU16(source, 4)
      height == GetU16(source, 6)
      treesize == GetU16(source, 8)
      sizes == [c \in 1..channels |-> GetU16(source, 8 + 2 * c)]
      audiosize == (IF treesize = 65535 THEN 0 ELSE treesize) + FoldFunctionOnSet(+, 0, sizes, 1..channels)
      wanted == IF config.raw THEN 1..channels ELSE config.channels \cap (1..channels)
      start == DataStart(channels, metasize)
      audio == IF channels = 0 THEN [error |-> "NONE", audio |-> <<>>]
               ELSE DecodeAudio(From(source, start), channels, samples, treesize, sizes, wanted, ~config.raw)
      hasvideo == width > 0 /\ height > 0 /\ (config.raw \/ config.width > 0)
      video == IF hasvideo THEN DecodeVideo(From(source, start + audiosize), width, height, ~config.raw) ELSE <<"NONE", <<>>>>
      meta == Sub(source, 10 + 2 * channels, metasize)
      bad(e) == [error |-> e, meta |-> <<>>, audio |-> <<>>, video |-> <<>>]
      both(a, v) == IF a.error # "NONE" THEN bad(a.error)
                    ELSE [error |-> v[1], meta |-> meta, audio |-> a.audio, video |-> v[2]]
  IN  IF Len(source) < 8 THEN bad("INVALID_DATA")
      ELSE IF Len(source) < 10 + 2 * channels THEN bad("INVALID_DATA")
      ELSE IF 10 + 2 * channels + audiosize >= Len(source) THEN bad("INVALID_DATA")
      ELSE IF ~config.raw /\ config.width > 0 /\ (config.width < width \/ config.height < height)
      THEN bad("VIDEO_TOO_LARGE")
      ELSE IF ~config.raw /\ wanted # {} /\ config.maxsamples < samples THEN bad("AUDIO_TOO_LARGE")
      ELSE IF ~config.raw /\ config.maxmeta < metasize THEN bad("METADATA_TOO_LARGE")
      ELSE both(audio, video)

\* What raw decoding leaves in the destination.
RawFrame(source, d) ==
  Chav \o SubSeq(source, 1, 8) \o d.meta
  \o FlattenSeq([c \in DOMAIN d.audio |-> SampleCells(d.audio[c])]) \o d.video
=============================================================================
