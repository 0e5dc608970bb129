------------------------------ MODULE ChdCodec ------------------------------
(***************************************************************************)
(* The hunk codecs (lib/util/chdcodec.cpp): the list of codecs, the ones   *)
(* that wrap a library, the CD front ends, and the group that picks the    *)
(* best.  A hunk is a sequence of cells as in Flac.  A codec returns an    *)
(* error ("NONE" if it did not throw) and data.                            *)
(***************************************************************************)
EXTENDS AvHuff

CONSTANTS SectorData,     \* MAX_SECTOR_DATA: 2352, a multiple of 4
          SubcodeData,    \* MAX_SUBCODE_DATA: 96
          FlacClamp       \* the largest FLAC block of chd_flac_compressor: 2048
ASSUME CdAssumption == SectorData > 0 /\ SectorData % 4 = 0 /\ SubcodeData > 0 /\ FlacClamp > 0

FrameBytes == SectorData + SubcodeData
LOCAL Ok(data) == [error |-> "NONE", data |-> data]
LOCAL Throw(error) == [error |-> error, data |-> <<>>]
LOCAL Sub(data, at, n) == SubSeq(data, at + 1, at + n)
LOCAL From(data, at) == SubSeq(data, at + 1, Len(data))

-----------------------------------------------------------------------------
(* zlib, Zstandard, LZMA *)

\* A library's stream for source: a byte per run of equal bytes, after a header.
LibHeader == [zlib |-> 1, zstd |-> 1, lzma |-> 2]
LibSize(lib, source) ==
  LibHeader[lib] + Cardinality({k \in DOMAIN source : k = 1 \/ source[k] # source[k - 1]})
LibStream(lib, source) == [k \in 1..LibSize(lib, source) |-> <<lib, source, k>>]
\* The stream at the start of data, if there is a whole one.
Whole(lib, data) ==
  /\ data # <<>> /\ data[1][1] = lib /\ Len(data) >= LibSize(lib, data[1][2])
  /\ SubSeq(data, 1, LibSize(lib, data[1][2])) = LibStream(lib, data[1][2])

\* deflate gets as much room as the source has and must not need all of it; neither may
\* the stream encoder of zstd; LZMA may.
LOCAL Fitting(lib, source, room) ==
  IF LibSize(lib, source) > room THEN Throw("COMPRESSION_ERROR") ELSE Ok(LibStream(lib, source))
ZlibCompress(source) == Fitting("zlib", source, Len(source) - 1)
ZstdCompress(source) == Fitting("zstd", source, Len(source) - 1)
LzmaCompress(source) == Fitting("lzma", source, Len(source))

\* All of them want exactly destlen bytes; LZMA also all of the data consumed.
LOCAL Expanded(lib, data, destlen) ==
  IF Whole(lib, data) /\ Len(data[1][2]) = destlen THEN Ok(data[1][2]) ELSE Throw("DECOMPRESSION_ERROR")
ZlibDecompress(data, destlen) == Expanded("zlib", data, destlen)
ZstdDecompress(data, destlen) == Expanded("zstd", data, destlen)
LzmaDecompress(data, destlen) ==
  IF data # <<>> /\ data[1][1] = "lzma" /\ Len(data) # LibSize("lzma", data[1][2]) THEN Throw("DECOMPRESSION_ERROR")
  ELSE Expanded("lzma", data, destlen)

LibCompress(lib, source) ==
  CASE lib = "zlib" -> ZlibCompress(source) [] lib = "zstd" -> ZstdCompress(source) [] lib = "lzma" -> LzmaCompress(source)
LibDecompress(lib, data, destlen) ==
  CASE lib = "zlib" -> ZlibDecompress(data, destlen) [] lib = "zstd" -> ZstdDecompress(data, destlen)
    [] lib = "lzma" -> LzmaDecompress(data, destlen)

-----------------------------------------------------------------------------
(* Huffman *)

LOCAL Bytes(cells) == [k \in DOMAIN cells |-> cells[k][2]]
LOCAL ToCells(bits) == [k \in 1..(Len(bits) \div 8) |-> ByteCell(FromBits(SubSeq(bits, 8 * k - 7, 8 * k)))]
LOCAL ToBitSeq(cells) == FlattenSeq([k \in DOMAIN cells |-> ToBits(cells[k][2], 8)])

HuffmanCompress(source) ==
  LET result(e) == IF e[1] # "NONE" THEN Throw("COMPRESSION_ERROR") ELSE Ok(ToCells(e[2])) IN
  result(Encode8(Bytes(source), Len(source), 0..(Values - 1), MaxBits))

HuffmanDecompress(data, destlen) ==
  LET result(d) == IF d[1] # "NONE" THEN Throw("COMPRESSION_ERROR") ELSE Ok([k \in DOMAIN d[2] |-> ByteCell(d[2][k])]) IN
  result(Decode8(ToBitSeq(data), destlen, 0..(Values - 1), MaxBits))

-----------------------------------------------------------------------------
(* FLAC *)

\* Two channels of two bytes.
LOCAL ToSamples(cells) ==
  [k \in 1..(Len(cells) \div 4) |->
     <<<<cells[4 * k - 3], cells[4 * k - 2]>>, <<cells[4 * k - 1], cells[4 * k]>>>>]
LOCAL OfSamples(samples) == FlattenSeq([k \in DOMAIN samples |-> samples[k][1] \o samples[k][2]])
\* libFLAC sees values.
LOCAL Valued(samples) == [k \in DOMAIN samples |-> [c \in 1..2 |-> [b \in 1..2 |-> samples[k][c][b][2]]]]
LOCAL Celled(samples) == [k \in DOMAIN samples |-> [c \in 1..2 |-> [b \in 1..2 |-> ByteCell(samples[k][c][b])]]]

\* chd_flac_compressor::blocksize, chd_cd_flac_compressor::blocksize: halved until small.
LOCAL Halved(blocksize, clamp) ==
  LET halve[n \in 0..blocksize] == IF n > clamp THEN halve[n \div 2] ELSE n IN halve[blocksize]
BlockSize(bytes) == Halved(bytes \div 4, FlacClamp)
CdBlockSize(bytes) == Halved(bytes \div 4, SectorData)

LOCAL FlacOf(source, length, blocksize, swap) ==
  EncodeInterleaved(ResetEncoder(FlacEncoder(blocksize, TRUE), length), Valued(ToSamples(source)), swap)

\* Both byte orders are tried, little-endian last; big-endian is redone if it was better.
FlacPick(le, be) == IF be.offset < le.offset THEN <<"B", be>> ELSE <<"L", le>>

\* The host is little-endian: m_big_endian is FALSE.
FlacCompress(source) ==
  LET try(swap) == FlacOf(source, Len(source) - 1, BlockSize(Len(source)), swap)
      write(best) == Ok(<<<<best[1], 0, 0>>>> \o Encoded(best[2]))
      pick(le, be) == IF Min({le.offset, be.offset}) + 1 >= Len(source) THEN Throw("COMPRESSION_ERROR")
                      ELSE write(FlacPick(le, be))
  IN  IF BlockSize(Len(source)) < MinBlock THEN Throw("COMPRESSION_ERROR") ELSE pick(try(FALSE), try(TRUE))

FlacDecompress(data, destlen) ==
  LET result(d) == IF Len(d.out) < destlen \div 4 THEN Throw("LOOPS") ELSE Ok(OfSamples(Celled(d.out))) IN
  IF data[1][1] \notin {"L", "B"} THEN Throw("DECOMPRESSION_ERROR")
  ELSE result(DecodeInterleaved(ResetDecoder(BlockSize(destlen), Tail(data)), destlen \div 4, data[1][1] = "B"))

-----------------------------------------------------------------------------
(* CD front ends *)

\* A sector is a sync cell, data and an ECC cell: f_cd_sync_header, ecc_verify,
\* ecc_generate and ecc_clear on it.
Sync == ByteCell(1)
Ecc(sector) == ByteCell((sector[2][2] + 2 * sector[SectorData - 1][2]) % Values)
EccVerify(sector) == sector[SectorData] = Ecc(sector)
EccGenerate(sector) == [sector EXCEPT ![SectorData] = Ecc(sector)]
EccClear(sector) == [sector EXCEPT ![SectorData] = ByteCell(0)]

Frames(bytes) == bytes \div FrameBytes
LOCAL SectorOf(hunk, f) == Sub(hunk, f * FrameBytes, SectorData)
LOCAL SubcodeOf(hunk, f) == Sub(hunk, f * FrameBytes + SectorData, SubcodeData)
\* Sectors first, then subcodes; and back.
Split(hunk) ==
  LET frames == Frames(Len(hunk)) IN
  <<FlattenSeq([f \in 1..frames |-> SectorOf(hunk, f - 1)]),
    FlattenSeq([f \in 1..frames |-> SubcodeOf(hunk, f - 1)])>>
Reassemble(sectors, subcodes) ==
  FlattenSeq([f \in 1..(Len(sectors) \div SectorData) |->
                Sub(sectors, (f - 1) * SectorData, SectorData) \o Sub(subcodes, (f - 1) * SubcodeData, SubcodeData)])

\* Mutant: the sync header alone decides.
Strippable_SyncOnly(sector) == sector[1] = Sync

Strippable(sector) == sector[1] = Sync /\ EccVerify(sector)
Strip(sector) == IF Strippable(sector) THEN EccClear([sector EXCEPT ![1] = ByteCell(0)]) ELSE sector
Restore(sector) == EccGenerate([sector EXCEPT ![1] = Sync])

\* On every sector of the concatenated ones.
LOCAL EachSector(sectors, f(_, _)) ==
  FlattenSeq([k \in 1..(Len(sectors) \div SectorData) |-> f(k, Sub(sectors, (k - 1) * SectorData, SectorData))])

\* chd_cd_compressor: a bit per frame that was stripped, the length of the base part,
\* the sectors by one codec, the subcode by another.  Two cells stand for the header.
CdCompress(base, subcode, hunk) ==
  LET flags == {f \in 1..Frames(Len(hunk)) : Strippable(SectorOf(hunk, f - 1))}
      both(b, s) == IF b.error # "NONE" THEN b
                    ELSE IF Len(b.data) >= Len(hunk) THEN Throw("COMPRESSION_ERROR")
                    ELSE IF s.error # "NONE" THEN s
                    ELSE Ok(<<<<"ecc", flags, 0>>, <<"complen", Len(b.data), 0>>>> \o b.data \o s.data)
      compress(parts) == both(LibCompress(base, EachSector(parts[1], LAMBDA k, s : Strip(s))),
                              LibCompress(subcode, parts[2]))
  IN  compress(Split(hunk))

CdDecompress(base, subcode, data, destlen) ==
  LET frames == Frames(destlen)
      complen == data[2][2]
      both(b, s) ==
        IF b.error # "NONE" THEN b ELSE IF s.error # "NONE" THEN s
        ELSE Ok(Reassemble(EachSector(b.data, LAMBDA k, x : IF k \in data[1][2] THEN Restore(x) ELSE x), s.data))
  IN  both(LibDecompress(base, Sub(data, 2, complen), frames * SectorData),
           LibDecompress(subcode, From(data, 2 + complen), frames * SubcodeData))

\* chd_cd_flac_compressor: FLAC of the sectors, and deflated subcode right behind it.
CdFlacCompress(hunk) ==
  LET blocksize == CdBlockSize(Frames(Len(hunk)) * SectorData)
      both(e, subcode) == IF LibSize("zlib", subcode) > Len(hunk) - e.offset \/ e.offset + LibSize("zlib", subcode) >= Len(hunk)
                          THEN Throw("COMPRESSION_ERROR")
                          ELSE Ok(Encoded(e) \o LibStream("zlib", subcode))
      compress(parts) == both(FlacOf(parts[1], Len(hunk), blocksize, TRUE), parts[2])
  IN  IF blocksize < MinBlock THEN Throw("COMPRESSION_ERROR") ELSE compress(Split(hunk))

CdFlacDecompress(data, destlen) ==
  LET frames == Frames(destlen)
      wanted == frames * (SectorData \div 4)
      both(d, s) == IF s.error # "NONE" THEN s ELSE Ok(Reassemble(OfSamples(Celled(d.out)), s.data))
      decode(d) == IF Len(d.out) < wanted THEN Throw("LOOPS")
                   ELSE both(d, LibDecompress("zlib", From(data, FinishDecoder(d)), frames * SubcodeData))
  IN  decode(DecodeInterleaved(ResetDecoder(CdBlockSize(frames * SectorData), data), wanted, TRUE))

-----------------------------------------------------------------------------
(* A/V *)

\* postinit: the metadata must be there and a frame must fit a hunk.
Postinit(av, hunkbytes) ==
  LET permillion == av.fps * 1000000 + av.fpsfrac
      maxsamples == (av.rate * 1000000 + permillion - 1) \div permillion
  IN  IF av.found = FALSE THEN "METADATA_NOT_FOUND"
      ELSE IF av.fields # 7 \/ 12 + av.channels * maxsamples * 2 + av.width * av.height * 2 > hunkbytes
      THEN "INVALID_METADATA" ELSE "NONE"

AvCompress(source, av) ==
  LET size == RawDataSize(source)
      result(e) == IF e[1] # "NONE" \/ Len(e[2]) > Len(source) THEN Throw("COMPRESSION_ERROR") ELSE Ok(e[2])
  IN  IF Postinit(av, Len(source)) # "NONE" THEN Throw(Postinit(av, Len(source)))
      ELSE IF \E k \in (size + 1)..Len(source) : source[k] # ByteCell(0) THEN Throw("INVALID_DATA")
      ELSE result(EncodeData(source, FALSE))

\* decompress pads what a short frame leaves; process hands out pieces instead.
AvDecompress(data, destlen) ==
  LET padded(raw) == Ok(raw \o [k \in 1..Max({0, destlen - Len(raw)}) |-> ByteCell(0)])
      result(d) == IF d.error = "LOOPS" THEN Throw("LOOPS")
                   ELSE IF d.error # "NONE" THEN Throw("DECOMPRESSION_ERROR")
                   ELSE padded(RawFrame(data, d))
  IN  result(DecodeData(data, RawOutput))

AvProcess(data, config) ==
  LET result(d) == IF d.error # "NONE" THEN Throw("DECOMPRESSION_ERROR") ELSE Ok(d) IN
  result(DecodeData(data, config))

-----------------------------------------------------------------------------
(* The list and the group *)

\* f_codec_list, in its order; the CD ones with their two parts.
CodecList == <<"zlib", "zstd", "lzma", "huff", "flac", "cdzl", "cdzs", "cdlz", "cdfl", "avhu">>
LOCAL CdParts == [cdzl |-> <<"zlib", "zlib">>, cdzs |-> <<"zstd", "zstd">>, cdlz |-> <<"lzma", "zlib">>]
CodecExists(type) == type \in ToSet(CodecList)

\* new_compressor, new_decompressor: what constructing one throws.
Construct(type, hunkbytes) ==
  IF ~CodecExists(type) THEN "UNKNOWN_COMPRESSION"
  ELSE IF type \in DOMAIN CdParts \cup {"cdfl"} /\ hunkbytes % FrameBytes # 0 THEN "CODEC_ERROR"
  ELSE "NONE"

Compress(type, source, av) ==
  CASE type \in {"zlib", "zstd", "lzma"} -> LibCompress(type, source)
    [] type = "huff" -> HuffmanCompress(source)
    [] type = "flac" -> FlacCompress(source)
    [] type \in DOMAIN CdParts -> CdCompress(CdParts[type][1], CdParts[type][2], source)
    [] type = "cdfl" -> CdFlacCompress(source)
    [] type = "avhu" -> AvCompress(source, av)

Decompress(type, data, destlen) ==
  CASE type \in {"zlib", "zstd", "lzma"} -> LibDecompress(type, data, destlen)
    [] type = "huff" -> HuffmanDecompress(data, destlen)
    [] type = "flac" -> FlacDecompress(data, destlen)
    [] type \in DOMAIN CdParts -> CdDecompress(CdParts[type][1], CdParts[type][2], data, destlen)
    [] type = "cdfl" -> CdFlacDecompress(data, destlen)
    [] type = "avhu" -> AvDecompress(data, destlen)

\* chd_compressor_group: the first error of constructing the codecs of the list.
GroupError(types, hunkbytes) ==
  LET bad == {k \in DOMAIN types : types[k] # "none" /\ Construct(types[k], hunkbytes) # "NONE"} IN
  IF bad = {} THEN "NONE" ELSE Construct(types[Min(bad)], hunkbytes)

\* What each codec of the group made of a hunk; an empty slot nothing.
Tried(types, source, av) ==
  [k \in DOMAIN types |-> IF types[k] = "none" THEN Throw("NO_CODEC") ELSE Compress(types[k], source, av)]

-----------------------------------------------------------------------------
(* find_best_compressor.  The codecs compress one after another into the one test     *)
(* buffer of the group; the shortest stream so far is kept in the caller's buffer,    *)
(* the m_compressed of a work item, where that of an earlier hunk still is.           *)

\* memcpy to the start of a buffer.
LOCAL Over(buffer, cells) == cells \o From(buffer, Len(cells))

\* What a codec has written to the test buffer: its stream or, when it throws, the first
\* left cells of one that did not fit.
LOCAL Written(result, left) ==
  IF result.error = "NONE" THEN result.data ELSE [k \in 1..left |-> <<"cut off", k, 0>>]

LOCAL Better(g, result) == result.error = "NONE" /\ Len(result.data) < g.complen

\* Mutant: the length to beat stays that of a hunk.
TryCodec_LengthKept(g, k, result, left) ==
  LET test == Over(g.test, Written(result, left)) IN
  IF Better(g, result)
  THEN [g EXCEPT !.test = test, !.compression = k - 1,
                 !.compressed = Over(@, SubSeq(test, 1, Len(result.data)))]
  ELSE [g EXCEPT !.test = test]

\* One turn of the loop: an error is swallowed, with what the codec has left behind; fewer
\* bytes than the best so far are copied out of the test buffer.
TryCodec(g, k, result, left) ==
  LET test == Over(g.test, Written(result, left)) IN
  IF Better(g, result)
  THEN [test |-> test, compression |-> k - 1, complen |-> Len(result.data),
        compressed |-> Over(g.compressed, SubSeq(test, 1, Len(result.data)))]
  ELSE [g EXCEPT !.test = test]

LOCAL LoopStart(source) ==
  LET old == [k \in DOMAIN source |-> Stale] IN
  [test |-> old, compressed |-> old, complen |-> Len(source), compression |-> -1]
LOCAL TryAll(tried, source, left) ==
  Fold(LAMBDA g, k : IF tried[k].error = "NO_CODEC" THEN g ELSE TryCodec(g, k, tried[k], left),
       LoopStart(source), [k \in DOMAIN tried |-> k])

\* Mutant: copy once, after the loop, what is in the test buffer.
FindBestCompressor_CopiesLast(tried, source, left) ==
  LET g == TryAll(tried, source, left) IN
  [compression |-> g.compression,
   data |-> SubSeq(IF g.compression = -1 THEN source ELSE g.test, 1, g.complen)]

\* The number of the best codec, and the complen bytes the caller takes from its buffer;
\* -1 and the hunk itself unless some codec saved a byte.
FindBestCompressor(tried, source, left) ==
  LET g == TryAll(tried, source, left) IN
  [compression |-> g.compression,
   data |-> SubSeq(IF g.compression = -1 THEN Over(g.compressed, source) ELSE g.compressed, 1, g.complen)]
=============================================================================
