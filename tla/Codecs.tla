------------------------------- MODULE Codecs -------------------------------
(***************************************************************************)
(* What the coders promise together: each behaviour takes one job, encodes *)
(* it and decodes what the encoder left; or it is a library that uses the  *)
(* codecs' allocator.  The codes of a CD sector, its time, the tokens of a *)
(* sheet, characters, lines, digests and check values are jobs as well.    *)
(***************************************************************************)
EXTENDS ChdCodec, V5Map, CodecAllocator, CdBytes, Text, Hashing

CONSTANT Jobs
VARIABLES job, stage, coded, decoded
vars == <<job, stage, coded, decoded, avars>>

LOCAL Values8(widths, values) == [k \in DOMAIN widths |-> <<widths[k], values[k] % 2^widths[k]>>]

LOCAL BothForms(tree, j) == [tree |-> tree, rle |-> ExportTreeRle(BitstreamOut(j.room), tree, j.maxbits),
                             huff |-> ExportTreeHuffman(BitstreamOut(j.room), tree)]
LOCAL GroupEncoding(tried, j) == FindBestCompressor(tried, j.hunk, j.left) @@ [tried |-> tried]

\* A word with a space or a quote in it stands between quotes of the other kind.
LOCAL Quoted(word) ==
  IF "\"" \in ToSet(word) THEN <<"'">> \o word \o <<"'">>
  ELSE IF {"'", " "} \intersect ToSet(word) # {} THEN <<"\"">> \o word \o <<"\"">> ELSE word

LOCAL Concat(seqs) == Fold(LAMBDA s, x : s \o x, <<>>, seqs)
LOCAL Each(f(_), seq) == [k \in DOMAIN seq |-> f(seq[k])]
LOCAL Utf8(text) == Concat(Each(LAMBDA c : Utf8FromUchar(UTF8_CHAR_MAX, c), text))
LOCAL BothOrders(big, order) == IF order = "BE" THEN big ELSE [k \in DOMAIN big |-> big[Len(big) + 1 - k]]
LOCAL Unit16(u, order) == BothOrders(<<u \div 256, u % 256>>, order)
LOCAL Unit32(c, order) == BothOrders(<<0, c \div 65536, (c \div 256) % 256, c % 256>>, order)

\* A text as a file: written line by line with puts, or in one of the wider encodings.
LOCAL FileOf(j) ==
  CASE j.type = "puts" -> Fold(LAMBDA data, line : Puts(data, Utf8(line), j.nobom), <<>>, j.lines)
    [] j.type = "16" -> Unit16(65279, j.order) \o
         Concat(Each(LAMBDA u : Unit16(u, j.order), Concat(Each(LAMBDA c : Utf16FromUchar(2, c), Concat(j.lines)))))
    [] j.type = "32" -> Unit32(65279, j.order) \o Concat(Each(LAMBDA c : Unit32(c, j.order), Concat(j.lines)))
RECURSIVE AllLines(_, _)
AllLines(t, n) ==
  LET x == Gets(t, n, <<>>) IN IF x[2] = <<>> THEN <<>> ELSE <<x[2]>> \o AllLines(x[1], n)

RECURSIVE Cut(_, _)
Cut(s, n) == IF s = <<>> THEN <<>> ELSE IF Len(s) <= n THEN <<s>>
             ELSE <<SubSeq(s, 1, n)>> \o Cut(SubSeq(s, n + 1, Len(s)), n)

\* The state of SHA-1 has its five words in the opposite order.
LOCAL Backwards(h) == <<h[5], h[4], h[3], h[2], h[1]>>

\* A tree is written in both forms; bits are written one value after another; a hunk
\* goes through a group of codecs, a frame of audio and video through its own.
Encoding(j) ==
  CASE j.kind = "bits"  -> Output(FlushOut(Fold(LAMBDA o, v : Write(o, v[2], v[1]), BitstreamOut(j.room),
                                                Values8(j.widths, j.values))))
    [] j.kind = "tree"  -> BothForms(ComputeTree(HistoOf(j.source, j.codes), j.maxbits), j)
    [] j.kind = "hunk"  -> IF GroupError(j.types, Len(j.hunk)) # "NONE"
                           THEN [compression |-> -2, data |-> <<>>]
                           ELSE GroupEncoding(Tried(j.types, j.hunk, j.av), j)
    [] j.kind = "frame" -> EncodeData(j.raw, j.huffman)
    [] j.kind = "map"   -> CompressMap(j.rawmap, j.uph, j.beyond)
    [] j.kind = "sector" -> EccGenerate2352(j.sector)
    [] j.kind = "time"  -> [digits |-> LbaToMsf(j.lba), alt |-> LbaToMsfAlt(j.lba)]
    [] j.kind = "line"  -> Fold(LAMBDA s, w : s \o <<" ">> \o Quoted(w) \o <<" ">>, <<>>, j.words)
    [] j.kind = "char"  -> [utf8 |-> Utf8FromUchar(UTF8_CHAR_MAX, j.uchar), utf16 |-> Utf16FromUchar(UTF16_CHAR_MAX, j.uchar),
                            flipped |-> Utf16fFromUchar(UTF16_CHAR_MAX, j.uchar)]
    [] j.kind = "string" -> UstrFromUtf8(j.bytes)
    [] j.kind = "text"  -> FileOf(j)
    [] j.kind = "digest" -> [sha1 |-> Sha1Finish(InPieces(Sha1Append, Cut(j.message, j.piece))).done,
                             md5 |-> MD5Final(InPieces(MD5Update, Cut(j.message, j.piece))).done]
    [] j.kind = "rounds" -> [mine |-> Sha1Block(Sha1Reset, j.block), fips |-> FipsBlock(Backwards(Sha1Reset), j.block),
                             md5 |-> MD5Block(MD5Init, j.block), rfc |-> MD5Block(MD5Init, j.block)]
    [] j.kind = "crc"   -> Crc16Append(Crc16Append(65535, SubSeq(j.data, 1, j.cut)), SubSeq(j.data, j.cut + 1, Len(j.data)))
    [] j.kind = "hex"   -> [hash |-> FromString(2, j.text), number |-> NumberFromString(2, j.text)]

LOCAL ReadAll(in, widths) ==
  LET add(out, x) == <<x[2], Append(out, x[1])>> IN
  Fold(LAMBDA r, w : add(r[2], Read(r[1], w)), <<in, <<>>>>, widths)[2]
LOCAL FrameDecoding(c, d, j) ==
  [error |-> d.error, raw |-> IF d.error = "NONE" THEN RawFrame(c, d) ELSE <<>>, whole |-> d, pieces |-> DecodeData(c, j.config)]

Decoding(j, c) ==
  CASE j.kind = "bits"  -> ReadAll(BitstreamIn(c), j.widths)
    [] j.kind = "tree"  -> [rle |-> ImportTreeRle(BitstreamIn(Output(FlushOut(c.rle[2]))), Cardinality(j.codes), j.maxbits),
                            huff |-> ImportTreeHuffman(BitstreamIn(Output(FlushOut(c.huff[2]))), Cardinality(j.codes), j.maxbits)]
    [] j.kind = "hunk"  -> IF c.compression < 0 THEN [error |-> "NONE", data |-> c.data]
                           ELSE Decompress(j.types[c.compression + 1], c.data, Len(j.hunk))
    [] j.kind = "frame" -> IF c[1] # "NONE" THEN [error |-> c[1]] ELSE FrameDecoding(c[2], DecodeData(c[2], RawOutput), j)
    [] j.kind = "map"   -> DecompressMap(c, Len(j.rawmap), j.hunkbytes, j.uph)
    [] j.kind = "sector" -> [valid |-> EccVerify2352(c), again |-> EccGenerate2352(EccClear2352(c)),
                             hit |-> [k \in j.hits |-> EccVerify2352([c EXCEPT ![k] = 255 - @])]]
    [] j.kind = "time"  -> MsfToLba(c.alt)
    [] j.kind = "line"  -> Tokens(c, Len(j.words) + 1)
    [] j.kind = "char"  -> [utf8 |-> UcharFromUtf8(c.utf8), utf16 |-> UcharFromUtf16(c.utf16 \o <<0, 0>>, Len(c.utf16)),
                            flipped |-> UcharFromUtf16f(c.flipped, Len(c.flipped)),
                            start |-> Utf8PreviousChar(<<65>> \o c.utf8, Len(c.utf8) + 2)]
    [] j.kind = "string" -> [valid |-> Utf8IsValidString(j.bytes), again |-> Utf8(c)]
    [] j.kind = "text"  -> AllLines(TextFile(c), j.n)
    [] j.kind = "digest" -> <<>>
    [] j.kind = "crc"   -> [whole |-> Crc16Append(65535, j.data), hit |-> {Crc16Append(65535, d) : d \in j.damaged}]
    [] j.kind = "hex"   -> AsString(c.hash.raw)

Init == /\ job \in Jobs
        /\ stage = "start" /\ coded = <<>> /\ decoded = <<>>
        /\ AllocInit

Encode == /\ stage = "start" /\ job.kind # "alloc"
          /\ stage' = "coded" /\ coded' = Encoding(job)
          /\ UNCHANGED <<job, decoded, avars>>

Decode == /\ stage = "coded" /\ job.kind # "rounds"
          /\ stage' = "decoded" /\ decoded' = Decoding(job, coded)
          /\ UNCHANGED <<job, coded, avars>>

Process == /\ job.kind = "rounds" /\ stage = "coded" /\ coded.mine.i <= 80
           /\ coded' = [mine |-> Sha1Process(coded.mine), fips |-> FipsProcess(coded.fips),
                        md5 |-> IF coded.md5.i <= 64 THEN MD5Transform(coded.md5) ELSE coded.md5,
                        rfc |-> IF coded.rfc.i <= 64 THEN RfcTransform(coded.rfc) ELSE coded.rfc]
           /\ UNCHANGED <<job, stage, decoded, avars>>

Allocate == /\ job.kind = "alloc" /\ AllocNext
            /\ UNCHANGED <<job, stage, coded, decoded>>

Next == Encode \/ Decode \/ Process \/ Allocate
Spec == Init /\ [][Next]_vars

-----------------------------------------------------------------------------
LOCAL Done(kind) == job.kind = kind /\ stage = "decoded"

\* What bitstream_out wrote, bitstream_in reads again, for values of up to 24 bits in
\* any order of widths.
BitsRoundTrip ==
  Done("bits") => decoded = [k \in DOMAIN job.widths |-> job.values[k] % 2^job.widths[k]]

\* The tree computed from any histogram has codes of every length used that pair up and
\* are not longer than the maximum, and both its forms in a stream read back as the tree.
TreesRoundTrip ==
  Done("tree") => /\ ConsistentTree(coded.tree, job.maxbits)
                  /\ \A c \in DOMAIN coded.tree : (coded.tree[c] = 0) <=> (c \notin ToSet(job.source))
                  /\ decoded.rle[1] = "NONE" /\ decoded.rle[2] = coded.tree
                  /\ decoded.huff[1] = "NONE" /\ decoded.huff[2] = coded.tree

\* Whatever codec of a group wins, decompressing what it left gives the hunk.
HunkLossless ==
  Done("hunk") => \/ coded.compression = -2
                  \/ decoded.error = "NONE" /\ decoded.data = job.hunk

\* What the loop of find_best_compressor keeps is, byte for byte, the stream of the codec
\* it names, whatever later codecs and codecs that throw have written to the test buffer
\* they share, and whatever was in the caller's buffer; that codec saves a byte, none of
\* them does better, and of equals it is the first, so that the file does not depend on
\* the thread.  With no codec that saves a byte it is the hunk.
BestWins ==
  job.kind = "hunk" /\ stage = "coded" /\ coded.compression # -2 =>
    LET saving == {k \in DOMAIN job.types : coded.tried[k].error = "NONE" /\ Len(coded.tried[k].data) < Len(job.hunk)}
        k == coded.compression + 1
    IN  IF saving = {} THEN coded.compression = -1 /\ coded.data = job.hunk
        ELSE /\ k \in saving /\ coded.data = coded.tried[k].data
             /\ \A j \in saving \ {k} : \/ Len(coded.tried[j].data) > Len(coded.data)
                                        \/ Len(coded.tried[j].data) = Len(coded.data) /\ j > k

\* A frame whose encoding was not cut off decodes to itself, with FLAC audio as with
\* the Huffman audio of older files.
FrameLossless ==
  Done("frame") /\ decoded.error # "COMPRESSION_ERROR" /\ Stale \notin ToSet(coded[2])
  => decoded.error = "NONE" /\ decoded.raw = job.raw

\* The map read back from a file is the map that was written: runs, promoted references
\* and bit widths included, whenever the buffer held it.
MapRoundTrip == Done("map") /\ ~coded.overflow => decoded.error = "NONE" /\ decoded.rawmap = job.rawmap

\* The codes generated for a sector verify and are the ones a stripped sector gets back;
\* one wrong byte anywhere they cover is noticed, the header of a mode 2 sector is not
\* covered.
EccDetects ==
  Done("sector") => /\ decoded.valid /\ decoded.again = coded
                    /\ \A k \in job.hits : decoded.hit[k] = (k < 12 \/ (k < 15 /\ coded[15] = 2))

\* Both forms of the time of a frame name that frame: the one in binary by msf_to_lba,
\* the one in a raw sector's header by its decimal digits.
TimesNameFrames ==
  Done("time") =>
    LET digit(k) == (coded.digits \div 16^k) % 16 IN
    /\ decoded = job.lba
    /\ ((digit(5) * 10 + digit(4)) * 60 + digit(3) * 10 + digit(2)) * 75 + digit(1) * 10 + digit(0) = job.lba
    /\ \A k \in 0..5 : digit(k) <= 9

\* The tokens of a line are the words it was made of, with the spaces and quotes inside
\* them; after them comes the empty token.
TokensRoundTrip == Done("line") => decoded = Append(job.words, <<>>)

\* Every character that has an encoding has the same meaning in each, its first byte is
\* found from behind it, and what is no character has no encoding.
CharsSurvive ==
  Done("char") =>
    IF UcharIsvalid(job.uchar)
    THEN /\ decoded.utf8 = [count |-> Len(coded.utf8), uchar |-> job.uchar] /\ decoded.start = 2
         /\ coded.utf16 # <<>> => /\ decoded.utf16 = [count |-> Len(coded.utf16), uchar |-> job.uchar]
                                  /\ decoded.flipped = decoded.utf16
         /\ job.uchar < 1048576 => coded.utf16 # <<>>
    ELSE coded.utf8 = <<>> /\ coded.utf16 = <<>>

\* A string is valid exactly when it is the encoding of its own characters: no longer
\* form, cut sequence, surrogate or number beyond the last character gets through.
StringsChecked == Done("string") => (decoded.valid <=> 0 \notin ToSet(coded) /\ decoded.again = job.bytes)

\* The lines of a file are those of the text, whatever the encoding, the ends of the
\* lines and the size of the reader's buffer; each ends in one CR.
LOCAL OneEnd(s) ==
  LET kept == {k \in DOMAIN s : ~(s[k] = 10 /\ k > 1 /\ s[k - 1] = 13)}
      at[n \in 1..Cardinality(kept)] == Min(kept \ {at[m] : m \in 1..(n - 1)})
  IN  [n \in 1..Cardinality(kept) |-> IF s[at[n]] = 10 THEN 13 ELSE s[at[n]]]
LinesReadBack ==
  Done("text") =>
    /\ Concat(decoded) = OneEnd(Utf8(Concat(job.lines)))
    /\ \A k \in DOMAIN decoded : /\ 13 \notin ToSet(SubSeq(decoded[k], 1, Len(decoded[k]) - 1))
                                 /\ Len(decoded[k]) = job.n \/ k = Len(decoded) \/ Last(decoded[k]) = 13

\* Both digests see the message once, in order, closed by a one bit, zeros and the
\* length in bits, however the caller cut it up; counters that wrap carry.
LOCAL PaddedTo(n, m) == m \o <<128>> \o [k \in 1..((2 * BlockBytes - 1 - n - (Len(m) % BlockBytes)) % BlockBytes) |-> 0]
LOCAL Flat(block, n) == [k \in 1..n |-> block[k - 1]]
DigestsSeeMessage ==
  job.kind = "digest" /\ stage # "start" =>
    LET m    == job.message
        last == coded.md5[Len(coded.md5)]
    IN  /\ Concat(Each(LAMBDA b : Flat(b, BlockBytes), coded.sha1))
             = PaddedTo(8, m) \o [k \in 1..8 |-> IF k < 6 THEN 0 ELSE ((8 * Len(m)) \div 256^(8 - k)) % 256]
        /\ Concat(Each(LAMBDA b : Flat(b, BlockBytes), SubSeq(coded.md5, 1, Len(coded.md5) - 1)))
             \o Flat(last.bytes, 56) = PaddedTo(8, m)
        /\ last.length[1] + last.length[2] * 2^CounterBits = 8 * Len(m)

\* The rounds compute SHA-1: after each, the words that stay in place, taken from where
\* the next round finds them, are the variables that move in the standard, and at the end
\* both have added the same to the state.
RoundsAreSha1 ==
  job.kind = "rounds" /\ stage = "coded" =>
    LET p == coded.mine IN
    /\ \A k \in 1..5 : coded.fips.v[k] = p.d[((p.i - (IF p.i = 81 THEN 1 ELSE 0) + 5 - k) % 5) + 1]
    /\ coded.fips.h = Backwards(p.st)

\* The steps compute MD5: after each, the words that stay in place are the variables that
\* move in the standard, and at the end both have added the same to the state.
RoundsAreMd5 ==
  job.kind = "rounds" /\ stage = "coded" =>
    LET p == coded.md5
        n == p.i - (IF p.i = 65 THEN 1 ELSE 0)
    IN  /\ \A k \in 1..4 : coded.rfc.d[k] = p.d[((k + 3 - (n % 4)) % 4) + 1]
        /\ coded.rfc.buf = p.buf

\* The CRC of a hunk does not depend on how it was fed, and no damage within sixteen
\* bits goes unnoticed.
CrcCatchesBursts == Done("crc") => coded = decoded.whole /\ coded \notin decoded.hit

\* A hash is read from text exactly when the text has enough digits, in capitals too, and
\* prints as them.
LOCAL Lower(c) == CASE c = "A" -> "a" [] c = "F" -> "f" [] OTHER -> c
HexReadBack ==
  Done("hex") =>
    LET good == Len(job.text) >= 4 /\ \A k \in 1..4 : job.text[k] # "g" IN
    /\ coded.hash.ok = good /\ coded.number.ok = good
    /\ good => /\ decoded = [k \in 1..4 |-> Lower(job.text[k])]
               /\ coded.number.raw = coded.hash.raw[1] * 256 + coded.hash.raw[2]

\* Decoding into configured buffers gives the pieces of raw decoding, samples in the
\* order of the machine, or says which buffer is too small.
PiecesMatchRaw ==
  Done("frame") /\ decoded.error = "NONE" =>
    LET d == decoded.whole
        p == decoded.pieces
    IN  \/ p.error \in {"VIDEO_TOO_LARGE", "AUDIO_TOO_LARGE", "METADATA_TOO_LARGE"} /\ job.small
        \/ /\ p.error = "NONE" /\ ~job.small
           /\ p.meta = d.meta
           /\ job.config.width > 0 => p.video = SwappedPixels(d.video, TRUE)
           /\ \A c \in DOMAIN p.audio : c \in job.config.channels => p.audio[c] = Swapped(d.audio[c], TRUE)

-----------------------------------------------------------------------------
(* What the run checks *)

\* No coder loses anything: bits, Huffman trees in both forms, hunks through any group of
\* codecs, frames of audio and video whole and in pieces, and the map of a v5 file.
CodersLossless == BitsRoundTrip /\ TreesRoundTrip /\ HunkLossless /\ FrameLossless /\ PiecesMatchRaw /\ MapRoundTrip

\* Text comes back as it was: characters in every encoding, lines of files with any mark
\* and line end, tokens of a sheet, times of frames and hashes in hexadecimal.
TextTrue == CharsSurvive /\ StringsChecked /\ LinesReadBack /\ TokensRoundTrip /\ TimesNameFrames /\ HexReadBack

\* Check values are what their standards say and notice damage: SHA-1 and MD5 over the
\* whole message, the CRC of a hunk, the codes of a CD sector.
ChecksTrue == DigestsSeeMessage /\ RoundsAreSha1 /\ RoundsAreMd5 /\ CrcCatchesBursts /\ EccDetects
=============================================================================
