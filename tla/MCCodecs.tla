------------------------------ MODULE MCCodecs ------------------------------
EXTENDS Codecs

LOCAL Cell(n) == ByteCell(n)
LOCAL Const(n, v) == [k \in 1..n |-> Cell(v)]
LOCAL Noise(n) == [k \in 1..n |-> Cell((k * k + 1) % 7)]
LOCAL Quiet(n) == [k \in 1..n |-> Cell(IF k % 2 = 0 THEN 0 ELSE (k * k) % 7)]
LOCAL Loud(n) == [k \in 1..n |-> Cell(IF k % 2 = 1 THEN 0 ELSE (k * k) % 7)]
NoAv == [found |-> FALSE]

\* Widths from 1 to 24 bits that leave the accumulator in every state.
MCBits == {[kind |-> "bits", room |-> 40, widths |-> <<a, b, c, 24, d>>, values |-> <<5592405, 16777215, 1, 11184810, 3>>] :
             a \in {1, 7, 8, 23}, b \in {1, 9, 16, 24}, c \in {3, 8, 17}, d \in {1, 8, 24}}

\* Even, skewed and sparse histograms, also too deep for the maximum.
MCTrees ==
  {[kind |-> "tree", room |-> 60, codes |-> 0..15, maxbits |-> m, source |-> s] :
     m \in {4, 8}, s \in {<<0>>, <<1, 2>>, <<15, 15, 15, 3>>, [k \in 1..16 |-> k - 1], [k \in 1..24 |-> (k * k) % 16],
                          [k \in 1..31 |-> IF k = 31 THEN 5 ELSE IF k > 28 THEN 4 ELSE IF k > 24 THEN 3 ELSE IF k > 16 THEN 2 ELSE 1],
                          [k \in 1..63 |-> CHOOSE e \in 0..5 : 2^e <= k /\ k < 2^(e + 1)]}}

\* Frames of a CD: data with sync and right or wrong ECC, or audio, with or without subcode.
LOCAL Sector(kind, data) ==
  LET s == <<Cell(IF kind = "audio" THEN 5 ELSE 1)>> \o data \o <<Cell(0)>> IN
  IF kind = "mode1" THEN EccGenerate(s) ELSE IF kind = "bad" THEN [s EXCEPT ![SectorData] = Cell((Ecc(s)[2] + 1) % Values)] ELSE s
LOCAL CdFrames == {Sector(k, d) \o c : k \in {"mode1", "bad", "audio"},
                                       d \in {Const(6, 0), Const(6, 3), Noise(6), Quiet(6)}, c \in {Const(4, 0), Noise(4)}}
LOCAL Audio == {d \o c : d \in {Const(8, 0), Noise(8), Quiet(8), Loud(8)}, c \in {Const(4, 0), Noise(4)}}
LOCAL CdHunks == {f \o g : f \in CdFrames, g \in {Sector("mode1", Noise(6)) \o Const(4, 0), Const(12, 2)}}
                 \cup {f \o g : f, g \in Audio}
LOCAL PlainHunks == {a \o b : a, b \in {Const(12, 0), Noise(12), Quiet(12), Loud(12)}}
LOCAL HunkJob(types, hunk, left) == [kind |-> "hunk", types |-> types, hunk |-> hunk, av |-> NoAv, left |-> left]
\* A codec that throws has written nothing, a few bytes, or as many as a hunk has.
MCHunks ==
  {HunkJob(t, h, 24) :
     t \in {<<"cdlz", "cdzl", "cdfl", "none">>, <<"cdzs", "none", "cdfl", "cdzs">>, <<"cdfl">>, <<"cdlz">>}, h \in CdHunks}
  \cup {HunkJob(t, h, n) : t \in {<<"lzma", "zlib", "huff", "flac">>, <<"flac", "zstd">>, <<"zstd", "flac", "lzma", "zlib">>},
                           h \in PlainHunks, n \in {0, 3, 24}}
  \cup {HunkJob(t, h, 24) : t \in {<<"lzma">>, <<"huff">>, <<"flac">>, <<"none", "avhu">>}, h \in PlainHunks}
  \cup {HunkJob(t, Const(13, 1), 0) : t \in {<<"zlib", "cdzl">>, <<"cdxx">>}}

\* Frames of video with runs that end inside a row, at its end, and go on in the next,
\* sound of one or two channels, and metadata or none.
LOCAL Video(n, m) == [k \in 1..72 |-> Cell(IF k = m THEN 2 ELSE IF k > n THEN 3 ELSE 0)]
LOCAL Videos == {Video(n, m) : n \in {0, 7, 36, 40, 60}, m \in {0, 34, 38}}
LOCAL Sound(v) == [k \in 1..12 |-> <<v>>]
LOCAL Tone == [k \in 1..12 |-> <<<<k % 4, 0>>>>]
LOCAL Raw(v, a, m) == AssembleData(18, 2, a, m, v)[2]
LOCAL FrameJob(raw, huffman, config, small) ==
  [kind |-> "frame", raw |-> raw, huffman |-> huffman, config |-> config, small |-> small]
LOCAL Fits == Config(18, 2, {1}, 12, 2)
MCFrames ==
  {FrameJob(Raw(v, <<Sound(<<1, 2>>)>>, <<>>), FALSE, Fits, FALSE) : v \in Videos}
  \cup {FrameJob(Raw(Video(7, 38), a, m), h, Fits, FALSE) :
          a \in {<<Sound(<<0, 0>>)>>, <<Sound(<<2, 1>>), Sound(<<0, 3>>)>>, <<Tone>>}, m \in {<<>>, Noise(2)}, h \in BOOLEAN}
  \cup {FrameJob(Raw(Video(7, 38), <<Sound(<<0, 0>>)>>, Noise(2)), FALSE, c, s[2]) :
          s \in {<<Config(18, 1, {1}, 12, 2), TRUE>>}, c \in {Config(18, 1, {1}, 12, 2), Config(18, 2, {1}, 11, 2), Config(18, 2, {}, 0, 1)}}
  \cup {FrameJob(Raw(Video(7, 38), <<Sound(<<0, 0>>), Tone>>, Noise(2)), FALSE, Config(0, 0, {2}, 12, 4), FALSE)}

\* One of them as a hunk, padded, with its metadata.
LOCAL Av(fields, rate) == [found |-> TRUE, fields |-> fields, fps |-> 1, fpsfrac |-> 0, width |-> 18, height |-> 2,
                           interlaced |-> 0, channels |-> 1, rate |-> rate]
MCAv == {[kind |-> "hunk", types |-> <<"avhu">>, hunk |-> Raw(Video(7, 38), <<Sound(<<2, 1>>)>>, <<>>) \o pad, av |-> av, left |-> 0] :
           pad \in {Const(4, 0), Const(4, 1)}, av \in {Av(7, 12), Av(6, 12), Av(7, 15), NoAv}}

\* Maps as the compressor leaves them: a list of kinds of hunks, blocks one after another.
\* A kind is <<type, length or reference>>.
LOCAL MapOf(kinds) ==
  Fold(LAMBDA m, k : Append(m, IF k[1] \in {SELF, PARENT} THEN Entry(k[1], 0, k[2], 0)
                               ELSE Entry(k[1], k[2], IF m = <<>> THEN 124 ELSE
                                            LET b == {j \in DOMAIN m : m[j].comp <= NONE} IN
                                            IF b = {} THEN 124 ELSE m[Max(b)].offset + m[Max(b)].length,
                                          (Len(m) * 7919 + 40000) % 65536)), <<>>, kinds)
LOCAL Rep(k, n) == [i \in 1..n |-> k]
LOCAL Bases == {<<<<0, 9>>, <<0, 300>>>>, <<<<2, 1>>, <<NONE, 4096>>, <<1, 16>>>>, <<<<NONE, 4096>>, <<NONE, 4096>>>>}
LOCAL Tails == {<<>>, <<<<SELF, 0>>, <<SELF, 1>>, <<SELF, 1>>, <<SELF, 0>>>>,
                <<<<PARENT, 12>>, <<PARENT, 12>>, <<PARENT, 16>>, <<PARENT, 17>>, <<PARENT, 5>>, <<PARENT, 9>>>>,
                Rep(<<0, 8>>, 3), Rep(<<SELF, 0>>, 4), Rep(<<3, 255>>, 19), Rep(<<3, 256>>, 20), Rep(<<NONE, 4096>>, 38)}
LOCAL MapJob(kinds) == [kind |-> "map", rawmap |-> MapOf(kinds), uph |-> 4, hunkbytes |-> 4096, beyond |-> 0]
MCMaps == {MapJob(b \o t \o u) : b \in Bases, t \in Tails, u \in {<<>>, <<<<0, 8>>>>, <<<<SELF, 2>>, <<PARENT, 40>>, <<NONE, 4096>>>>}}

\* Sectors of mode 1 and 2, and the bytes that are changed: sync, header, data, codes.
LOCAL CdSector(mode) == [k \in 0..2351 |-> IF k \in {0, 11} THEN 0 ELSE IF k < 12 THEN 255 ELSE IF k = 15 THEN mode ELSE (k * k + 7 * k) % 256]
MCSectors == {[kind |-> "sector", sector |-> CdSector(m), hits |-> {5, 12, 14, 16, 1200, 2075, 2076, 2248, 2300, 2351}] : m \in {1, 2}}
MCTimes == {[kind |-> "time", lba |-> l] : l \in {0, 1, 74, 75, 76, 149, 150, 4499, 4500, 33075, 359999, 449999}}
MCLines == {[kind |-> "line", words |-> <<a, b>>] :
              a, b \in {<<"a">>, <<"a", " ", "b">>, <<"a", "'", "b">>, <<"a", "\"", " ">>, <<" ", "'">>}}

\* Characters at the limits of each length of encoding, and what lies between and beyond.
MCChars == {[kind |-> "char", uchar |-> c] :
              c \in {1, 65, 127, 128, 233, 2047, 2048, 8364, 55295, 55296, 57343, 57344, 65533, 65535, 65536, 128512,
                     1048575, 1048576, 1114111, 1114112}}

\* Strings of bytes at the limits of every class of bytes, characters and halves of them.
LOCAL Bytes == {0, 65, 127, 128, 143, 144, 159, 160, 191, 192, 193, 194, 224, 237, 239, 240, 244, 248, 252, 255}
MCStrings == {[kind |-> "string", bytes |-> b] :
                b \in {<<x, y>> : x, y \in Bytes} \cup {<<x, y, 128>> : x \in {194, 224, 237, 239}, y \in Bytes}
                      \cup {<<x, y, 128, z>> : x \in {240, 244, 248, 255}, y \in Bytes, z \in {65, 128}}
                      \cup {<<248, 136, 128, 128, 128>>, <<252, 132, 128, 128, 128, 191>>, <<252, 128, 128, 128, 128, 191>>, <<226, 130, 172, 65>>}}

\* Texts of one to three characters with every end of line; a CR that is not followed by
\* a character of several bytes.
LOCAL Letters == {65, 10, 13, 233, 8364, 128512}
LOCAL Texts == {<<a, b, c>> \in Letters \X Letters \X Letters : ~(a = 13 /\ b > 127) /\ ~(b = 13 /\ c > 127)}
LOCAL TextJob(lines, type, order, nobom, n) == [kind |-> "text", lines |-> lines, type |-> type, order |-> order, nobom |-> nobom, n |-> n]
MCTexts ==
  {TextJob(<<<<65>>, t>>, "puts", "BE", FALSE, n) : t \in Texts, n \in {2, 9}}
  \cup {TextJob(<<t>>, type, order, TRUE, 5) : t \in Texts, type \in {"16", "32"}, order \in {"BE", "LE"}}
  \cup {TextJob(<<t>>, "puts", "BE", TRUE, n) : t \in {x \in Texts : \A k \in 1..3 : x[k] < 128}, n \in {1, 9}}

\* Messages that end around the end of a block and of the padding, in pieces of all kinds.
MCDigests == {[kind |-> "digest", message |-> [k \in 1..n |-> (k * k + n) % 256], piece |-> p] :
                n \in {0, 1, 55, 56, 63, 64, 65, 119, 120, 128, 300}, p \in {7, 63, 64, 65, 255}}
MCRounds == {[kind |-> "rounds", block |-> [k \in 1..16 |-> <<(s * (k + 3) * 4099) % 65536, (s * 7919 + k * 40503) % 65536>>]] : s \in 0..2}

\* Damage of up to two neighbouring bytes.
LOCAL Guarded == <<0, 255, 18, 52, 0, 7>>
LOCAL Hit(k, x, y) == [Guarded EXCEPT ![k] = ByteXor(@, x), ![k + 1] = ByteXor(@, y)]
MCCrcs == {[kind |-> "crc", data |-> Guarded, cut |-> c,
            damaged |-> {Hit(k, x, y) : k \in 1..5, x \in {1, 16, 33, 128, 255}, y \in {0, 1, 16, 33, 128, 255}}] : c \in {0, 1, 4, 6}}
MCHex == {[kind |-> "hex", text |-> t] :
            t \in {<<"0", "9", "a", "f">>, <<"A", "F", "f", "0">>, <<"1", "g", "2", "3">>, <<"1", "2", "3">>, <<"7", "a", "1", "0", "g">>}}

MCJobs == MCChars \cup MCStrings \cup MCTexts \cup MCDigests \cup MCRounds \cup MCCrcs \cup MCHex \cup MCSectors \cup MCTimes \cup MCLines \cup {[kind |-> "alloc"]} \cup MCBits \cup MCTrees \cup MCHunks \cup MCFrames \cup MCAv \cup MCMaps
=============================================================================
