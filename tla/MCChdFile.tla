----------------------------- MODULE MCChdFile -----------------------------
EXTENDS ChdFile

MCUses == [p |-> {"a", "v3", "v4b"}, c |-> {"b", "v4", "bad", "v2", "zip"}]
MCTags == [p |-> {"GDDD"}, c |-> {}]
MCContents == {<<0, 1>>, <<1, 0>>}
MCBest == [c \in MCContents |-> IF c = <<0, 1>> THEN 1 ELSE -1]
LOCAL Two == <<"zlib", "lzma", "none", "none">>
MCCompressions == [p |-> {Two, <<"zlib", "none", "avhu", "none">>, <<"zlib", "bogus", "none", "none">>},
                   c |-> {Two, <<"none", "none", "none", "none">>}]

\* A version 3 file with one hunk of each kind it can have alone, and a version 4 file
\* over it.
LOCAL Old(version, type, offset, length, crc, nocrc) ==
  [type |-> type, offset |-> offset, length |-> length, crc |-> crc, nocrc |-> nocrc]
LOCAL Header(version, compression, map, blocks, held, parentsha1, meta) ==
  [version |-> version, signature |-> TRUE, sizeok |-> TRUE, compression |-> compression, map |-> map, mapped |-> TRUE, blocks |-> blocks,
   end |-> 20, sha1 |-> ComputeOverallSha1(version, RawSha1(held), meta), rawsha1 |-> IF version = 3 THEN Null ELSE RawSha1(held),
   parentsha1 |-> parentsha1, meta |-> meta]
LOCAL Block(at, codec, data) == (at :> [codec |-> codec, data |-> data, len |-> 1])
LOCAL V3 == Header(3, 1, <<Old(3, "compressed", 10, 1, CrcOf(<<0, 1>>), FALSE), Old(3, "mini", 0, 0, CrcOf(<<0, 0>>), FALSE)>>,
                   Block(10, "zlib", <<0, 1>>), <<<<0, 1>>, <<0, 0>>>>, Null, ("CHT2" :> 1))
LOCAL V4 == Header(4, 2, <<Old(4, "parent", 0, 0, 0, FALSE), Old(4, "uncompressed", 12, 2, CrcOf(<<1, 0>>), FALSE)>>,
                   Block(12, "raw", <<1, 0>>), <<<<0, 1>>, <<1, 0>>>>, V3.sha1, ("GDDD" :> 1) @@ ("NOTE" :> 1))
LOCAL V4b == Header(4, 3, <<Old(4, "compressed", 10, 1, 0, TRUE), Old(4, "self", 0, 0, 0, FALSE)>>,
                    Block(10, "avhu", <<1, 0>>), <<<<1, 0>>, <<1, 0>>>>, Null, <<>>)
MCOldFiles == [v3 |-> [file |-> V3, truth |-> <<<<0, 1>>, <<0, 0>>>>],
               v4 |-> [file |-> V4, truth |-> <<<<0, 1>>, <<1, 0>>>>],
               v4b |-> [file |-> V4b, truth |-> <<<<1, 0>>, <<1, 0>>>>],
               bad |-> [file |-> [V4 EXCEPT !.compression = 4], truth |-> V4.sha1[2][2]],
               v2 |-> [file |-> [V3 EXCEPT !.version = 2], truth |-> V4.sha1[2][2]],
               zip |-> [file |-> [V3 EXCEPT !.signature = FALSE], truth |-> V4.sha1[2][2]]]
\* Maps of these files, from their first block on, come back.
ASSUME MCMapsComeBack == MapsComeBack({0, 1, 2, 4, 4 + FileBytes - 1, 4 + FileBytes})
=============================================================================
