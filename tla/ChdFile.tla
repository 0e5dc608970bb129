------------------------------ MODULE ChdFile ------------------------------
(***************************************************************************)
(* chd_file as a whole (lib/util/chd.cpp): files of versions 3, 4 and 5,   *)
(* created, filled, finished, opened with or without their parent, read.   *)
(*                                                                         *)
(* disk has the files, chd the chd_file objects.  A hunk is a sequence of  *)
(* HunkBytes bytes; a SHA-1 is what it was computed from; the chain of     *)
(* metadata is a function from tags to values (module Metadata has the     *)
(* chain, HunkStore the cache and the writes of uncompressed files).       *)
(*                                                                         *)
(* All files have hunks of one size, HunkBytes.  create with a parent      *)
(* takes any size and compares unit sizes only (2446-2449); the crate's    *)
(* own caller gives the parent's (hd.rs:366).  The differences the crate   *)
(* can fill are uncompressed, and for a hunk they do not have read_hunk    *)
(* has the parent write its hunk of that number (1100): one of another     *)
(* size leaves part of the buffer as it was, or runs over its end.         *)
(***************************************************************************)
EXTENDS V5Map

CONSTANTS Objs, Files, Uses,    \* the files an object is used for
          HunkCount, HunkBytes, Contents,
          Grain,                \* bytes in the file for each byte of a hunk here
          Best,                 \* what find_best_compressor says of each content
          Compressions,         \* lists of codecs an object gives to create
          Units,                \* unit sizes given to create
          Tags,                 \* metadata an object writes: "GDDD", "CHT2", "NOTE", ...
          Beyond,               \* what may follow the map's buffer in memory: bits
          Fragile,              \* files that may be damaged
          Roots,                \* objects that make files of their own; the others, differences
          OldFiles,             \* files written by earlier versions, by name
          UncompressedParents   \* files are also made over uncompressed ones

VARIABLES disk, chd,
          truth,      \* history: what was stored in each hunk of each file
          damaged,    \* history: the files with a block that has changed on the disk
          misled      \* history: the files filled while their parent could be misread
vars == <<disk, chd, truth, damaged, misled>>

Null == <<"null">>      \* sha1_t::null
Nobody == "nobody"
Zero == [k \in 1..HunkBytes |-> 0]
Hunks == 1..HunkCount
FileBytes == HunkBytes * Grain
HeaderBytes == 4
KnownCodecs == {"zlib", "lzma", "avhu"}
FrameSize == 1          \* cdrom_file::FRAME_SIZE
NoFile == [version |-> 0]

Ok(x) == [error |-> "NONE", data |-> x]
Err(e) == [error |-> e, data |-> <<>>]
RawSha1(contents) == <<"raw", contents>>
CrcOf(data) == FromBits(data) + 1

\* A compressed hunk takes a byte less than an uncompressed one, and some; CRCs tell the
\* contents apart.
ASSUME ChdAssumption ==
  /\ {HunkCount, HunkBytes, Grain} \cup Units \subseteq Nat \ {0} /\ FileBytes > 1
  /\ Contents \subseteq [1..HunkBytes -> Nat] /\ \A c, d \in Contents : CrcOf(c) = CrcOf(d) => c = d
  /\ Uses \in [Objs -> SUBSET Files] /\ Fragile \subseteq Files /\ Nobody \notin Objs \cup Files
  /\ Best \in [Contents -> {-1, 0, 1}]
  /\ \A o \in Objs : Compressions[o] \subseteq [1..4 -> STRING]
  /\ DOMAIN OldFiles \subseteq Files /\ UncompressedParents \in BOOLEAN

-----------------------------------------------------------------------------
(* The object *)

\* close, and the constructor
Closed == [file |-> Nobody, parent |-> Nobody, missing |-> FALSE, version |-> 5, writes |-> FALSE,
           compression |-> <<>>, unit |-> 0, rawmap |-> <<>>, fresh |-> FALSE]

Opened(o) == chd[o].file # Nobody
Compressed(list) == list[1] # "none"
Parents == {Nobody} \cup {o \in Objs : Opened(o)}
InUse(f) == \E o \in Objs : chd[o].file = f
NoWriter == \A o \in Objs : ~chd[o].fresh      \* files are written one after the other
UnitsPerHunk(x) == HunkBytes \div x.unit

Sha1(o) == disk[chd[o].file].sha1

\* compute_overall_sha1: the raw hash and those of the checksummed metadata, sorted.
ComputeOverallSha1(version, raw, meta) ==
  IF version < 4 THEN raw ELSE <<"all", raw, [t \in DOMAIN meta \ {"NOTE"} |-> meta[t]]>>

\* metadata_update_hash
UpdatedHash(f) ==
  IF f.version < 4 \/ ~Compressed(f.compression) THEN f.sha1
  ELSE ComputeOverallSha1(f.version, f.rawsha1, f.meta)

-----------------------------------------------------------------------------
(* Headers *)

\* guess_unitbytes
GuessUnitbytes(meta) ==
  IF "GDDD" \in DOMAIN meta THEN meta["GDDD"]
  ELSE IF DOMAIN meta \cap {"CHCD", "CHTR", "CHT2", "CHGT", "CHGD"} # {} THEN FrameSize
  ELSE HunkBytes

\* The codec the compression of an old header stands for.
OldCodec(f) == <<"none", "zlib", "zlib", "avhu">>[f.compression + 1]

\* parse_v3_header, parse_v4_header: the compression is a number.
ParseOld(f) ==
  IF ~f.sizeok THEN Err("INVALID_FILE")
  ELSE IF f.compression \notin 0..3 THEN Err("UNKNOWN_COMPRESSION")
  ELSE Ok([Closed EXCEPT !.version = f.version, !.unit = GuessUnitbytes(f.meta),
                         !.compression = <<OldCodec(f), "none", "none", "none">>])

\* parse_v5_header
ParseV5(f) ==
  IF ~f.sizeok THEN Err("INVALID_FILE")
  ELSE Ok([Closed EXCEPT !.unit = f.unit, !.compression = f.compression, !.writes = ~Compressed(f.compression)])

Parse(f) == IF ~f.signature THEN Err("INVALID_FILE")
            ELSE IF f.version \in {3, 4} THEN ParseOld(f)
            ELSE IF f.version = 5 THEN ParseV5(f)
            ELSE Err("UNSUPPORTED_VERSION")

\* create_open_common: the codecs, then the map.
LoadMap(f, x) ==
  IF \E k \in DOMAIN x.compression : x.compression[k] \notin KnownCodecs \cup {"none"} THEN Err("UNKNOWN_COMPRESSION")
  ELSE IF x.version < 5 \/ ~Compressed(x.compression) THEN Ok([x EXCEPT !.rawmap = f.map])
  ELSE IF ~f.mapped THEN Ok([x EXCEPT !.rawmap = [h \in Hunks |-> Entry(Unwritten, 0, 0, 0)]])
  ELSE LET loaded(d) == IF d.error # "NONE" THEN Err(d.error) ELSE Ok([x EXCEPT !.rawmap = d.rawmap]) IN
       loaded(DecompressMap(f.map, HunkCount, FileBytes, UnitsPerHunk(x)))

\* Mutant: any parent will do.
WithParent_Unchecked(f, x, parent) ==
  IF f.parentsha1 # Null THEN Ok(IF parent = Nobody THEN [x EXCEPT !.missing = TRUE] ELSE [x EXCEPT !.parent = parent])
  ELSE IF parent # Nobody THEN Err("invalid_argument") ELSE Ok(x)

\* open_common: a parent if and only if the file names one, and the right one.
WithParent(f, x, parent) ==
  IF f.parentsha1 # Null
  THEN IF parent = Nobody THEN Ok([x EXCEPT !.missing = TRUE])
       ELSE IF Sha1(parent) # f.parentsha1 THEN Err("INVALID_PARENT")
       ELSE Ok([x EXCEPT !.parent = parent])
  ELSE IF parent # Nobody THEN Err("invalid_argument") ELSE Ok(x)

\* The steps of open_common, each of which may throw.
Then(r, f(_)) == IF r.error # "NONE" THEN r ELSE f(r.data)
OpenCommon(f, writeable, parent) ==
  LET writable(x) == IF writeable /\ (f.version < 5 \/ ~x.writes) THEN Err("FILE_NOT_WRITEABLE") ELSE Ok(x)
      linked(x) == WithParent(f, x, parent)
      loaded(x) == LoadMap(f, x)
  IN  Then(Then(Then(Parse(f), writable), linked), loaded)

-----------------------------------------------------------------------------
(* Creating *)

\* What create_common refuses, in its order.
CreateError(compression, unit, parent) ==
  LET none == {k \in DOMAIN compression : compression[k] = "none"}
      bad == {k \in DOMAIN compression : compression[k] # "none"
                 /\ (compression[k] \notin KnownCodecs \/ \E j \in none : j < k)}
  IN  IF HunkBytes % unit # 0 THEN "invalid_argument"
      ELSE IF parent # Nobody /\ chd[parent].unit # unit THEN "invalid_argument"
      ELSE IF bad = {} THEN "NONE"
      ELSE IF \E j \in none : j < Min(bad) THEN "invalid_argument" ELSE "UNKNOWN_COMPRESSION"

NewHeader(compression, unit, parent) ==
  [version |-> 5, signature |-> TRUE, sizeok |-> TRUE, compression |-> compression, unit |-> unit,
   map |-> IF Compressed(compression) THEN <<>> ELSE [h \in Hunks |-> 0],
   mapped |-> ~Compressed(compression),     \* the map offset is not 0
   blocks |-> <<>>, end |-> HeaderBytes, sha1 |-> Null, rawsha1 |-> Null,
   parentsha1 |-> IF parent = Nobody THEN Null ELSE Sha1(parent), meta |-> <<>>]

\* create by name: on an error the object is closed and the file removed.  Names are
\* new.  The caller gives a difference the hunk size of its parent (see above).
Create(o, f, compression, unit, parent) ==
  LET new == NewHeader(compression, unit, parent)
      object(x) == [x EXCEPT !.file = f, !.parent = parent, !.writes = TRUE, !.fresh = TRUE]
  IN  /\ ~Opened(o) /\ disk[f] = NoFile /\ NoWriter
      /\ parent \in (IF o \in Roots THEN {Nobody} ELSE Parents \ {Nobody, o})
      /\ parent # Nobody => (UncompressedParents \/ Sha1(parent) # Null)
      /\ IF CreateError(compression, unit, parent) # "NONE"
         THEN UNCHANGED <<disk, chd, truth>>
         ELSE /\ disk' = [disk EXCEPT ![f] = new]
              /\ chd' = [chd EXCEPT ![o] = object(LoadMap(new, ParseV5(new).data).data)]
              /\ truth' = [truth EXCEPT ![f] = IF parent = Nobody THEN [h \in Hunks |-> Zero] ELSE truth[chd[parent].file]]
      /\ UNCHANGED <<damaged, misled>>

\* open, with a parent object or none.  A file the C library cannot open is not there.
Open(o, f, writeable, parent) ==
  LET object(r) == IF r.error = "NONE" THEN [r.data EXCEPT !.file = f, !.fresh = writeable] ELSE Closed IN
  /\ ~Opened(o) /\ ~InUse(f) /\ disk[f] # NoFile /\ NoWriter /\ parent \in Parents \ {o}
  /\ chd' = [chd EXCEPT ![o] = object(OpenCommon(disk[f], writeable, parent))]
  /\ UNCHANGED <<disk, truth, damaged, misled>>

\* close; also what remains of a process that stops.  The caller keeps a parent open
\* as long as its children are.
Close(o) ==
  /\ Opened(o) /\ \A c \in Objs : chd[c].parent # o
  /\ chd' = [chd EXCEPT ![o] = Closed]
  /\ UNCHANGED <<disk, truth, damaged, misled>>

-----------------------------------------------------------------------------
(* Reading *)

\* The block at an offset, as it is read: what a codec finds there, or raw bytes.
BlockAt(f, offset) ==
  IF offset \in DOMAIN f.blocks THEN f.blocks[offset] ELSE [codec |-> Nobody, data |-> Zero]
Decode(f, offset, codec) ==
  IF BlockAt(f, offset).codec = codec THEN Ok(BlockAt(f, offset).data) ELSE Err("DECOMPRESSION_ERROR")
Checked(r, crc, nocrc) ==
  IF r.error = "NONE" /\ ~nocrc /\ CrcOf(r.data) # crc THEN Err("DECOMPRESSION_ERROR") ELSE r

\* As many bytes as a hunk has, after the first skip of one hunk and into the next.
Window(a, b, skip) ==
  [k \in 1..HunkBytes |-> IF skip + k <= HunkBytes THEN a[skip + k] ELSE b[skip + k - HunkBytes]]
WindowOf(contents, at) ==
  Window(contents[at \div HunkBytes + 1], contents[at \div HunkBytes + 2], at % HunkBytes)
Across(r, s, skip) ==
  IF r.error # "NONE" THEN r ELSE IF s.error # "NONE" THEN s ELSE Ok(Window(r.data, s.data, skip))

\* Mutant: no check of the data read.
ReadCompressed_NoCrc(x, f, e) ==
  IF e.comp = NONE THEN Ok(BlockAt(f, e.offset).data) ELSE Decode(f, e.offset, x.compression[e.comp + 1])

ReadCompressed(x, f, e) ==
  Checked(IF e.comp = NONE THEN Ok(BlockAt(f, e.offset).data) ELSE Decode(f, e.offset, x.compression[e.comp + 1]),
          e.crc, FALSE)

\* read_hunk for every version; read_bytes of the parent for a hunk that starts at any
\* of its units.  reads is what the hunks it calls itself for read as.
ReadStep(reads, o, h) ==
  LET x == chd[o]
      f == disk[x.file]
      e == x.rawmap[h]
      parent(g) == IF x.missing THEN Err("REQUIRES_PARENT") ELSE reads[<<x.parent, g>>]
      skip == (e.offset * chd[x.parent].unit) % HunkBytes
      first == (e.offset * chd[x.parent].unit) \div HunkBytes + 1
  IN  IF ~Opened(o) THEN Err("NOT_OPEN")
      ELSE IF h \notin Hunks THEN Err("HUNK_OUT_OF_RANGE")
      ELSE IF x.version < 5
      THEN CASE e.type = "compressed"   -> Checked(Decode(f, e.offset, x.compression[1]), e.crc, e.nocrc)
             [] e.type = "uncompressed" -> Checked(Ok(BlockAt(f, e.offset).data), e.crc, e.nocrc)
             [] e.type = "mini"         -> Checked(Ok([k \in 1..HunkBytes |-> e.offset]), e.crc, e.nocrc)
             [] e.type = "self"         -> reads[<<o, e.offset + 1>>]
             [] e.type = "parent"       -> parent(e.offset + 1)
             [] OTHER                   -> Err("INVALID_DATA")
      ELSE IF ~Compressed(x.compression)
      THEN IF e # 0 THEN Ok(BlockAt(f, e).data)
           ELSE IF x.missing \/ x.parent # Nobody THEN parent(h) ELSE Ok(Zero)
      ELSE CASE e.comp \in 0..NONE -> ReadCompressed(x, f, e)
             [] e.comp = SELF      -> reads[<<o, e.offset + 1>>]
             [] e.comp = PARENT    ->
                  IF x.missing THEN Err("REQUIRES_PARENT")
                  ELSE IF skip = 0 THEN parent(first)
                  ELSE Across(parent(first), parent(first + 1), skip)
             [] OTHER              -> Err("INVALID_DATA")

Reads[q \in Objs \X Nat] == ReadStep(Reads, q[1], q[2])
ReadHunk(o, h) == Reads[<<o, h>>]

\* Mutant: the unit taken for a hunk.
ParentHunkOf_Unit(x, e) == e.offset + 1

ParentHunkOf(x, e) == e.offset \div UnitsPerHunk(chd[x.parent]) + 1

\* codec_process_hunk: the data goes to the codec's buffers, so only a codec will do.
ProcessStep(processes, o, h) ==
  LET x == chd[o]
      f == disk[x.file]
      e == x.rawmap[h]
      parent(g) == IF x.missing THEN Err("REQUIRES_PARENT") ELSE processes[<<x.parent, g>>]
  IN  IF ~Opened(o) THEN Err("NOT_OPEN")
      ELSE IF h \notin Hunks THEN Err("HUNK_OUT_OF_RANGE")
      ELSE IF x.version < 5
      THEN CASE e.type = "compressed"               -> Decode(f, e.offset, x.compression[1])
             [] e.type \in {"uncompressed", "mini"} -> Err("UNSUPPORTED_FORMAT")
             [] e.type = "self"                     -> processes[<<o, e.offset + 1>>]
             [] e.type = "parent"                   -> parent(e.offset + 1)
             [] OTHER                               -> Err("INVALID_DATA")
      ELSE IF ~Compressed(x.compression) THEN Err("UNSUPPORTED_FORMAT")
      ELSE CASE e.comp \in 0..3   -> Decode(f, e.offset, x.compression[e.comp + 1])
             [] e.comp = NONE     -> Err("UNSUPPORTED_FORMAT")
             [] e.comp = SELF     -> processes[<<o, e.offset + 1>>]
             [] e.comp = PARENT   -> parent(ParentHunkOf(x, e))
             [] OTHER             -> Err("INVALID_DATA")

Processes[q \in Objs \X Nat] == ProcessStep(Processes, q[1], q[2])
ProcessHunk(o, h) == Processes[<<o, h>>]

\* Mutant: a copy takes as much as its original.
StoredBytes_Copies(x, e) == IF e.comp \in 0..3 THEN e.length ELSE FileBytes

StoredBytes(x, e) == IF e.comp \in 0..3 THEN e.length ELSE IF e.comp = NONE THEN FileBytes ELSE 0

\* hunk_info: how a hunk is stored, and in how many bytes.
HunkInfo(o, h) ==
  LET x == chd[o]
      e == x.rawmap[h]
      is(codec, bytes) == [error |-> "NONE", codec |-> codec, bytes |-> bytes]
  IN  IF x.version < 5
      THEN CASE e.type = "compressed"   -> is("zlib", e.length)
             [] e.type = "uncompressed" -> is("none", FileBytes)
             [] OTHER                   -> is(e.type, 0)
      ELSE IF ~Compressed(x.compression) THEN IF e = 0 THEN is("parent", 0) ELSE is("none", FileBytes)
      ELSE IF e.comp = Unwritten THEN [error |-> "UNKNOWN_COMPRESSION", codec |-> Nobody, bytes |-> 0]
      ELSE is(IF e.comp \in 0..3 THEN x.compression[e.comp + 1]
              ELSE CASE e.comp = NONE -> "none" [] e.comp = SELF -> "self" [] e.comp = PARENT -> "parent",
              StoredBytes(x, e))

-----------------------------------------------------------------------------
(* Files of earlier versions, as those wrote them *)

\* The contents a hash was computed from; the overall hash of a file whose raw hash is not
\* known yet comes from none.
HasContents(sha) == sha # Null /\ (sha[1] = "raw" \/ sha[2] # Null)
ContentsOf(sha) == IF sha[1] = "raw" THEN sha[2] ELSE sha[2][2]

\* The map's entry of a hunk stands for its contents.
OldHunk(f, contents, h) ==
  LET e == f.map[h]
      crc == e.nocrc \/ e.crc = CrcOf(contents[h])
      stored == e.offset \in DOMAIN f.blocks /\ f.blocks[e.offset].data = contents[h] /\ contents[h] \in Contents
  IN  CASE e.type = "compressed"   -> stored /\ f.blocks[e.offset].codec = OldCodec(f) /\ crc
        [] e.type = "uncompressed" -> stored /\ crc
        [] e.type = "mini"         -> contents[h] = [k \in 1..HunkBytes |-> e.offset] /\ crc
        [] e.type = "self"         -> e.offset \in 0..(h - 2) /\ contents[h] = contents[e.offset + 1]
        [] e.type = "parent"       -> /\ HasContents(f.parentsha1) /\ e.offset \in 0..(HunkCount - 1)
                                      /\ contents[h] = ContentsOf(f.parentsha1)[e.offset + 1]
        [] OTHER                   -> FALSE

OldFile(f, contents) ==
  /\ f = [version |-> f.version, signature |-> f.signature, sizeok |-> f.sizeok, compression |-> f.compression,
          map |-> f.map, mapped |-> f.mapped, blocks |-> f.blocks, end |-> f.end, sha1 |-> f.sha1,
          rawsha1 |-> f.rawsha1, parentsha1 |-> f.parentsha1, meta |-> f.meta]
  /\ f.blocks = [b \in DOMAIN f.blocks |-> [codec |-> f.blocks[b].codec, data |-> f.blocks[b].data, len |-> f.blocks[b].len]]
  /\ contents \in [Hunks -> [1..HunkBytes -> Nat]]
  /\ Parse(f).error = "NONE" =>
       /\ f.version \in {3, 4} /\ f.mapped
       /\ GuessUnitbytes(f.meta) \in Nat \ {0} /\ HunkBytes % GuessUnitbytes(f.meta) = 0
       /\ f.sha1 = ComputeOverallSha1(f.version, RawSha1(contents), f.meta)
       /\ \A h \in Hunks : f.map[h].nocrc \in BOOLEAN /\ OldHunk(f, contents, h)

ASSUME OldAssumption == \A n \in DOMAIN OldFiles : OldFile(OldFiles[n].file, OldFiles[n].truth)

-----------------------------------------------------------------------------
(* What is behind an object *)

OpenObjs == {o \in Objs : Opened(o)}

\* An object, its parent, the parent's parent, ...
Ancestors(o) ==
  {p \in Objs : \A S \in SUBSET Objs :
     o \in S /\ (\A q \in S : chd[q].parent # Nobody => chd[q].parent \in S) => p \in S}

\* open_common does not look at a parent's unit size, which references are counted in.
SameUnits(o) == \A p \in Ancestors(o) : chd[p].unit = chd[o].unit

\* Blocks whose CRC is checked: those of compressed files that are not of version 3 or 4
\* with the flag that says there is none.
HasCrc(f) == /\ f.version = 5 => Compressed(f.compression)
             /\ f.version < 5 => \A h \in Hunks : ~f.map[h].nocrc

\* Nothing behind an object can be misread: damage would be noticed, and no file was
\* filled while its own parent could be misread.
Trusted(o) ==
  /\ SameUnits(o)
  /\ \A p \in Ancestors(o) : /\ chd[p].file \in damaged => HasCrc(disk[chd[p].file])
                             /\ chd[p].file \notin misled

-----------------------------------------------------------------------------
(* Filling *)

\* A block or a tag more, or another block at that place.
With(f, k, v) == [i \in DOMAIN f \cup {k} |-> IF i = k THEN v ELSE f[i]]

Written(x) == Cardinality({h \in Hunks : x.rawmap[h].comp # Unwritten})

\* A compressor's maps: the first hunk stored with that content; and, of the hunks that
\* start at any unit of the parent (the last hunk only at its first), the first one.
SelfHunk(o, data) ==
  {h \in Hunks : chd[o].rawmap[h].comp \in 0..NONE /\ truth[chd[o].file][h] = data}
ParentUnits(o) ==
  LET uph == UnitsPerHunk(chd[o]) IN 0..((HunkCount - 1) * uph)
\* async_walk_parent, where the hunk after is read along.
ParentWindow(o, u) == WindowOf([h \in Hunks |-> ReadHunk(chd[o].parent, h).data], u * chd[o].unit)
ParentMatch(o, data) ==
  IF chd[o].parent = Nobody THEN {} ELSE {u \in ParentUnits(o) : ParentWindow(o, u) = data}

\* hunk_copy_from_self, hunk_copy_from_parent, hunk_write_compressed, for the next hunk.
\* codec is what find_best_compressor said; -1 for none.
StoredHunk(o, data, codec) ==
  LET length == IF codec = -1 THEN FileBytes ELSE FileBytes - 1
      end == disk[chd[o].file].end
  IN  IF SelfHunk(o, data) # {} THEN Entry(SELF, 0, Min(SelfHunk(o, data)) - 1, 0)
      ELSE IF ParentMatch(o, data) # {} THEN Entry(PARENT, 0, Min(ParentMatch(o, data)), 0)
      ELSE Entry(IF codec = -1 THEN NONE ELSE codec, length, end, CrcOf(data))

\* compress_continue, one hunk: only the next one, only while the map is open.
AppendHunk(o, data) ==
  LET x == chd[o]
      codec == Best[data]
      h == Written(x) + 1
      e == StoredHunk(o, data, codec)
      name == IF codec = -1 THEN "raw" ELSE x.compression[codec + 1]
  IN  /\ Opened(o) /\ x.fresh /\ x.writes /\ x.version = 5 /\ Compressed(x.compression) /\ ~disk[x.file].mapped
      /\ h <= HunkCount
      /\ codec # -1 => x.compression[codec + 1] # "none"
      /\ x.parent # Nobody => \A g \in Hunks : ReadHunk(x.parent, g).error = "NONE"
      /\ chd' = [chd EXCEPT ![o].rawmap[h] = e]
      /\ truth' = [truth EXCEPT ![x.file][h] = data]
      /\ disk' = IF e.comp > NONE THEN disk
                 ELSE [disk EXCEPT ![x.file].blocks = With(@, e.offset, [codec |-> name, data |-> data, len |-> e.length]),
                                   ![x.file].end = @ + e.length]
      /\ misled' = IF Trusted(o) THEN misled ELSE misled \cup {x.file}
      /\ UNCHANGED damaged

\* Mutant: the overall hash is not brought up to date.
Finalized_RawOnly(f, contents, rawmap, uph, beyond, done) ==
  IF done = 0 THEN f
  ELSE [f EXCEPT !.rawsha1 = RawSha1(contents),
                 !.map = IF done < 3 THEN f.map ELSE CompressMap(rawmap, uph, beyond), !.mapped = done = 3]

\* set_raw_sha1 with its metadata_update_hash, and compress_v5_map: done of the three
\* writes have been done.
Finalized(f, contents, rawmap, uph, beyond, done) ==
  LET raw == IF done < 1 THEN f ELSE [f EXCEPT !.rawsha1 = RawSha1(contents)]
      all == IF done < 2 THEN raw ELSE [raw EXCEPT !.sha1 = UpdatedHash(raw)]
  IN  IF done < 3 THEN all ELSE [all EXCEPT !.map = CompressMap(rawmap, uph, beyond), !.mapped = TRUE]

\* The end of compress_continue.  After a failed write the object is dropped.
Finalize(o, done, beyond) ==
  LET x == chd[o] IN
  /\ Opened(o) /\ x.fresh /\ x.version = 5 /\ Compressed(x.compression) /\ ~disk[x.file].mapped
  /\ Written(x) = HunkCount
  /\ disk' = [disk EXCEPT ![x.file] = Finalized(@, truth[x.file], x.rawmap, UnitsPerHunk(x), beyond, done)]
  /\ chd' = [chd EXCEPT ![o] = IF done < 3 THEN Closed ELSE @]
  /\ \A c \in Objs : done < 3 => chd[c].parent # o
  /\ UNCHANGED <<truth, damaged, misled>>

\* write_hunk of an uncompressed file, data that is not all zeros.
WriteHunk(o, h, data) ==
  LET x == chd[o]
      f == disk[x.file]
      end == ((f.end + FileBytes - 1) \div FileBytes) * FileBytes
      at == IF x.rawmap[h] # 0 THEN x.rawmap[h] ELSE end
  IN  /\ Opened(o) /\ x.fresh /\ x.writes /\ x.version = 5 /\ ~Compressed(x.compression) /\ data # Zero
      /\ chd' = [chd EXCEPT ![o].rawmap[h] = at]
      /\ disk' = [disk EXCEPT ![x.file] = [f EXCEPT !.map[h] = at, !.end = Max({f.end, at + FileBytes}),
                     !.blocks = With(@, at, [codec |-> "raw", data |-> data, len |-> FileBytes])]]
      /\ truth' = [truth EXCEPT ![x.file][h] = data]
      /\ UNCHANGED <<damaged, misled>>

\* write_metadata of a new tag: a record at the end of the file, and the hash.  Not while
\* hunks are being appended.
WriteMetadata(o, tag) ==
  LET x == chd[o]
      f == disk[x.file]
      g == [f EXCEPT !.meta = With(@, tag, 1), !.end = @ + 1]
  IN  /\ Opened(o) /\ x.fresh /\ tag \notin DOMAIN f.meta
      /\ Compressed(x.compression) => Written(x) \in {0, HunkCount}
      /\ disk' = [disk EXCEPT ![x.file] = [g EXCEPT !.sha1 = UpdatedHash(g)]]
      /\ UNCHANGED <<chd, truth, damaged, misled>>

\* A block changes on the disk, of a file nobody is writing to.
Damage(f) ==
  /\ NoWriter /\ damaged = {} /\ disk[f] # NoFile /\ disk[f].blocks # <<>>
  /\ \E c \in Contents : LET b == Min(DOMAIN disk[f].blocks) IN
                           c # disk[f].blocks[b].data /\ disk' = [disk EXCEPT ![f].blocks[b].data = c]
  /\ damaged' = {f}
  /\ UNCHANGED <<chd, truth, misled>>

-----------------------------------------------------------------------------
Init == /\ disk = [f \in Files |-> IF f \in DOMAIN OldFiles THEN OldFiles[f].file ELSE NoFile]
        /\ chd = [o \in Objs |-> Closed]
        /\ truth = [f \in Files |-> IF f \in DOMAIN OldFiles THEN OldFiles[f].truth ELSE [h \in Hunks |-> Zero]]
        /\ damaged = {} /\ misled = {}

Next ==
  \/ \E o \in Objs, p \in Objs \cup {Nobody} : \E f \in Uses[o] :
       \/ \E c \in Compressions[o], u \in Units : Create(o, f, c, u, p)
       \/ \E w \in BOOLEAN : Open(o, f, w, p)
  \/ \E o \in Objs : \/ Close(o)
                     \/ \E d \in Contents : AppendHunk(o, d)
                     \/ \E n \in 1..3, b \in Beyond : Finalize(o, n, b)
                     \/ \E h \in Hunks, d \in Contents : WriteHunk(o, h, d)
                     \/ \E t \in Tags[o] : WriteMetadata(o, t)
  \/ \E f \in Fragile : Damage(f)

Spec == Init /\ [][Next]_vars

-----------------------------------------------------------------------------
(* Properties *)

\* Whatever read_hunk returns without an error is what was stored in that hunk: through
\* copies, parents with the same units, old versions, unfinished and reopened files, and
\* when a block has changed on the disk.
ReadBack ==
  \A o \in OpenObjs, h \in Hunks :
    ReadHunk(o, h).error = "NONE" /\ Trusted(o) => ReadHunk(o, h).data = truth[chd[o].file][h]

\* Blocks follow each other without a gap.
Stored(e) == e.comp \in 0..NONE
Precedes(rawmap, g, h) == g < h /\ Stored(rawmap[g]) /\ \A i \in (g + 1)..(h - 1) : ~Stored(rawmap[i])
InOrder(rawmap) ==
  \A g, h \in Hunks : Precedes(rawmap, g, h) /\ Stored(rawmap[h]) => rawmap[h].offset = rawmap[g].offset + rawmap[g].length

\* What a finished map can be, and that every such map is read as it was written.
MapEntries(offsets) ==
  [comp : 0..PARENT, length : {0, FileBytes - 1, FileBytes}, offset : offsets, crc : {0} \cup {CrcOf(d) : d \in Contents}]
FinishedMap(rawmap, uph) ==
  /\ InOrder(rawmap)
  /\ \A h \in Hunks : LET e == rawmap[h] IN
       \/ e.comp \in 0..3 /\ e.length = FileBytes - 1
       \/ e.comp = NONE /\ e.length = FileBytes
       \/ e.comp = SELF /\ e.length = 0 /\ e.crc = 0 /\ e.offset \in 0..(h - 2)
       \/ e.comp = PARENT /\ e.length = 0 /\ e.crc = 0 /\ e.offset \in 0..((HunkCount - 1) * uph)
MapsComeBack(offsets) ==
  \A unit \in {u \in 1..HunkBytes : HunkBytes % u = 0}, rawmap \in [Hunks -> MapEntries(offsets)], b \in Beyond :
    LET uph == HunkBytes \div unit
        map == CompressMap(rawmap, uph, b)
    IN  FinishedMap(rawmap, uph) /\ ~map.overflow => DecompressMap(map, HunkCount, FileBytes, uph).error = "NONE"

\* A file that was finished, with a map that fit its buffer, can be opened.
FinishedOpens ==
  \A f \in Files \ DOMAIN OldFiles :
    /\ disk[f] # NoFile /\ ~InUse(f) /\ disk[f].mapped
    /\ Compressed(disk[f].compression) => ~disk[f].map.overflow
    => OpenCommon(disk[f], FALSE, Nobody).error = "NONE"

\* Every hunk of a finished file can be read if its parents are there.
FinishedReads ==
  \A o \in OpenObjs, h \in Hunks :
    /\ SameUnits(o)
    /\ \A p \in Ancestors(o) : disk[chd[p].file].mapped /\ chd[p].file \notin damaged /\ ~chd[p].missing
    => ReadHunk(o, h).error = "NONE"

\* Hunks come back: read_hunk never returns other data than was stored, and has no error
\* for a finished file.
HunksReadBack == ReadBack /\ FinishedOpens /\ FinishedReads

\* The hashes in the header of a finished file are those of its data and of its
\* checksummed metadata, whenever that was written.
HashesTrue ==
  \A f \in Files \ DOMAIN OldFiles :
    disk[f] # NoFile /\ Compressed(disk[f].compression) /\ disk[f].mapped =>
      /\ disk[f].rawsha1 = RawSha1(truth[f])
      /\ disk[f].sha1 = <<"all", RawSha1(truth[f]), [t \in DOMAIN disk[f].meta \ {"NOTE"} |-> disk[f].meta[t]]>>

\* A file opens only with a parent that holds what it was made over: hunks inherited at
\* the same place of a parent that was finished read the same as then.
Inherits ==
  \A o \in OpenObjs, h \in Hunks :
    /\ chd[o].version = 5 /\ ~Compressed(chd[o].compression) /\ chd[o].rawmap[h] = 0
    /\ chd[o].parent # Nobody /\ disk[chd[chd[o].parent].file].mapped
    => truth[chd[chd[o].parent].file][h] = truth[chd[o].file][h]

\* A hunk does not start inside a hunk of the parent.
Aligned(o, h) ==
  chd[o].version = 5 /\ Compressed(chd[o].compression) /\ chd[o].rawmap[h].comp = PARENT /\ chd[o].parent # Nobody
  => chd[o].rawmap[h].offset % UnitsPerHunk(chd[chd[o].parent]) = 0

\* What codec_process_hunk hands to a codec is the block read_hunk decodes, for hunks
\* that start where a hunk of the parent does, as those of the parents do; and of the
\* hunks that can be read it refuses only those that no codec has made.
ProcessMatchesRead ==
  \A o \in OpenObjs, h \in Hunks :
    LET aligned == Aligned(o, h) /\ \A p \in Ancestors(o) \ {o}, g \in Hunks : Aligned(p, g)
        both(p, r) == IF p.error = "NONE" THEN aligned => p = r ELSE r.error = p.error \/ p.error = "UNSUPPORTED_FORMAT"
    IN  damaged = {} /\ SameUnits(o) => both(ProcessHunk(o, h), ReadHunk(o, h))

\* hunk_info accounts for every block of a finished file once: the hunks it gives bytes to
\* are stored in blocks of their own, of that length, and there are no other blocks.
InfoAccounts ==
  \A o \in OpenObjs :
    LET f == disk[chd[o].file]
        stored == {h \in Hunks : HunkInfo(o, h).bytes > 0}
        at(h) == chd[o].rawmap[h].offset
    IN  chd[o].version = 5 /\ Compressed(chd[o].compression) /\ f.mapped =>
          /\ DOMAIN f.blocks = {at(h) : h \in stored}
          /\ \A h \in stored : f.blocks[at(h)].len = HunkInfo(o, h).bytes
          /\ \A g, h \in stored : at(g) = at(h) => g = h

\* What the file says of itself is true: its hashes, and what hunk_info reports.
FileDescribesItself == HashesTrue /\ InfoAccounts

\* The ways around read_hunk agree with it: what a parent is trusted to hold, and what
\* codec_process_hunk hands out.
WaysAgree == Inherits /\ ProcessMatchesRead
=============================================================================
