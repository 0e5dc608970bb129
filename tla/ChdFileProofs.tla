--------------------------- MODULE ChdFileProofs ---------------------------
(***************************************************************************)
(* Theorems about chd_file as a whole: hunks come back, a file describes   *)
(* itself, and the ways around read_hunk agree with it.                    *)
(***************************************************************************)
EXTENDS ChdFile, FiniteSetTheorems, WellFoundedInduction, TLAPS

NewFiles == Files \ DOMAIN OldFiles
HunkData == [1..HunkBytes -> Nat]

-----------------------------------------------------------------------------
(* What a map says of the contents *)

CodecName(f, comp) == IF comp = NONE THEN "raw" ELSE f.compression[comp + 1]

\* The entry of a hunk stored in a block, copied from a hunk before it, or from the parent.
BlockEntry(f, e, data) ==
  /\ e = Entry(e.comp, e.length, e.offset, e.crc) /\ Stored(e) /\ e.offset \in DOMAIN f.blocks
  /\ f.blocks[e.offset].codec = CodecName(f, e.comp) /\ f.blocks[e.offset].len = e.length
  /\ e.length = (IF e.comp = NONE THEN FileBytes ELSE FileBytes - 1)
  /\ e.crc = CrcOf(data) /\ data \in Contents
SelfEntry(rawmap, e, contents, h) ==
  /\ e = Entry(SELF, 0, e.offset, 0) /\ e.offset \in 0..(h - 2) /\ Stored(rawmap[e.offset + 1])
  /\ contents[e.offset + 1] = contents[h]
ParentEntry(f, e) ==
  /\ e = Entry(PARENT, 0, e.offset, 0) /\ e.offset \in 0..((HunkCount - 1) * (HunkBytes \div f.unit))
  /\ f.parentsha1 # Null \/ UncompressedParents

\* The entries of the first n hunks, and no others yet.
Entries(f, rawmap, contents, n) ==
  \A h \in Hunks :
    IF h > n THEN rawmap[h].comp = Unwritten
    ELSE \/ BlockEntry(f, rawmap[h], contents[h])
         \/ SelfEntry(rawmap, rawmap[h], contents, h)
         \/ ParentEntry(f, rawmap[h])

\* Every block is of one hunk.
OwnBlocks(f, rawmap) ==
  /\ DOMAIN f.blocks = {rawmap[h].offset : h \in {g \in Hunks : Stored(rawmap[g])}}
  /\ \A g, h \in Hunks : Stored(rawmap[g]) /\ Stored(rawmap[h]) /\ rawmap[g].offset = rawmap[h].offset => g = h

\* The last block goes up to the end of the file while hunks are being appended.
LastAtEnd(f, rawmap, n) ==
  n # HunkCount => \A g \in Hunks : Precedes(rawmap, g, n + 1) => f.end = rawmap[g].offset + rawmap[g].length

GoodMap(f, rawmap, contents, n) ==
  /\ rawmap = [h \in Hunks |-> rawmap[h]] /\ Entries(f, rawmap, contents, n)
  /\ OwnBlocks(f, rawmap) /\ InOrder(rawmap)

\* The blocks hold the contents; the parent's contents are the hunks copied from it.
TrueBlocks(f, rawmap, contents) ==
  \A h \in Hunks : Stored(rawmap[h]) => f.blocks[rawmap[h].offset].data = contents[h]
TrueWindows(f, rawmap, contents) ==
  \A h \in Hunks : rawmap[h].comp = PARENT =>
    /\ HasContents(f.parentsha1)
    /\ contents[h] = WindowOf(ContentsOf(f.parentsha1), rawmap[h].offset * f.unit)

-----------------------------------------------------------------------------
(* Files *)

Blocks == [codec : KnownCodecs \cup {"none", "raw"}, data : Contents, len : Nat]
NewHeaderOf(f) ==
  f = [version |-> f.version, signature |-> f.signature, sizeok |-> f.sizeok, compression |-> f.compression, unit |-> f.unit,
       map |-> f.map, mapped |-> f.mapped, blocks |-> f.blocks, end |-> f.end, sha1 |-> f.sha1,
       rawsha1 |-> f.rawsha1, parentsha1 |-> f.parentsha1, meta |-> f.meta]
NewFile(f, contents) ==
  /\ NewHeaderOf(f) /\ f.version = 5 /\ f.signature = TRUE /\ f.sizeok = TRUE
  /\ f.compression \in [1..4 -> KnownCodecs \cup {"none"}] /\ f.mapped \in BOOLEAN
  /\ f.unit \in Nat \ {0} /\ HunkBytes % f.unit = 0
  /\ f.end \in Nat /\ f.end >= HeaderBytes
  /\ f.blocks \in [DOMAIN f.blocks -> Blocks] /\ \A b \in DOMAIN f.blocks : b \in HeaderBytes..(f.end - 1)
  /\ contents \in [Hunks -> HunkData]

\* An uncompressed file: offsets of its own, or nothing.
PlainFile(f, contents) ==
  /\ f.mapped /\ f.sha1 = Null /\ f.map \in [Hunks -> Nat]
  /\ \A h \in Hunks :
       IF f.map[h] # 0 THEN f.map[h] \in DOMAIN f.blocks
       ELSE /\ f.parentsha1 = Null /\ ~UncompressedParents => contents[h] = Zero
            /\ HasContents(f.parentsha1) => contents[h] = ContentsOf(f.parentsha1)[h]
  /\ \A g, h \in Hunks : f.map[g] # 0 /\ f.map[g] = f.map[h] => g = h
PlainData(f, contents) == \A h \in Hunks : f.map[h] # 0 => f.blocks[f.map[h]].data = contents[h]

\* A compressed file: its hashes are those of its contents, once they are known.
Overall(raw, f) == ComputeOverallSha1(5, raw, f.meta)
PackedFile(f, contents) ==
  /\ f.rawsha1 \in {Null, RawSha1(contents)} /\ f.sha1 \in {Null, Overall(Null, f), Overall(f.rawsha1, f)}
  /\ f.mapped => /\ f.rawsha1 = RawSha1(contents) /\ f.sha1 = Overall(f.rawsha1, f)
                 /\ GoodMap(f, f.map.mapcrc, contents, HunkCount)
                 /\ \E b \in Beyond : f.map = CompressMap(f.map.mapcrc, HunkBytes \div f.unit, b)

NewInv(n) ==
  LET f == disk[n] IN
  /\ NewFile(f, truth[n])
  /\ ~Compressed(f.compression) => PlainFile(f, truth[n]) /\ (n \notin damaged => PlainData(f, truth[n]))
  /\ Compressed(f.compression) => PackedFile(f, truth[n])
  /\ Compressed(f.compression) /\ f.mapped =>
       /\ n \notin damaged => TrueBlocks(f, f.map.mapcrc, truth[n])
       /\ n \notin misled /\ ~UncompressedParents => TrueWindows(f, f.map.mapcrc, truth[n])

\* An old file is as it was but for what has become of a block.
OldInv(n) ==
  LET f == disk[n] old == OldFiles[n].file IN
  /\ f = [old EXCEPT !.blocks = f.blocks] /\ DOMAIN f.blocks = DOMAIN old.blocks /\ truth[n] = OldFiles[n].truth
  /\ \A b \in DOMAIN old.blocks :
       /\ f.blocks[b] = [codec |-> old.blocks[b].codec, data |-> f.blocks[b].data, len |-> old.blocks[b].len]
       /\ n \notin damaged => f.blocks[b].data = old.blocks[b].data
       /\ f.blocks[b].data \in Contents \cup {old.blocks[b].data}

FileInv == \A n \in Files : IF n \in DOMAIN OldFiles THEN OldInv(n) ELSE disk[n] = NoFile \/ NewInv(n)

-----------------------------------------------------------------------------
(* Objects *)

\* What an object knows of its file.
KnowsFile(x, f) ==
  /\ x.version = f.version /\ Parse(f).error = "NONE"
  /\ f.version # 5 => /\ ~x.fresh /\ x.compression[1] = OldCodec(f) /\ x.rawmap = f.map
  /\ f.version = 5 => /\ x.unit = f.unit /\ x.compression = f.compression
                      /\ ~Compressed(f.compression) => x.rawmap = f.map
                      /\ Compressed(f.compression) /\ f.mapped => x.rawmap = f.map.mapcrc
                      /\ Compressed(f.compression) /\ ~f.mapped /\ ~x.fresh => \A h \in Hunks : x.rawmap[h].comp = Unwritten

\* Its parent is open, is not being written to, and is the one the file names.
KnowsParent(x, f) ==
  IF x.parent = Nobody THEN x.missing <=> f.parentsha1 # Null
  ELSE /\ x.parent \in OpenObjs /\ ~chd[x.parent].fresh /\ ~x.missing
       /\ Sha1(x.parent) = f.parentsha1 /\ (f.parentsha1 # Null \/ UncompressedParents)

\* The file it is filling: hunks in order, none of them lost.
FillInv(x, f, n) ==
  /\ f.rawsha1 = Null
  /\ \E k \in 0..HunkCount : GoodMap(f, x.rawmap, truth[n], k) /\ LastAtEnd(f, x.rawmap, k)
  /\ TrueBlocks(f, x.rawmap, truth[n])
  /\ n \notin misled /\ ~UncompressedParents => TrueWindows(f, x.rawmap, truth[n])

ObjectInv(o) ==
  LET x == chd[o] f == disk[x.file] IN
  /\ x.file \in Files /\ f # NoFile
  /\ x.unit \in Nat \ {0} /\ HunkBytes % x.unit = 0
  /\ KnowsFile(x, f) /\ KnowsParent(x, f)
  /\ x.fresh /\ Compressed(f.compression) /\ ~f.mapped => FillInv(x, f, x.file)

\* An object is closed, or has all its fields.
ObjectShape(x) ==
  /\ x = [file |-> x.file, parent |-> x.parent, missing |-> x.missing, version |-> x.version, writes |-> x.writes,
          compression |-> x.compression, unit |-> x.unit, rawmap |-> x.rawmap, fresh |-> x.fresh]
  /\ x.fresh \in BOOLEAN /\ x.missing \in BOOLEAN
  /\ x.file = Nobody => x = Closed

\* Objects have files of their own, one is written at a time, and no parent is behind
\* itself.
Ranks(m) == {rank \in [Objs -> 0..m] :
               \A o \in Objs : Opened(o) /\ chd[o].parent # Nobody => rank[chd[o].parent] < rank[o]}
ObjectsInv ==
  /\ \A o \in Objs : ObjectShape(chd[o]) /\ (Opened(o) => ObjectInv(o))
  /\ \A o, p \in OpenObjs : chd[o].file = chd[p].file => o = p
  /\ \A o, p \in OpenObjs : chd[o].fresh /\ chd[p].fresh => o = p
  /\ \E m \in Nat : Ranks(m) # {}

TypeInv ==
  /\ DOMAIN disk = Files /\ disk = [n \in Files |-> disk[n]] /\ chd = [o \in Objs |-> chd[o]]
  /\ truth \in [Files -> [Hunks -> HunkData]]
  /\ damaged \subseteq Files /\ misled \subseteq Files

IInv == TypeInv /\ FileInv /\ ObjectsInv

-----------------------------------------------------------------------------
(* The map *)

\* A map that decompress_v5_map accepts is the one whose CRC the header has.
LEMMA DecompressedMap ==
  ASSUME NEW m, NEW n, NEW bytes, NEW uph, DecompressMap(m, n, bytes, uph).error = "NONE"
  PROVE  DecompressMap(m, n, bytes, uph).rawmap = m.mapcrc
BY DEF DecompressMap

\* The header has the CRC of the map that was compressed.
LEMMA CompressedMap ==
  ASSUME NEW rawmap, NEW uph, NEW beyond
  PROVE  CompressMap(rawmap, uph, beyond).mapcrc = rawmap
BY DEF CompressMap

-----------------------------------------------------------------------------
(* Numbers *)

LEMMA ConstFacts ==
  /\ HunkCount \in Nat \ {0} /\ HunkBytes \in Nat \ {0} /\ Grain \in Nat \ {0} /\ Units \subseteq Nat \ {0}
  /\ FileBytes \in Nat /\ FileBytes > 1 /\ Zero \in HunkData /\ Contents \subseteq HunkData
<1>1. HunkCount \in Nat \ {0} /\ HunkBytes \in Nat \ {0} /\ Grain \in Nat \ {0} /\ Units \subseteq Nat \ {0}
  BY ChdAssumption, Zenon
<1>2. FileBytes \in Nat
  BY <1>1 DEF FileBytes
<1>3. FileBytes > 1 /\ Contents \subseteq HunkData
  BY ChdAssumption, Zenon DEF HunkData
<1> QED
  BY <1>1, <1>2, <1>3 DEF Zero, HunkData

LEMMA TimesGrows ==
  ASSUME NEW a \in Nat, NEW b \in Nat, a <= b, NEW c \in Nat
  PROVE  c * a <= c * b /\ a * c <= b * c
OBVIOUS

LEMMA TimesInHunk ==
  ASSUME NEW a \in Nat, NEW b \in Nat
  PROVE  a * b \in Nat /\ (a * b) \div HunkBytes \in Nat
<1>1. a * b \in Nat /\ HunkBytes \in Nat \ {0}
  BY ConstFacts
<1> DEFINE c == a * b
<1> HIDE DEF c
<1>2. c \in Nat => c \div HunkBytes \in Nat
  BY <1>1
<1> QED
  BY <1>1, <1>2 DEF c

LEMMA DivMod ==
  ASSUME NEW a \in Nat, NEW b \in Nat \ {0}
  PROVE  a = b * (a \div b) + (a % b) /\ a % b \in Nat /\ a % b < b /\ a \div b \in Nat
OBVIOUS

LEMMA DivModUnique ==
  ASSUME NEW b \in Nat \ {0}, NEW q \in Nat, NEW r \in Nat, r < b
  PROVE  (b * q + r) \div b = q /\ (b * q + r) % b = r
OBVIOUS

\* A count of units is less than a count of hunks by how many units a hunk has.
LEMMA UnitsInHunks ==
  ASSUME NEW b \in Nat \ {0}, NEW u \in Nat \ {0}, b % u = 0, NEW a \in Nat, NEW n \in Nat, a <= n * (b \div u)
  PROVE  b = u * (b \div u) /\ b \div u \in Nat \ {0} /\ a * u \in Nat /\ a * u <= n * b
<1>1. b = u * (b \div u) /\ b \div u \in Nat
  OBVIOUS
<1>2. b \div u \in Nat \ {0}
  BY <1>1
<1>3. a * u <= (n * (b \div u)) * u
  BY <1>1
<1>4. (n * (b \div u)) * u = n * b
  BY <1>1
<1> QED
  BY <1>1, <1>2, <1>3, <1>4

\* The hunk a unit is in, by bytes and by units.
LEMMA HunkOfUnit ==
  ASSUME NEW b \in Nat \ {0}, NEW u \in Nat \ {0}, b % u = 0, NEW a \in Nat
  PROVE  (a * u) \div b = a \div (b \div u) /\ ((a * u) % b = 0 <=> a % (b \div u) = 0)
<1> DEFINE n == b \div u
           q == a \div n
           r == (a % n) * u
<1>1. b = u * n /\ n \in Nat \ {0}
  BY UnitsInHunks
<1>2. a = n * (a \div n) + (a % n) /\ a % n \in Nat /\ a % n < n /\ a \div n \in Nat
  BY <1>1, DivMod
<1>3. a * u = b * (a \div n) + (a % n) * u
  <2> DEFINE i == a \div n
             j == a % n
  <2>2. n \in Nat /\ u \in Nat /\ i \in Nat /\ j \in Nat
    BY <1>1, <1>2
  <2> HIDE DEF n, i, j
  <2>3. (n * i + j) * u = (u * n) * i + j * u
    BY <2>2
  <2> USE DEF n, i, j
  <2> QED
    BY <1>1, <1>2, <2>3
<1>4. (a % n) * u \in Nat /\ (a % n) * u < n * u
  <2>1. (a % n) + 1 <= n /\ (a % n) + 1 \in Nat
    BY <1>1, <1>2
  <2>2. ((a % n) + 1) * u <= n * u
    BY <2>1, <1>1, TimesGrows
  <2>3. ((a % n) + 1) * u = (a % n) * u + u /\ (a % n) * u \in Nat
    BY <1>2
  <2> QED
    BY <2>2, <2>3, <1>1
<1>5. q \in Nat /\ r \in Nat /\ r < b /\ a * u = b * q + r
  BY <1>1, <1>2, <1>3, <1>4
<1>6. (a % n) * u = 0 <=> a % n = 0
  BY <1>2
<1> HIDE DEF q, r
<1>7. (a * u) \div b = q /\ (a * u) % b = r
  BY <1>5, DivModUnique
<1> QED
  BY <1>6, <1>7 DEF q, r

\* The hunks a window of the parent is in are hunks.
LEMMA WindowInside ==
  ASSUME NEW u \in Nat \ {0}, HunkBytes % u = 0, NEW a \in 0..((HunkCount - 1) * (HunkBytes \div u))
  PROVE  /\ (a * u) \div HunkBytes + 1 \in Hunks
         /\ (a * u) % HunkBytes # 0 => (a * u) \div HunkBytes + 2 \in Hunks
<1> DEFINE n == HunkCount - 1
           at == a * u
<1>1. n \in Nat /\ HunkBytes \in Nat \ {0}
  BY ConstFacts
<1>2. HunkBytes \div u \in Nat
  BY <1>1
<1>3. a \in Nat /\ a <= n * (HunkBytes \div u)
  BY <1>1, <1>2
<1>4. at \in Nat /\ at <= n * HunkBytes
  BY <1>1, <1>3, UnitsInHunks
<1> HIDE DEF at
<1>5. at = HunkBytes * (at \div HunkBytes) + (at % HunkBytes) /\ at % HunkBytes \in Nat /\ at \div HunkBytes \in Nat
  BY <1>1, <1>4, DivMod
<1>6. at \div HunkBytes <= n
  <2>1. SUFFICES ASSUME at \div HunkBytes >= n + 1 PROVE FALSE
    BY <1>1, <1>5
  <2> DEFINE k == at \div HunkBytes
             next == n + 1
  <2>3. k \in Nat /\ next \in Nat /\ next <= k /\ HunkBytes \in Nat
    BY <2>1, <1>1, <1>5
  <2> HIDE DEF k, next
  <2>4. HunkBytes * next <= HunkBytes * k
    BY <2>3, TimesGrows, Zenon
  <2>2. HunkBytes * (n + 1) <= HunkBytes * (at \div HunkBytes)
    BY <2>4 DEF k, next
  <2> QED
    BY <2>2, <1>1, <1>4, <1>5
<1>7. ASSUME at % HunkBytes # 0 PROVE at \div HunkBytes < n
  <2>1. SUFFICES ASSUME at \div HunkBytes = n PROVE FALSE
    BY <1>1, <1>5, <1>6
  <2> QED
    BY <2>1, <1>1, <1>4, <1>5, <1>7
<1> QED
  BY <1>1, <1>5, <1>6, <1>7, ConstFacts DEF Hunks, at

\* A set of numbers that is not empty has a least one.
LEMMA LeastNat ==
  ASSUME NEW T \in SUBSET Nat, T # {}
  PROVE  \E k \in T : \A j \in T : k <= j
<1> DEFINE less == {p \in Nat \X Nat : p[1] < p[2]}
<1>1. OpToRel(<, Nat) = less
  BY Zenon DEF OpToRel
<1>2. IsWellFoundedOn(less, Nat)
  BY <1>1, NatLessThanWellFounded, Zenon
<1> HIDE DEF less
<1>3. PICK k \in T : \A j \in T : ~(<<j, k>> \in less)
  BY <1>2, WFMin
<1>4. ASSUME NEW j \in T PROVE k <= j
  <2>1. j \in Nat /\ k \in Nat /\ <<j, k>> \notin less
    BY <1>3
  <2>2. ~(j < k)
    <3>1. <<j, k>> \in Nat \X Nat /\ <<j, k>>[1] = j /\ <<j, k>>[2] = k
      BY <2>1
    <3> QED
      BY <2>1, <3>1 DEF less
  <2> QED
    BY <2>1, <2>2
<1> QED
  BY <1>4

-----------------------------------------------------------------------------
(* What the invariant says of an object's file *)

LEMMA HashFacts ==
  ASSUME NEW contents, NEW version, NEW meta
  PROVE  /\ LET sha == ComputeOverallSha1(version, RawSha1(contents), meta) IN
              sha # Null /\ HasContents(sha) /\ ContentsOf(sha) = contents
         /\ version = 5 => ~HasContents(ComputeOverallSha1(version, Null, meta))
         /\ RawSha1(contents) # Null /\ ~HasContents(Null)
<1>1. RawSha1(contents) # Null /\ RawSha1(contents)[1] = "raw" /\ RawSha1(contents)[2] = contents
  BY DEF RawSha1, Null
<1>2. ~HasContents(Null)
  BY DEF HasContents
<1>3. CASE version < 4
  <2>1. ComputeOverallSha1(version, RawSha1(contents), meta) = RawSha1(contents)
    BY <1>3 DEF ComputeOverallSha1
  <2>2. version # 5
    BY <1>3
  <2> QED
    BY <1>1, <1>2, <2>1, <2>2 DEF HasContents, ContentsOf
<1>4. CASE ~(version < 4)
  <2> DEFINE marked == [t \in DOMAIN meta \ {"NOTE"} |-> meta[t]]
             overall(raw) == <<"all", raw, marked>>
  <2>1. \A raw : ComputeOverallSha1(version, raw, meta) = overall(raw)
    BY <1>4 DEF ComputeOverallSha1
  <2>2. \A raw : overall(raw)[1] = "all" /\ overall(raw)[2] = raw /\ overall(raw) # Null
    <3> HIDE DEF marked
    <3> QED
      BY DEF Null
  <2> HIDE DEF overall
  <2> QED
    BY <1>1, <1>2, <2>1, <2>2 DEF HasContents, ContentsOf
<1> QED
  BY <1>3, <1>4

\* A file of an earlier version that can be opened is as OldAssumption says.
LEMMA OldFacts ==
  ASSUME NEW n \in DOMAIN OldFiles, OldInv(n), Parse(disk[n]).error = "NONE"
  PROVE  LET f == disk[n] old == OldFiles[n].file IN
         /\ f.version \in {3, 4} /\ f.mapped
         /\ GuessUnitbytes(f.meta) \in Nat \ {0} /\ HunkBytes % GuessUnitbytes(f.meta) = 0
         /\ f.sha1 = ComputeOverallSha1(f.version, RawSha1(truth[n]), f.meta)
         /\ truth[n] \in [Hunks -> HunkData] /\ truth[n] = OldFiles[n].truth
         /\ f.map = old.map /\ f.parentsha1 = old.parentsha1 /\ OldCodec(f) = OldCodec(old) /\ f.version = old.version
         /\ \A h \in Hunks : f.map[h].nocrc \in BOOLEAN /\ OldHunk(old, truth[n], h)
<1> DEFINE f == disk[n]
           old == OldFiles[n].file
<1>1. OldFile(old, truth[n]) /\ f = [old EXCEPT !.blocks = f.blocks] /\ truth[n] = OldFiles[n].truth
  BY OldAssumption, Zenon DEF OldInv
<1>2. old = [version |-> old.version, signature |-> old.signature, sizeok |-> old.sizeok, compression |-> old.compression,
             map |-> old.map, mapped |-> old.mapped, blocks |-> old.blocks, end |-> old.end, sha1 |-> old.sha1,
             rawsha1 |-> old.rawsha1, parentsha1 |-> old.parentsha1, meta |-> old.meta]
  BY <1>1, Zenon DEF OldFile
<1>3. /\ f.version = old.version /\ f.signature = old.signature /\ f.sizeok = old.sizeok
      /\ f.compression = old.compression /\ f.map = old.map /\ f.mapped = old.mapped /\ f.sha1 = old.sha1
      /\ f.parentsha1 = old.parentsha1 /\ f.meta = old.meta
  <2> HIDE DEF f, old
  <2> QED
    BY <1>1, <1>2
<1>4. OldCodec(f) = OldCodec(old)
  BY <1>3, Zenon DEF OldCodec
<1> HIDE DEF f, old
<1>5. Parse(f).error = "NONE"
  BY DEF f
<1>6. Parse(old).error = "NONE"
  <2>1. CASE f.version \in {3, 4}
    <3>1. f.signature /\ ParseOld(f).error = "NONE" /\ old.version \in {3, 4} /\ old.signature
      BY <1>3, <1>5, <2>1 DEF Parse, Err
    <3>2. f.sizeok /\ old.sizeok /\ f.compression \in 0..3 /\ old.compression \in 0..3
      BY <1>3, <3>1 DEF ParseOld, Err
    <3>3. ParseOld(old).error = "NONE"
      BY <3>2 DEF ParseOld, Ok
    <3> QED
      BY <3>1, <3>3 DEF Parse
  <2>2. CASE f.version \notin {3, 4}
    <3>1. f.signature /\ f.version = 5 /\ ParseV5(f).error = "NONE" /\ old.version = 5 /\ old.signature
      BY <1>3, <1>5, <2>2 DEF Parse, Err
    <3>2. f.sizeok /\ old.sizeok
      BY <1>3, <3>1 DEF ParseV5, Err
    <3>3. ParseV5(old).error = "NONE"
      BY <3>2 DEF ParseV5, Ok
    <3> QED
      BY <3>1, <3>3 DEF Parse
  <2> QED
    BY <2>1, <2>2
<1> QED
  BY <1>1, <1>3, <1>4, <1>6, Zenon DEF OldFile, HunkData, f, old

\* Objects on files of earlier versions, and on others.
LEMMA ObjectFacts ==
  ASSUME IInv, NEW o \in Objs, Opened(o)
  PROVE  LET x == chd[o] f == disk[chd[o].file] IN
         /\ ObjectInv(o) /\ x.file \in Files /\ o \in OpenObjs /\ x.version = f.version
         /\ truth[x.file] \in [Hunks -> HunkData]
         /\ \/ x.version = 5 /\ x.file \in NewFiles /\ NewInv(x.file)
            \/ x.version \in {3, 4} /\ x.file \in DOMAIN OldFiles /\ OldInv(x.file) /\ Parse(f).error = "NONE"
<1> DEFINE x == chd[o]
           f == disk[x.file]
<1>1. ObjectInv(o) /\ o \in OpenObjs
  BY Zenon DEF IInv, ObjectsInv, OpenObjs
<1>2. x.file \in Files /\ f # NoFile /\ x.version = f.version /\ Parse(f).error = "NONE"
  BY <1>1, Zenon DEF ObjectInv, KnowsFile
<1>3. truth[x.file] \in [Hunks -> HunkData]
  BY <1>2 DEF IInv, TypeInv
<1>4. CASE x.file \in DOMAIN OldFiles
  <2>1. OldInv(x.file)
    BY <1>2, <1>4, Zenon DEF IInv, FileInv
  <2>2. f.version \in {3, 4}
    BY <2>1, <1>2, <1>4, OldFacts, Zenon
  <2> QED
    BY <1>1, <1>2, <1>3, <1>4, <2>1, <2>2, Zenon
<1>5. CASE x.file \notin DOMAIN OldFiles
  <2>1. NewInv(x.file)
    BY <1>2, <1>5, Zenon DEF IInv, FileInv
  <2>2. f.version = 5
    BY <2>1 DEF NewInv, NewFile
  <2> QED
    BY <1>1, <1>2, <1>3, <1>5, <2>1, <2>2, Zenon DEF NewFiles
<1> QED
  BY <1>4, <1>5

\* A parent's hash is that of its contents, or of no contents yet: then it reads as
\* nothing.
LEMMA ParentFacts ==
  ASSUME IInv, NEW p \in Objs, Opened(p)
  PROVE  /\ HasContents(Sha1(p)) => ContentsOf(Sha1(p)) = truth[chd[p].file]
         /\ ~HasContents(Sha1(p)) /\ Sha1(p) # Null =>
              /\ chd[p].version = 5 /\ Compressed(chd[p].compression) /\ ~disk[chd[p].file].mapped
              /\ ~chd[p].fresh => \A h \in Hunks : chd[p].rawmap[h].comp = Unwritten
         /\ disk[chd[p].file].mapped /\ Sha1(p) # Null => HasContents(Sha1(p))
<1> DEFINE x == chd[p]
           n == chd[p].file
           f == disk[n]
<1>1. Sha1(p) = f.sha1
  BY DEF Sha1
<1>2. /\ ObjectInv(p)
      /\ \/ x.version = 5 /\ NewInv(n)
         \/ x.version \in {3, 4} /\ n \in DOMAIN OldFiles /\ OldInv(n) /\ Parse(f).error = "NONE"
  BY ObjectFacts, Zenon
<1>3. CASE x.version = 5 /\ NewInv(n)
  <2>1. x.compression = f.compression /\ (~f.mapped /\ ~x.fresh /\ Compressed(f.compression) => \A h \in Hunks : x.rawmap[h].comp = Unwritten)
    BY <1>2, <1>3, Zenon DEF ObjectInv, KnowsFile
  <2>2. CASE ~Compressed(f.compression)
    <3>1. f.sha1 = Null
      BY <1>3, <2>2, Zenon DEF NewInv, PlainFile
    <3> QED
      BY <1>1, <3>1, HashFacts, Zenon
  <2>3. CASE Compressed(f.compression)
    <3>1. /\ f.rawsha1 \in {Null, RawSha1(truth[n])} /\ f.sha1 \in {Null, Overall(Null, f), Overall(f.rawsha1, f)}
          /\ f.mapped => f.sha1 = Overall(RawSha1(truth[n]), f)
      BY <1>3, <2>3, Zenon DEF NewInv, PackedFile
    <3>2. ~HasContents(Null) /\ ~HasContents(Overall(Null, f))
      BY HashFacts, Zenon DEF Overall
    <3>3. HasContents(Overall(RawSha1(truth[n]), f)) /\ ContentsOf(Overall(RawSha1(truth[n]), f)) = truth[n]
      BY HashFacts, Zenon DEF Overall
    <3> QED
      BY <1>1, <1>3, <2>1, <2>3, <3>1, <3>2, <3>3, Zenon
  <2> QED
    BY <2>2, <2>3
<1>4. CASE x.version \in {3, 4} /\ n \in DOMAIN OldFiles /\ OldInv(n) /\ Parse(f).error = "NONE"
  <2>1. f.sha1 = ComputeOverallSha1(f.version, RawSha1(truth[n]), f.meta)
    BY <1>4, OldFacts, Zenon
  <2>2. HasContents(f.sha1) /\ ContentsOf(f.sha1) = truth[n]
    <3>1. LET sha == ComputeOverallSha1(f.version, RawSha1(truth[n]), f.meta) IN
            HasContents(sha) /\ ContentsOf(sha) = truth[n]
      BY HashFacts, Zenon
    <3> QED
      BY <2>1, <3>1
  <2>3. HasContents(Sha1(p)) /\ ContentsOf(Sha1(p)) = truth[chd[p].file]
    BY <2>2, Zenon DEF Sha1
  <2> QED
    BY <2>3
<1> QED
  BY <1>2, <1>3, <1>4

-----------------------------------------------------------------------------
(* Reading, one step *)

LEMMA CompFacts == NONE = 4 /\ SELF = 5 /\ PARENT = 6 /\ Unwritten = 255
BY DEF NONE, SELF, PARENT, Unwritten

LEMMA ReadOutside ==
  ASSUME NEW F, NEW o \in Objs, NEW h, ~Opened(o) \/ h \notin Hunks
  PROVE  ReadStep(F, o, h) = Err(IF Opened(o) THEN "HUNK_OUT_OF_RANGE" ELSE "NOT_OPEN")
BY DEF ReadStep

LEMMA ReadOld ==
  ASSUME NEW F, NEW o \in Objs, Opened(o), NEW h \in Hunks, chd[o].version < 5
  PROVE  LET x == chd[o] f == disk[x.file] e == x.rawmap[h] IN
         /\ e.type = "compressed" => ReadStep(F, o, h) = Checked(Decode(f, e.offset, x.compression[1]), e.crc, e.nocrc)
         /\ e.type = "uncompressed" => ReadStep(F, o, h) = Checked(Ok(BlockAt(f, e.offset).data), e.crc, e.nocrc)
         /\ e.type = "mini" => ReadStep(F, o, h) = Checked(Ok([k \in 1..HunkBytes |-> e.offset]), e.crc, e.nocrc)
         /\ e.type = "self" => ReadStep(F, o, h) = F[<<o, e.offset + 1>>]
         /\ e.type = "parent" => ReadStep(F, o, h) =
              IF x.missing THEN Err("REQUIRES_PARENT") ELSE F[<<x.parent, e.offset + 1>>]
BY DEF ReadStep

LEMMA ReadPlain ==
  ASSUME NEW F, NEW o \in Objs, Opened(o), NEW h \in Hunks, chd[o].version = 5, ~Compressed(chd[o].compression)
  PROVE  LET x == chd[o] f == disk[x.file] e == x.rawmap[h] IN
         /\ e # 0 => ReadStep(F, o, h) = Ok(BlockAt(f, e).data)
         /\ e = 0 => ReadStep(F, o, h) =
              IF x.missing THEN Err("REQUIRES_PARENT") ELSE IF x.parent # Nobody THEN F[<<x.parent, h>>] ELSE Ok(Zero)
BY DEF ReadStep

LEMMA ReadPacked ==
  ASSUME NEW F, NEW o \in Objs, Opened(o), NEW h \in Hunks, chd[o].version = 5, Compressed(chd[o].compression)
  PROVE  LET x == chd[o] f == disk[x.file] e == x.rawmap[h]
             skip == (e.offset * chd[x.parent].unit) % HunkBytes
             first == (e.offset * chd[x.parent].unit) \div HunkBytes + 1
         IN
         /\ Stored(e) => ReadStep(F, o, h) = ReadCompressed(x, f, e)
         /\ e.comp = SELF => ReadStep(F, o, h) = F[<<o, e.offset + 1>>]
         /\ e.comp = PARENT => ReadStep(F, o, h) =
              IF x.missing THEN Err("REQUIRES_PARENT")
              ELSE IF skip = 0 THEN F[<<x.parent, first>>]
              ELSE Across(F[<<x.parent, first>>], F[<<x.parent, first + 1>>], skip)
         /\ e.comp = Unwritten => ReadStep(F, o, h) = Err("INVALID_DATA")
<1> DEFINE x == chd[o]
           f == disk[x.file]
           e == x.rawmap[h]
           skip == (e.offset * chd[x.parent].unit) % HunkBytes
           first == (e.offset * chd[x.parent].unit) \div HunkBytes + 1
           parent(g) == IF x.missing THEN Err("REQUIRES_PARENT") ELSE F[<<x.parent, g>>]
<1>1. ReadStep(F, o, h) =
        CASE e.comp \in 0..NONE -> ReadCompressed(x, f, e)
          [] e.comp = SELF      -> F[<<o, e.offset + 1>>]
          [] e.comp = PARENT    ->
               IF x.missing THEN Err("REQUIRES_PARENT")
               ELSE IF skip = 0 THEN parent(first)
               ELSE Across(parent(first), parent(first + 1), skip)
          [] OTHER              -> Err("INVALID_DATA")
  <2>1. Opened(o) /\ h \in Hunks /\ ~(chd[o].version < 5) /\ Compressed(chd[o].compression)
    OBVIOUS
  <2> QED
    BY <2>1, Zenon DEF ReadStep
<1> HIDE DEF skip, first, f, e, x
<1>2. /\ e.comp \in 0..NONE => e.comp # SELF /\ e.comp # PARENT
      /\ e.comp = Unwritten => e.comp \notin 0..NONE /\ e.comp # SELF /\ e.comp # PARENT
      /\ SELF # PARENT /\ SELF \notin 0..NONE /\ PARENT \notin 0..NONE
  BY CompFacts
<1>3. Stored(e) => ReadStep(F, o, h) = ReadCompressed(x, f, e)
  BY <1>1, <1>2 DEF Stored
<1>4. e.comp = SELF => ReadStep(F, o, h) = F[<<o, e.offset + 1>>]
  BY <1>1, <1>2
<1>5. e.comp = PARENT => ReadStep(F, o, h) =
              IF x.missing THEN Err("REQUIRES_PARENT")
              ELSE IF skip = 0 THEN F[<<x.parent, first>>]
              ELSE Across(F[<<x.parent, first>>], F[<<x.parent, first + 1>>], skip)
  BY <1>1, <1>2
<1>6. e.comp = Unwritten => ReadStep(F, o, h) = Err("INVALID_DATA")
  BY <1>1, <1>2
<1> QED
  BY <1>3, <1>4, <1>5, <1>6 DEF skip, first, f, e, x

\* The entries of an object's map, in place of a file that may still be growing.
LEMMA PackedFacts ==
  ASSUME IInv, NEW o \in Objs, Opened(o), chd[o].version = 5, Compressed(chd[o].compression), NEW h \in Hunks
  PROVE  LET x == chd[o] f == disk[x.file] e == x.rawmap[h] contents == truth[x.file] IN
         /\ \/ e.comp = Unwritten /\ ~f.mapped
            \/ BlockEntry(f, e, contents[h])
            \/ SelfEntry(x.rawmap, e, contents, h)
            \/ ParentEntry(f, e)
         /\ Stored(e) /\ x.file \notin damaged => f.blocks[e.offset].data = contents[h]
         /\ e.comp = PARENT /\ x.file \notin misled /\ ~UncompressedParents =>
              HasContents(f.parentsha1) /\ contents[h] = WindowOf(ContentsOf(f.parentsha1), e.offset * f.unit)
         /\ x.unit = f.unit /\ x.compression = f.compression
         /\ NewFile(f, contents) /\ x.file \in NewFiles /\ h \in Nat
<1> DEFINE x == chd[o]
           n == chd[o].file
           f == disk[n]
           e == x.rawmap[h]
<1>1. /\ NewInv(n) /\ n \in NewFiles /\ ObjectInv(o) /\ x.version = f.version
  BY ObjectFacts
<1>2. /\ x.unit = f.unit /\ x.compression = f.compression
      /\ f.mapped => x.rawmap = f.map.mapcrc
      /\ ~f.mapped /\ ~x.fresh => \A g \in Hunks : x.rawmap[g].comp = Unwritten
  BY <1>1, Zenon DEF ObjectInv, KnowsFile
<1>3. NewFile(f, truth[n]) /\ h \in Nat
  <2>1. NewFile(f, truth[n])
    BY <1>1, Zenon DEF NewInv
  <2> QED
    BY <2>1, ConstFacts DEF Hunks
<1>4. CASE f.mapped
  <2>1. /\ Entries(f, f.map.mapcrc, truth[n], HunkCount)
        /\ n \notin damaged => TrueBlocks(f, f.map.mapcrc, truth[n])
        /\ n \notin misled /\ ~UncompressedParents => TrueWindows(f, f.map.mapcrc, truth[n])
    BY <1>1, <1>2, <1>4, Zenon DEF NewInv, PackedFile, GoodMap
  <2>2. ~(h > HunkCount)
    BY ConstFacts DEF Hunks
  <2> QED
    BY <1>1, <1>2, <1>3, <1>4, <2>1, <2>2, ZenonT(60) DEF Entries, TrueBlocks, TrueWindows
<1>5. CASE ~f.mapped /\ ~x.fresh
  <2>1. e.comp = Unwritten
    BY <1>2, <1>5, Zenon
  <2>2. ~Stored(e) /\ e.comp # PARENT
    BY <2>1, CompFacts DEF Stored
  <2> QED
    BY <1>1, <1>2, <1>3, <1>5, <2>1, <2>2, Zenon
<1>6. CASE ~f.mapped /\ x.fresh
  <2>1. FillInv(x, f, n)
    BY <1>1, <1>2, <1>6, Zenon DEF ObjectInv
  <2>2. PICK k \in 0..HunkCount : GoodMap(f, x.rawmap, truth[n], k)
    BY <2>1, Zenon DEF FillInv
  <2>3. /\ Entries(f, x.rawmap, truth[n], k) /\ TrueBlocks(f, x.rawmap, truth[n])
        /\ n \notin misled /\ ~UncompressedParents => TrueWindows(f, x.rawmap, truth[n])
    BY <2>1, <2>2, Zenon DEF GoodMap, FillInv
  <2> QED
    BY <1>1, <1>2, <1>3, <1>6, <2>3, Zenon DEF Entries, TrueBlocks, TrueWindows
<1> QED
  BY <1>4, <1>5, <1>6

-----------------------------------------------------------------------------
(* Reading goes back: to hunks before, or to the parent *)

Pairs == Objs \X Nat
Rank(rank, q) == rank[q[1]] * (HunkCount + 1) + (IF q[2] \in Hunks THEN q[2] ELSE 0)

\* What a hunk may be read from.
Below(q) ==
  {p \in Pairs : /\ Opened(q[1]) /\ q[2] \in Hunks
                 /\ \/ p[1] = q[1] /\ p[2] \in Hunks /\ p[2] < q[2]
                    \/ chd[q[1]].parent # Nobody /\ p[1] = chd[q[1]].parent}

LEMMA BelowIsLower ==
  ASSUME NEW m \in Nat, NEW rank \in Ranks(m), NEW q \in Pairs, NEW p \in Below(q)
  PROVE  Rank(rank, p) \in Nat /\ Rank(rank, q) \in Nat /\ Rank(rank, p) < Rank(rank, q)
<1> DEFINE place(s) == IF s[2] \in Hunks THEN s[2] ELSE 0
           n == HunkCount + 1
<1>1. /\ n \in Nat \ {0} /\ \A s \in Pairs : place(s) \in 0..HunkCount /\ rank[s[1]] \in Nat
  BY ConstFacts DEF Pairs, Hunks, Ranks
<1>2. p \in Pairs /\ q \in Pairs /\ Opened(q[1]) /\ q[2] \in Hunks
  BY DEF Below
<1>3. rank[p[1]] * n \in Nat /\ rank[q[1]] * n \in Nat /\ place(p) \in 0..HunkCount /\ place(q) \in 1..HunkCount
  <2>1. place(q) = q[2]
    BY <1>2
  <2> QED
    BY <1>1, <1>2, <2>1 DEF Hunks
<1>4. Rank(rank, p) = rank[p[1]] * n + place(p) /\ Rank(rank, q) = rank[q[1]] * n + place(q)
  BY DEF Rank
<1>5. CASE p[1] = q[1] /\ p[2] \in Hunks /\ p[2] < q[2]
  <2>1. place(p) = p[2] /\ place(q) = q[2]
    BY <1>2, <1>5
  <2> HIDE DEF place, n
  <2> QED
    BY <1>3, <1>4, <1>5, <2>1
<1>6. CASE chd[q[1]].parent # Nobody /\ p[1] = chd[q[1]].parent
  <2>1. rank[p[1]] < rank[q[1]]
    BY <1>2, <1>6 DEF Ranks, Pairs
  <2>2. rank[p[1]] + 1 <= rank[q[1]] /\ rank[p[1]] \in Nat /\ rank[q[1]] \in Nat
    BY <1>1, <1>2, <2>1
  <2>3. (rank[p[1]] + 1) * n <= rank[q[1]] * n
    BY <2>2, <1>1, TimesGrows
  <2>4. (rank[p[1]] + 1) * n = rank[p[1]] * n + n
    BY <2>2, <1>1
  <2>5. place(p) < n
    BY <1>3, ConstFacts
  <2> HIDE DEF place, n
  <2> QED
    BY <1>1, <1>3, <1>4, <2>3, <2>4, <2>5
<1> QED
  BY <1>5, <1>6 DEF Below

\* What holds of a hunk if it holds of what the hunk is read from, holds of all.
LEMMA ReadInduction ==
  ASSUME IInv, NEW T, \A q \in Pairs : Below(q) \subseteq T => q \in T
  PROVE  Pairs \subseteq T
<1>1. PICK m \in Nat : Ranks(m) # {}
  BY Zenon DEF IInv, ObjectsInv
<1>2. PICK rank : rank \in Ranks(m)
  BY <1>1
<1> DEFINE Bad == {Rank(rank, q) : q \in Pairs \ T}
<1> SUFFICES ASSUME Bad # {} PROVE FALSE
  OBVIOUS
<1>3. Bad \in SUBSET Nat
  <2>1. \A q \in Pairs : Rank(rank, q) \in Nat
    BY <1>2, ConstFacts DEF Rank, Pairs, Ranks, Hunks
  <2> QED
    BY <2>1
<1>4. PICK k \in Bad : \A j \in Bad : k <= j
  BY <1>3, LeastNat
<1>5. PICK q \in Pairs \ T : k = Rank(rank, q)
  BY <1>4
<1>6. PICK p \in Below(q) : p \notin T
  BY <1>5
<1>7. p \in Pairs \ T
  BY <1>6 DEF Below
<1>8. Rank(rank, p) \in Bad /\ Rank(rank, p) < k /\ Rank(rank, p) \in Nat /\ k \in Nat
  BY <1>2, <1>5, <1>6, <1>7, BelowIsLower
<1> HIDE DEF Bad
<1> QED
  BY <1>4, <1>8

LEMMA BelowPairs ==
  ASSUME NEW o \in Objs, Opened(o), NEW h \in Hunks, h \in Nat
  PROVE  /\ \A g \in Hunks : g \in Nat /\ g < h => <<o, g>> \in Below(<<o, h>>)
         /\ \A g \in Nat : chd[o].parent # Nobody /\ chd[o].parent \in Objs => <<chd[o].parent, g>> \in Below(<<o, h>>)
BY DEF Below, Pairs

\* The parent an object has, or the one it misses.
LEMMA ParentThere ==
  ASSUME IInv, NEW o \in Objs, Opened(o)
  PROVE  LET x == chd[o] f == disk[x.file] IN
         /\ x.parent # Nobody => /\ x.parent \in Objs /\ Opened(x.parent) /\ ~chd[x.parent].fresh /\ ~x.missing
                                 /\ Sha1(x.parent) = f.parentsha1
                                 /\ ~UncompressedParents => Sha1(x.parent) # Null
         /\ x.parent = Nobody => (x.missing <=> f.parentsha1 # Null)
         /\ x.missing \in BOOLEAN
<1>1. KnowsParent(chd[o], disk[chd[o].file]) /\ chd[o].missing \in BOOLEAN
  BY Zenon DEF IInv, ObjectsInv, ObjectInv, ObjectShape
<1> QED
  BY <1>1 DEF KnowsParent, OpenObjs

\* The entries of an old file's map.
LEMMA OldEntry ==
  ASSUME IInv, NEW o \in Objs, Opened(o), chd[o].version # 5, NEW h \in Hunks
  PROVE  LET x == chd[o] f == disk[x.file] e == x.rawmap[h] data == truth[x.file][h]
             crc == e.nocrc \/ e.crc = CrcOf(data)
             stored == /\ e.offset \in DOMAIN f.blocks /\ data \in Contents /\ f.blocks[e.offset].data \in Contents /\ crc
                       /\ x.file \notin damaged => f.blocks[e.offset].data = data
         IN
         /\ x.version < 5 /\ f.mapped /\ f.version = x.version /\ e.nocrc \in BOOLEAN /\ x.rawmap = f.map
         /\ \/ e.type = "compressed" /\ stored /\ f.blocks[e.offset].codec = x.compression[1]
            \/ e.type = "uncompressed" /\ stored
            \/ e.type = "mini" /\ data = [k \in 1..HunkBytes |-> e.offset] /\ crc
            \/ e.type = "self" /\ e.offset + 1 \in Hunks /\ e.offset + 1 < h /\ data = truth[x.file][e.offset + 1]
            \/ e.type = "parent" /\ HasContents(f.parentsha1) /\ e.offset + 1 \in Hunks
               /\ data = ContentsOf(f.parentsha1)[e.offset + 1]
<1> DEFINE x == chd[o]
           n == chd[o].file
           f == disk[n]
           e == x.rawmap[h]
           old == OldFiles[n].file
           data == truth[n][h]
<1>1. /\ n \in DOMAIN OldFiles /\ OldInv(n) /\ Parse(f).error = "NONE" /\ x.version \in {3, 4} /\ x.version = f.version
      /\ ObjectInv(o)
  BY ObjectFacts
<1>2. f.version # 5
  BY <1>1
<1>3. x.rawmap = f.map /\ x.compression[1] = OldCodec(f)
  BY <1>1, <1>2, Zenon DEF ObjectInv, KnowsFile
<1>4. /\ f.mapped /\ f.map = old.map /\ f.parentsha1 = old.parentsha1 /\ OldCodec(f) = OldCodec(old)
      /\ f.map[h].nocrc \in BOOLEAN /\ OldHunk(old, truth[n], h)
  BY <1>1, OldFacts
<1>5. e = old.map[h] /\ e.nocrc \in BOOLEAN
  BY <1>3, <1>4
<1>6. h \in Nat /\ HunkCount \in Nat \ {0} /\ h <= HunkCount
  BY ConstFacts DEF Hunks
<1>7. ASSUME e.offset \in DOMAIN old.blocks, old.blocks[e.offset].data = data, data \in Contents
      PROVE  /\ e.offset \in DOMAIN f.blocks /\ f.blocks[e.offset].codec = old.blocks[e.offset].codec
             /\ f.blocks[e.offset].data \in Contents
             /\ n \notin damaged => f.blocks[e.offset].data = data
  <2>1. /\ DOMAIN f.blocks = DOMAIN old.blocks
        /\ f.blocks[e.offset] = [codec |-> old.blocks[e.offset].codec, data |-> f.blocks[e.offset].data,
                                 len |-> old.blocks[e.offset].len]
        /\ n \notin damaged => f.blocks[e.offset].data = old.blocks[e.offset].data
        /\ f.blocks[e.offset].data \in Contents \cup {old.blocks[e.offset].data}
    BY <1>1, <1>7, Zenon DEF OldInv
  <2> HIDE DEF f, e, old
  <2> QED
    BY <2>1, <1>7
<1> HIDE DEF e, data, f, old
<1>8. /\ e.type \in {"compressed", "uncompressed"} =>
           /\ e.offset \in DOMAIN old.blocks /\ old.blocks[e.offset].data = data /\ data \in Contents
           /\ e.nocrc \/ e.crc = CrcOf(data)
      /\ e.type = "compressed" => old.blocks[e.offset].codec = OldCodec(old)
      /\ e.type = "mini" => data = [k \in 1..HunkBytes |-> e.offset] /\ (e.nocrc \/ e.crc = CrcOf(data))
      /\ e.type = "self" => e.offset \in 0..(h - 2) /\ data = truth[n][e.offset + 1]
      /\ e.type = "parent" => /\ HasContents(old.parentsha1) /\ e.offset \in 0..(HunkCount - 1)
                              /\ data = ContentsOf(old.parentsha1)[e.offset + 1]
      /\ e.type \in {"compressed", "uncompressed", "mini", "self", "parent"}
  BY <1>4, <1>5 DEF OldHunk, data
<1>9. e.type = "self" => e.offset + 1 \in Hunks /\ e.offset + 1 < h
  BY <1>6, <1>8 DEF Hunks
<1>10. e.type = "parent" => e.offset + 1 \in Hunks
  BY <1>6, <1>8 DEF Hunks
<1>11. x.version < 5
  BY <1>1
<1>12. \/ e.type = "compressed" /\ e.offset \in DOMAIN f.blocks /\ data \in Contents /\ f.blocks[e.offset].data \in Contents
          /\ (e.nocrc \/ e.crc = CrcOf(data)) /\ (n \notin damaged => f.blocks[e.offset].data = data)
          /\ f.blocks[e.offset].codec = x.compression[1]
       \/ e.type = "uncompressed" /\ e.offset \in DOMAIN f.blocks /\ data \in Contents /\ f.blocks[e.offset].data \in Contents
          /\ (e.nocrc \/ e.crc = CrcOf(data)) /\ (n \notin damaged => f.blocks[e.offset].data = data)
       \/ e.type = "mini" /\ data = [k \in 1..HunkBytes |-> e.offset] /\ (e.nocrc \/ e.crc = CrcOf(data))
       \/ e.type = "self" /\ e.offset + 1 \in Hunks /\ e.offset + 1 < h /\ data = truth[n][e.offset + 1]
       \/ e.type = "parent" /\ HasContents(f.parentsha1) /\ e.offset + 1 \in Hunks
          /\ data = ContentsOf(f.parentsha1)[e.offset + 1]
  BY <1>3, <1>4, <1>7, <1>8, <1>9, <1>10
<1> QED
  BY <1>1, <1>3, <1>4, <1>5, <1>11, <1>12 DEF e, data, f, old

\* References of a v5 map stay inside the file and its parent.
LEMMA PackedLinks ==
  ASSUME IInv, NEW o \in Objs, Opened(o), chd[o].version = 5, Compressed(chd[o].compression), NEW h \in Hunks
  PROVE  LET x == chd[o] e == x.rawmap[h] IN
         /\ e.comp = SELF => /\ e.offset + 1 \in Hunks /\ e.offset + 1 < h /\ Stored(x.rawmap[e.offset + 1])
                             /\ truth[x.file][e.offset + 1] = truth[x.file][h]
         /\ e.comp = PARENT => /\ e.offset \in Nat /\ (~UncompressedParents => x.missing \/ x.parent # Nobody)
                               /\ ParentEntry(disk[x.file], e)
         /\ Stored(e) => BlockEntry(disk[x.file], e, truth[x.file][h])
         /\ Stored(e) \/ e.comp = SELF \/ e.comp = PARENT \/ (e.comp = Unwritten /\ ~disk[x.file].mapped)
<1> DEFINE x == chd[o]
           f == disk[chd[o].file]
           e == x.rawmap[h]
           contents == truth[x.file]
<1>1. /\ \/ e.comp = Unwritten /\ ~f.mapped
         \/ BlockEntry(f, e, contents[h])
         \/ SelfEntry(x.rawmap, e, contents, h)
         \/ ParentEntry(f, e)
      /\ NewFile(f, contents) /\ h \in Nat
  BY PackedFacts, Zenon
<1>2. h <= HunkCount /\ HunkCount \in Nat \ {0} /\ HunkBytes \in Nat \ {0}
  BY ConstFacts DEF Hunks
<1>3. ASSUME SelfEntry(x.rawmap, e, contents, h)
      PROVE  /\ e.comp = SELF /\ ~Stored(e) /\ e.offset + 1 \in Hunks /\ e.offset + 1 < h
             /\ Stored(x.rawmap[e.offset + 1]) /\ contents[e.offset + 1] = contents[h]
  <2>1. /\ e = Entry(SELF, 0, e.offset, 0) /\ e.offset \in 0..(h - 2) /\ Stored(x.rawmap[e.offset + 1])
        /\ contents[e.offset + 1] = contents[h]
    BY <1>3 DEF SelfEntry
  <2> HIDE DEF e
  <2>2. e.comp = SELF
    BY <2>1 DEF Entry
  <2> QED
    BY <1>1, <1>2, <2>1, <2>2, CompFacts DEF Hunks, Stored
<1>4. ASSUME ParentEntry(f, e)
      PROVE  e.comp = PARENT /\ ~Stored(e) /\ e.offset \in Nat /\ (f.parentsha1 # Null \/ UncompressedParents)
  <2>1. e = Entry(PARENT, 0, e.offset, 0) /\ e.offset \in 0..((HunkCount - 1) * (HunkBytes \div f.unit))
        /\ (f.parentsha1 # Null \/ UncompressedParents)
    BY <1>4, Zenon DEF ParentEntry
  <2>2. f.unit \in Nat \ {0}
    BY <1>1, Zenon DEF NewFile
  <2> HIDE DEF e
  <2>3. e.comp = PARENT /\ e.offset \in Nat
    BY <2>1, <2>2, <1>2 DEF Entry
  <2> QED
    BY <2>1, <2>3, CompFacts DEF Stored
<1>5. BlockEntry(f, e, contents[h]) => Stored(e) /\ e.comp # SELF /\ e.comp # PARENT /\ e.comp # Unwritten
  BY CompFacts, SMTT(30) DEF BlockEntry, Stored
<1>6. f.parentsha1 # Null => x.missing \/ x.parent # Nobody
  BY ParentThere
<1>7. e.comp = Unwritten => ~Stored(e) /\ e.comp # SELF /\ e.comp # PARENT
  BY CompFacts DEF Stored
<1>8. SELF # PARENT
  BY CompFacts
<1> HIDE DEF e, f, contents
<1>9. /\ e.comp = SELF => /\ e.offset + 1 \in Hunks /\ e.offset + 1 < h /\ Stored(x.rawmap[e.offset + 1])
                          /\ contents[e.offset + 1] = contents[h]
      /\ e.comp = PARENT => /\ e.offset \in Nat /\ (~UncompressedParents => x.missing \/ x.parent # Nobody)
                            /\ ParentEntry(f, e)
      /\ Stored(e) => BlockEntry(f, e, contents[h])
      /\ Stored(e) \/ e.comp = SELF \/ e.comp = PARENT \/ (e.comp = Unwritten /\ ~f.mapped)
  BY <1>1, <1>3, <1>4, <1>5, <1>6, <1>7, <1>8
<1> QED
  BY <1>9 DEF e, f, contents

\* What a hunk reads as depends only on what it is read from.
LEMMA ReadDepends ==
  ASSUME IInv, ~UncompressedParents, NEW q \in Pairs, NEW F, NEW G, \A p \in Below(q) : F[p] = G[p]
  PROVE  ReadStep(F, q[1], q[2]) = ReadStep(G, q[1], q[2])
<1>1. PICK o \in Objs, h \in Nat : q = <<o, h>>
  BY DEF Pairs
<1>2. q[1] = o /\ q[2] = h
  BY <1>1
<1> SUFFICES ReadStep(F, o, h) = ReadStep(G, o, h)
  BY <1>2
<1>3. CASE ~Opened(o) \/ h \notin Hunks
  BY <1>3, ReadOutside, Zenon
<1>4. ASSUME Opened(o), h \in Hunks PROVE ReadStep(F, o, h) = ReadStep(G, o, h)
  <2> DEFINE x == chd[o]
             f == disk[x.file]
             e == x.rawmap[h]
  <2>1. /\ \A g \in Hunks : g \in Nat /\ g < h => F[<<o, g>>] = G[<<o, g>>]
        /\ \A g \in Nat : x.parent # Nobody => F[<<x.parent, g>>] = G[<<x.parent, g>>]
    BY <1>1, <1>4, BelowPairs, ParentThere
  <2>2. Hunks \subseteq Nat
    BY ConstFacts DEF Hunks
  <2>3. x.parent = Nobody => (x.missing <=> f.parentsha1 # Null)
    BY <1>4, ParentThere
  <2>4. CASE x.version # 5
    <3>1. /\ x.version < 5
          /\ e.type \in {"compressed", "uncompressed", "mini", "self", "parent"}
          /\ e.type = "self" => e.offset + 1 \in Hunks /\ e.offset + 1 < h
          /\ e.type = "parent" => HasContents(f.parentsha1) /\ e.offset + 1 \in Hunks
      BY <1>4, <2>4, OldEntry
    <3>2. e.type = "parent" => x.missing \/ x.parent # Nobody
      BY <2>3, <3>1, HashFacts
    <3>9. chd[o].version < 5
      BY <3>1
    <3> HIDE DEF x, f, e
    <3>3. e.type = "self" => F[<<o, e.offset + 1>>] = G[<<o, e.offset + 1>>]
      BY <2>1, <2>2, <3>1
    <3>4. e.type = "parent" /\ ~x.missing => F[<<x.parent, e.offset + 1>>] = G[<<x.parent, e.offset + 1>>]
      BY <2>1, <2>2, <3>1, <3>2
    <3>5. ASSUME NEW H
          PROVE  /\ e.type = "compressed" => ReadStep(H, o, h) = Checked(Decode(f, e.offset, x.compression[1]), e.crc, e.nocrc)
                 /\ e.type = "uncompressed" => ReadStep(H, o, h) = Checked(Ok(BlockAt(f, e.offset).data), e.crc, e.nocrc)
                 /\ e.type = "mini" => ReadStep(H, o, h) = Checked(Ok([k \in 1..HunkBytes |-> e.offset]), e.crc, e.nocrc)
                 /\ e.type = "self" => ReadStep(H, o, h) = H[<<o, e.offset + 1>>]
                 /\ e.type = "parent" => ReadStep(H, o, h) =
                      IF x.missing THEN Err("REQUIRES_PARENT") ELSE H[<<x.parent, e.offset + 1>>]
      BY <1>4, <3>9, ReadOld, ZenonT(60) DEF x, f, e
    <3>6. /\ e.type = "compressed" => ReadStep(F, o, h) = ReadStep(G, o, h)
          /\ e.type = "uncompressed" => ReadStep(F, o, h) = ReadStep(G, o, h)
          /\ e.type = "mini" => ReadStep(F, o, h) = ReadStep(G, o, h)
      BY <3>5
    <3>7. e.type = "self" => ReadStep(F, o, h) = ReadStep(G, o, h)
      BY <3>3, <3>5
    <3>8. e.type = "parent" => ReadStep(F, o, h) = ReadStep(G, o, h)
      BY <3>4, <3>5
    <3> QED
      BY <3>1, <3>6, <3>7, <3>8
  <2>5. CASE x.version = 5 /\ ~Compressed(x.compression)
    <3>1. x.parent # Nobody => F[<<x.parent, h>>] = G[<<x.parent, h>>]
      BY <2>1
    <3>2. ASSUME NEW H
          PROVE  /\ e # 0 => ReadStep(H, o, h) = Ok(BlockAt(f, e).data)
                 /\ e = 0 => ReadStep(H, o, h) =
                      IF x.missing THEN Err("REQUIRES_PARENT") ELSE IF x.parent # Nobody THEN H[<<x.parent, h>>] ELSE Ok(Zero)
      BY <1>4, <2>5, ReadPlain, Zenon
    <3> HIDE DEF x, f, e
    <3> QED
      BY <3>1, <3>2
  <2>6. CASE x.version = 5 /\ Compressed(x.compression)
    <3> DEFINE at == e.offset * chd[x.parent].unit
               skip == at % HunkBytes
               first == at \div HunkBytes + 1
    <3>1. /\ Stored(e) \/ e.comp = SELF \/ e.comp = PARENT \/ e.comp = Unwritten
          /\ e.comp = SELF => e.offset + 1 \in Hunks /\ e.offset + 1 < h
          /\ e.comp = PARENT => e.offset \in Nat /\ (x.missing \/ x.parent # Nobody)
      BY <1>4, <2>6, PackedLinks
    <3>2. e.comp = PARENT /\ ~x.missing => first \in Nat /\ first + 1 \in Nat
      <4>1. x.parent # Nobody => chd[x.parent].unit \in Nat
        <5>1. x.parent # Nobody => x.parent \in Objs /\ Opened(x.parent)
          BY <1>4, ParentThere
        <5> QED
          BY <5>1, ObjectFacts DEF ObjectInv
      <4> HIDE DEF x, e
      <4> QED
        BY <3>1, <4>1, ConstFacts
    <3> HIDE DEF at, skip, first
    <3>3. e.comp = PARENT /\ ~x.missing =>
            F[<<x.parent, first>>] = G[<<x.parent, first>>] /\ F[<<x.parent, first + 1>>] = G[<<x.parent, first + 1>>]
      BY <2>1, <3>1, <3>2
    <3>4. e.comp = SELF => F[<<o, e.offset + 1>>] = G[<<o, e.offset + 1>>]
      BY <2>1, <2>2, <3>1
    <3>5. ASSUME NEW H
          PROVE  /\ Stored(e) => ReadStep(H, o, h) = ReadCompressed(x, f, e)
                 /\ e.comp = SELF => ReadStep(H, o, h) = H[<<o, e.offset + 1>>]
                 /\ e.comp = Unwritten => ReadStep(H, o, h) = Err("INVALID_DATA")
                 /\ e.comp = PARENT => ReadStep(H, o, h) =
                      IF x.missing THEN Err("REQUIRES_PARENT") ELSE IF skip = 0 THEN H[<<x.parent, first>>]
                      ELSE Across(H[<<x.parent, first>>], H[<<x.parent, first + 1>>], skip)
      BY <1>4, <2>6, ReadPacked, ZenonT(60) DEF at, skip, first
    <3> HIDE DEF x, f, e
    <3>6. (Stored(e) \/ e.comp = Unwritten) => ReadStep(F, o, h) = ReadStep(G, o, h)
      <4>1. CASE Stored(e)
        <5>1. \A H : ReadStep(H, o, h) = ReadCompressed(x, f, e)
          BY <3>5, <4>1, Zenon
        <5> QED
          BY <5>1, Zenon
      <4>2. CASE e.comp = Unwritten
        <5>1. \A H : ReadStep(H, o, h) = Err("INVALID_DATA")
          BY <3>5, <4>2, Zenon
        <5> QED
          BY <5>1, Zenon
      <4> QED
        BY <4>1, <4>2, Zenon
    <3>7. e.comp = SELF => ReadStep(F, o, h) = ReadStep(G, o, h)
      BY <3>4, <3>5, Zenon
    <3>8. e.comp = PARENT => ReadStep(F, o, h) = ReadStep(G, o, h)
      <4> SUFFICES ASSUME e.comp = PARENT PROVE ReadStep(F, o, h) = ReadStep(G, o, h)
        OBVIOUS
      <4>1. ASSUME NEW H
            PROVE ReadStep(H, o, h) = IF x.missing THEN Err("REQUIRES_PARENT") ELSE IF skip = 0 THEN H[<<x.parent, first>>]
                                      ELSE Across(H[<<x.parent, first>>], H[<<x.parent, first + 1>>], skip)
        BY <3>5, Zenon
      <4>2. CASE x.missing
        <5>1. \A H : ReadStep(H, o, h) = Err("REQUIRES_PARENT")
          BY <4>1, <4>2, Zenon
        <5> QED
          BY <5>1, Zenon
      <4>3. CASE ~x.missing
        <5>1. F[<<x.parent, first>>] = G[<<x.parent, first>>] /\ F[<<x.parent, first + 1>>] = G[<<x.parent, first + 1>>]
          BY <3>3, <4>3, Zenon
        <5>2. \A H : ReadStep(H, o, h) = IF skip = 0 THEN H[<<x.parent, first>>]
                                         ELSE Across(H[<<x.parent, first>>], H[<<x.parent, first + 1>>], skip)
          BY <4>1, <4>3, Zenon
        <5> QED
          BY <5>1, <5>2, Zenon
      <4> QED
        BY <4>2, <4>3, Zenon
    <3> QED
      BY <3>1, <3>6, <3>7, <3>8
  <2> QED
    BY <2>4, <2>5, <2>6
<1> QED
  BY <1>3, <1>4

\* read_hunk comes to an end for every hunk: each is as its step says.
LEMMA ReadUnfolds ==
  ASSUME IInv, ~UncompressedParents
  PROVE  \A q \in Pairs : Reads[q] = ReadStep(Reads, q[1], q[2])
<1>1. PICK m \in Nat : Ranks(m) # {}
  BY Zenon DEF IInv, ObjectsInv
<1>2. PICK rank : rank \in Ranks(m)
  BY <1>1
<1> DEFINE Solves(F) == F = [q \in Pairs |-> ReadStep(F, q[1], q[2])]
           Upto(F, k) == /\ F = [q \in Pairs |-> F[q]]
                         /\ \A q \in Pairs : Rank(rank, q) < k => F[q] = ReadStep(F, q[1], q[2])
           Bad == {k \in Nat : ~\E F : Upto(F, k)}
           bound == (m + 1) * (HunkCount + 1)
<1>3. \A q \in Pairs : Rank(rank, q) \in Nat /\ Rank(rank, q) < bound
  <2> SUFFICES ASSUME NEW q \in Pairs PROVE Rank(rank, q) \in Nat /\ Rank(rank, q) < bound
    OBVIOUS
  <2> DEFINE r == rank[q[1]]
             n == HunkCount + 1
             place == IF q[2] \in Hunks THEN q[2] ELSE 0
  <2>1. r \in 0..m /\ place \in 0..HunkCount /\ HunkCount \in Nat
    BY <1>2, ConstFacts DEF Pairs, Hunks, Ranks
  <2>2. r + 1 <= m + 1 /\ r + 1 \in Nat /\ m + 1 \in Nat /\ n \in Nat
    BY <2>1
  <2>3. (r + 1) * n <= (m + 1) * n
    BY <2>2, TimesGrows
  <2>4. (r + 1) * n = r * n + n /\ r * n \in Nat
    BY <2>1, <2>2
  <2>5. Rank(rank, q) = r * n + place
    BY DEF Rank
  <2> HIDE DEF r, place
  <2> QED
    BY <2>1, <2>3, <2>4, <2>5
<1>4. ASSUME NEW k \in Nat, NEW F, Upto(F, k) PROVE \E G : Upto(G, k + 1)
  <2> DEFINE G == [q \in Pairs |-> IF Rank(rank, q) = k THEN ReadStep(F, q[1], q[2]) ELSE F[q]]
  <2>1. G = [q \in Pairs |-> G[q]]
    OBVIOUS
  <2>2. ASSUME NEW q \in Pairs, Rank(rank, q) < k + 1 PROVE G[q] = ReadStep(G, q[1], q[2])
    <3>1. \A p \in Below(q) : p \in Pairs /\ Rank(rank, p) \in Nat /\ Rank(rank, p) < k
      <4> SUFFICES ASSUME NEW p \in Below(q) PROVE p \in Pairs /\ Rank(rank, p) \in Nat /\ Rank(rank, p) < k
        OBVIOUS
      <4>1. Rank(rank, p) \in Nat /\ Rank(rank, q) \in Nat /\ Rank(rank, p) < Rank(rank, q)
        BY <1>2, BelowIsLower
      <4> QED
        BY <2>2, <4>1 DEF Below
    <3>2. \A p \in Below(q) : F[p] = G[p]
      BY <3>1
    <3> HIDE DEF G
    <3>3. ReadStep(F, q[1], q[2]) = ReadStep(G, q[1], q[2])
      BY <3>2, ReadDepends
    <3>4. G[q] = IF Rank(rank, q) = k THEN ReadStep(F, q[1], q[2]) ELSE F[q]
      BY DEF G
    <3>5. Rank(rank, q) # k => F[q] = ReadStep(F, q[1], q[2])
      <4>1. Rank(rank, q) \in Nat
        BY <1>3
      <4>2. Rank(rank, q) # k => Rank(rank, q) < k
        BY <2>2, <4>1
      <4> QED
        BY <1>4, <4>2
    <3> QED
      BY <3>3, <3>4, <3>5
  <2> HIDE DEF G
  <2>3. Upto(G, k + 1)
    BY <2>1, <2>2
  <2> QED
    BY <2>3
<1>5. \E F : Upto(F, 0)
  <2> DEFINE F == [q \in Pairs |-> 0]
  <2>1. Upto(F, 0)
    <3>1. \A q \in Pairs : ~(Rank(rank, q) < 0)
      BY <1>3
    <3> QED
      BY <3>1
  <2> QED
    BY <2>1
<1>6. Bad = {}
  <2> SUFFICES ASSUME Bad # {} PROVE FALSE
    OBVIOUS
  <2> HIDE DEF Upto
  <2>1. PICK k \in Bad : \A j \in Bad : k <= j
    BY LeastNat
  <2>2. k \in Nat /\ k # 0
    BY <1>5
  <2>3. k - 1 \in Nat /\ k - 1 \notin Bad
    BY <2>1, <2>2
  <2>4. PICK F : Upto(F, k - 1)
    BY <2>3
  <2>5. (k - 1) + 1 = k
    BY <2>2
  <2>6. \E G : Upto(G, k)
    BY <1>4, <2>3, <2>4, <2>5
  <2> QED
    BY <2>6
<1>7. \E F : Solves(F)
  <2>1. bound \in Nat
    BY ConstFacts
  <2>2. PICK F : Upto(F, bound)
    <3> HIDE DEF Upto, bound
    <3> QED
      BY <1>6, <2>1
  <2>3. \A q \in Pairs : F[q] = ReadStep(F, q[1], q[2])
    <3> HIDE DEF bound
    <3> QED
      BY <1>3, <2>2
  <2>4. F = [q \in Pairs |-> F[q]]
    BY <2>2
  <2> QED
    BY <2>3, <2>4
<1>8. Reads = CHOOSE F : Solves(F)
  BY DEF Reads, Pairs
<1>9. Solves(Reads)
  <2> HIDE DEF Solves
  <2> QED
    BY <1>7, <1>8, Zenon
<1>10. Reads = [q \in Pairs |-> ReadStep(Reads, q[1], q[2])]
  BY <1>9
<1> QED
  BY <1>10

-----------------------------------------------------------------------------
(* What is behind an object, and what of it can be trusted *)

LEMMA AncestorFacts ==
  ASSUME IInv, NEW o \in Objs, Opened(o)
  PROVE  /\ o \in Ancestors(o) /\ Ancestors(o) \subseteq Objs
         /\ chd[o].parent # Nobody =>
              /\ chd[o].parent \in Ancestors(o) /\ Ancestors(chd[o].parent) \subseteq Ancestors(o)
              /\ o \notin Ancestors(chd[o].parent)
<1> DEFINE Up(S) == \A q \in S : chd[q].parent # Nobody => chd[q].parent \in S
<1>1. \A p : Ancestors(p) = {q \in Objs : \A S \in SUBSET Objs : p \in S /\ Up(S) => q \in S}
  BY DEF Ancestors
<1> HIDE DEF Up
<1>2. o \in Ancestors(o) /\ Ancestors(o) \subseteq Objs
  BY <1>1
<1>3. ASSUME chd[o].parent # Nobody
      PROVE  /\ chd[o].parent \in Ancestors(o) /\ Ancestors(chd[o].parent) \subseteq Ancestors(o)
             /\ o \notin Ancestors(chd[o].parent)
  <2> DEFINE p == chd[o].parent
  <2>1. p \in Objs
    BY <1>3, ParentThere
  <2>2. \A S \in SUBSET Objs : o \in S /\ Up(S) => p \in S
    BY <1>3 DEF Up
  <2>3. PICK m \in Nat : Ranks(m) # {}
    BY Zenon DEF IInv, ObjectsInv
  <2>4. PICK rank : rank \in Ranks(m)
    BY <2>3
  <2>5. \A q \in Objs : rank[q] \in Nat /\ (chd[q].parent # Nobody => chd[q].parent \in Objs /\ rank[chd[q].parent] < rank[q])
    <3> SUFFICES ASSUME NEW q \in Objs
                 PROVE  rank[q] \in Nat /\ (chd[q].parent # Nobody => chd[q].parent \in Objs /\ rank[chd[q].parent] < rank[q])
      OBVIOUS
    <3>1. ~Opened(q) => chd[q].parent = Nobody
      <4>1. chd[q].file = Nobody => chd[q] = Closed
        BY Zenon DEF IInv, ObjectsInv, ObjectShape
      <4> QED
        BY <4>1 DEF Closed, Opened
    <3>2. Opened(q) /\ chd[q].parent # Nobody => chd[q].parent \in Objs
      BY ParentThere
    <3> QED
      BY <2>4, <3>1, <3>2 DEF Ranks
  <2> DEFINE S == {q \in Objs : rank[q] <= rank[p]}
  <2>6. S \in SUBSET Objs /\ p \in S /\ Up(S)
    BY <2>1, <2>5 DEF Up
  <2>7. o \notin S
    BY <1>3, <2>1, <2>5
  <2> HIDE DEF S, p
  <2>8. Ancestors(p) \subseteq S
    BY <1>1, <2>6
  <2>9. p \in Ancestors(o) /\ Ancestors(p) \subseteq Ancestors(o)
    BY <1>1, <2>1, <2>2
  <2> QED
    BY <2>7, <2>8, <2>9 DEF p
<1> QED
  BY <1>2, <1>3

LEMMA TrustedFacts ==
  ASSUME IInv, NEW o \in Objs, Opened(o)
  PROVE  /\ SameUnits(o) /\ chd[o].parent # Nobody => SameUnits(chd[o].parent) /\ chd[chd[o].parent].unit = chd[o].unit
         /\ Trusted(o) => /\ SameUnits(o) /\ chd[o].file \notin misled
                          /\ chd[o].file \in damaged => HasCrc(disk[chd[o].file])
         /\ Trusted(o) /\ chd[o].parent # Nobody => Trusted(chd[o].parent)
<1>1. o \in Ancestors(o)
  BY AncestorFacts
<1>2. chd[o].parent # Nobody => chd[o].parent \in Ancestors(o) /\ Ancestors(chd[o].parent) \subseteq Ancestors(o)
  BY AncestorFacts
<1>3. SameUnits(o) /\ chd[o].parent # Nobody => SameUnits(chd[o].parent) /\ chd[chd[o].parent].unit = chd[o].unit
  BY <1>2 DEF SameUnits
<1>4. Trusted(o) => /\ SameUnits(o) /\ chd[o].file \notin misled
                    /\ chd[o].file \in damaged => HasCrc(disk[chd[o].file])
  BY <1>1, Zenon DEF Trusted
<1>5. Trusted(o) /\ chd[o].parent # Nobody => Trusted(chd[o].parent)
  BY <1>2, <1>3, Zenon DEF Trusted
<1> QED
  BY <1>3, <1>4, <1>5

-----------------------------------------------------------------------------
(* Blocks *)

LEMMA Results ==
  ASSUME NEW x
  PROVE  Ok(x).error = "NONE" /\ Ok(x).data = x /\ Err(x).error = x
BY DEF Ok, Err

LEMMA CheckedFacts ==
  ASSUME NEW r, NEW crc, NEW nocrc \in BOOLEAN
  PROVE  /\ Checked(r, crc, nocrc).error = "NONE" => Checked(r, crc, nocrc) = r /\ (nocrc \/ CrcOf(r.data) = crc)
         /\ r.error = "NONE" /\ (nocrc \/ CrcOf(r.data) = crc) => Checked(r, crc, nocrc) = r
BY Results DEF Checked

\* CRCs tell the contents apart.
LEMMA SameCrc ==
  ASSUME NEW c \in Contents, NEW d \in Contents, CrcOf(c) = CrcOf(d)
  PROVE  c = d
BY ChdAssumption, Zenon

LEMMA DecodeFacts ==
  ASSUME NEW f, NEW b \in DOMAIN f.blocks, NEW codec
  PROVE  /\ BlockAt(f, b) = f.blocks[b]
         /\ f.blocks[b].codec = codec => Decode(f, b, codec) = Ok(f.blocks[b].data)
         /\ Decode(f, b, codec).error = "NONE" => Decode(f, b, codec) = Ok(f.blocks[b].data)
BY Results DEF BlockAt, Decode

\* A block of a compressed v5 file is what was stored, or an error.
LEMMA BlockRead ==
  ASSUME IInv, NEW o \in Objs, Opened(o), chd[o].version = 5, Compressed(chd[o].compression), NEW h \in Hunks,
         Stored(chd[o].rawmap[h])
  PROVE  LET x == chd[o] f == disk[x.file] e == x.rawmap[h] r == ReadCompressed(x, f, e) IN
         /\ r.error = "NONE" => r.data = truth[x.file][h]
         /\ x.file \notin damaged =>
              /\ r = Ok(truth[x.file][h])
              /\ e.comp # NONE => Decode(f, e.offset, x.compression[e.comp + 1]) = r
<1> DEFINE x == chd[o]
           f == disk[x.file]
           e == x.rawmap[h]
           data == truth[x.file][h]
           name == IF e.comp = NONE THEN "raw" ELSE x.compression[e.comp + 1]
           raw == IF e.comp = NONE THEN Ok(BlockAt(f, e.offset).data) ELSE Decode(f, e.offset, x.compression[e.comp + 1])
<1>1. /\ BlockEntry(f, e, data) /\ x.compression = f.compression /\ NewFile(f, truth[x.file])
      /\ x.file \notin damaged => f.blocks[e.offset].data = data
  BY PackedFacts, PackedLinks, Zenon
<1>2. /\ e.offset \in DOMAIN f.blocks /\ f.blocks[e.offset].codec = name /\ e.crc = CrcOf(data) /\ data \in Contents
  BY <1>1, Zenon DEF BlockEntry, CodecName
<1>3. f.blocks[e.offset].data \in Contents
  <2>1. f.blocks \in [DOMAIN f.blocks -> Blocks]
    BY <1>1, Zenon DEF NewFile
  <2> HIDE DEF f, e
  <2> QED
    BY <1>2, <2>1 DEF Blocks
<1>4. ReadCompressed(x, f, e) = Checked(raw, e.crc, FALSE)
  BY DEF ReadCompressed
<1>6. e.comp # NONE => raw = Decode(f, e.offset, x.compression[e.comp + 1])
  OBVIOUS
<1>7. raw = Ok(f.blocks[e.offset].data)
  BY <1>2, DecodeFacts
<1> HIDE DEF raw, f, e, data, x
<1>5. raw.data = f.blocks[e.offset].data /\ raw.error = "NONE"
  BY <1>7, Results
<1>8. Checked(raw, e.crc, FALSE).error = "NONE" => Checked(raw, e.crc, FALSE).data = data
  <2>1. SUFFICES ASSUME Checked(raw, e.crc, FALSE).error = "NONE" PROVE raw.data = data /\ Checked(raw, e.crc, FALSE) = raw
    OBVIOUS
  <2>2. Checked(raw, e.crc, FALSE) = raw /\ CrcOf(raw.data) = e.crc
    BY <2>1, CheckedFacts
  <2> QED
    BY <1>2, <1>3, <1>5, <2>2, SameCrc
<1>9. f.blocks[e.offset].data = data => Checked(raw, e.crc, FALSE) = Ok(data) /\ raw = Ok(data)
  BY <1>2, <1>7, CheckedFacts, Results
<1> QED
  BY <1>1, <1>4, <1>6, <1>8, <1>9 DEF f, e, data, x

\* And of an old file, unless it is damaged and has no CRCs.
LEMMA OldBlockRead ==
  ASSUME IInv, NEW o \in Objs, Opened(o), chd[o].version # 5, NEW h \in Hunks,
         chd[o].rawmap[h].type \in {"compressed", "uncompressed"}
  PROVE  LET x == chd[o] f == disk[x.file] e == x.rawmap[h]
             raw == IF e.type = "compressed" THEN Decode(f, e.offset, x.compression[1]) ELSE Ok(BlockAt(f, e.offset).data)
             r == Checked(raw, e.crc, e.nocrc)
         IN
         /\ r.error = "NONE" /\ (x.file \in damaged => HasCrc(f)) => r.data = truth[x.file][h]
         /\ x.file \notin damaged => r = Ok(truth[x.file][h]) /\ raw = r
<1> DEFINE x == chd[o]
           f == disk[x.file]
           e == x.rawmap[h]
           data == truth[x.file][h]
           raw == IF e.type = "compressed" THEN Decode(f, e.offset, x.compression[1]) ELSE Ok(BlockAt(f, e.offset).data)
<1>1. /\ x.version < 5 /\ f.version = x.version /\ e.nocrc \in BOOLEAN /\ x.rawmap = f.map
      /\ e.offset \in DOMAIN f.blocks /\ data \in Contents /\ f.blocks[e.offset].data \in Contents
      /\ e.nocrc \/ e.crc = CrcOf(data)
      /\ x.file \notin damaged => f.blocks[e.offset].data = data
      /\ e.type = "compressed" => f.blocks[e.offset].codec = x.compression[1]
  BY OldEntry
<1>2. raw = Ok(f.blocks[e.offset].data)
  BY <1>1, DecodeFacts
<1>3. HasCrc(f) => ~e.nocrc
  BY <1>1 DEF HasCrc
<1> HIDE DEF raw, f, e, data, x
<1>4. Checked(raw, e.crc, e.nocrc).error = "NONE" /\ ~e.nocrc => Checked(raw, e.crc, e.nocrc).data = data
  BY <1>1, <1>2, CheckedFacts, SameCrc, Results
<1>5. f.blocks[e.offset].data = data => Checked(raw, e.crc, e.nocrc) = Ok(data) /\ raw = Ok(data)
  BY <1>1, <1>2, CheckedFacts, Results
<1>6. /\ Checked(raw, e.crc, e.nocrc).error = "NONE" /\ (x.file \in damaged => HasCrc(f)) =>
           Checked(raw, e.crc, e.nocrc).data = data
      /\ x.file \notin damaged => Checked(raw, e.crc, e.nocrc) = Ok(data) /\ raw = Checked(raw, e.crc, e.nocrc)
  BY <1>1, <1>3, <1>4, <1>5, Results
<1> QED
  BY <1>6, Zenon DEF f, e, data, x, raw

-----------------------------------------------------------------------------
(* Hunks come back *)

\* A hunk read from the two hunks of the parent it lies in.
LEMMA WindowRead ==
  ASSUME NEW contents \in [Hunks -> HunkData], NEW at \in Nat, at \div HunkBytes + 1 \in Hunks, NEW r, NEW s,
         r.error = "NONE" => r.data = contents[at \div HunkBytes + 1],
         at % HunkBytes # 0 /\ s.error = "NONE" => s.data = contents[at \div HunkBytes + 1 + 1]
  PROVE  LET w == IF at % HunkBytes = 0 THEN r ELSE Across(r, s, at % HunkBytes) IN
         /\ w.error = "NONE" => w.data = WindowOf(contents, at)
         /\ r.error = "NONE" /\ (at % HunkBytes # 0 => s.error = "NONE") => w.error = "NONE"
<1> DEFINE skip == at % HunkBytes
           first == at \div HunkBytes + 1
<1>1. HunkBytes \in Nat \ {0} /\ at \div HunkBytes \in Nat /\ skip \in Nat
  BY ConstFacts
<1>2. at \div HunkBytes + 2 = first + 1
  BY <1>1
<1>3. WindowOf(contents, at) = Window(contents[first], contents[first + 1], skip)
  BY <1>2, Zenon DEF WindowOf
<1>4. contents[first] \in HunkData
  OBVIOUS
<1>5. CASE skip = 0
  <2>1. \A k \in 1..HunkBytes : 0 + k <= HunkBytes /\ 0 + k = k
    BY <1>1
  <2>2. Window(contents[first], contents[first + 1], 0) = [k \in 1..HunkBytes |-> contents[first][k]]
    BY <2>1 DEF Window
  <2>3. contents[first] = [k \in 1..HunkBytes |-> contents[first][k]]
    BY <1>4 DEF HunkData
  <2>4. Window(contents[first], contents[first + 1], skip) = contents[first]
    BY <1>5, <2>2, <2>3
  <2> QED
    BY <1>3, <1>5, <2>4
<1>6. CASE skip # 0
  <2>1. /\ Across(r, s, skip).error = "NONE" =>
             r.error = "NONE" /\ s.error = "NONE" /\ Across(r, s, skip).data = Window(r.data, s.data, skip)
        /\ r.error = "NONE" /\ s.error = "NONE" => Across(r, s, skip).error = "NONE"
    BY Results DEF Across
  <2> HIDE DEF skip
  <2> QED
    BY <1>3, <1>6, <2>1 DEF skip
<1> QED
  BY <1>5, <1>6

\* The contents an object's file says its parent has are those of the parent it was given.
LEMMA ParentContents ==
  ASSUME IInv, NEW o \in Objs, Opened(o)
  PROVE  /\ chd[o].parent # Nobody /\ HasContents(disk[chd[o].file].parentsha1) =>
              ContentsOf(disk[chd[o].file].parentsha1) = truth[chd[chd[o].parent].file]
         /\ chd[o].parent # Nobody => truth[chd[chd[o].parent].file] \in [Hunks -> HunkData]
         /\ chd[o].parent # Nobody /\ ~UncompressedParents /\ ~HasContents(disk[chd[o].file].parentsha1) =>
              \A F : \A h \in Hunks : ReadStep(F, chd[o].parent, h) = Err("INVALID_DATA")
<1> DEFINE p == chd[o].parent
<1> SUFFICES ASSUME p # Nobody
             PROVE  /\ HasContents(disk[chd[o].file].parentsha1) =>
                         ContentsOf(disk[chd[o].file].parentsha1) = truth[chd[p].file]
                    /\ truth[chd[p].file] \in [Hunks -> HunkData]
                    /\ ~UncompressedParents /\ ~HasContents(disk[chd[o].file].parentsha1) =>
                         \A F : \A h \in Hunks : ReadStep(F, p, h) = Err("INVALID_DATA")
  OBVIOUS
<1>1. /\ p \in Objs /\ Opened(p) /\ ~chd[p].fresh /\ Sha1(p) = disk[chd[o].file].parentsha1
      /\ ~UncompressedParents => Sha1(p) # Null
  BY ParentThere
<1>2. truth[chd[p].file] \in [Hunks -> HunkData]
  BY <1>1, ObjectFacts
<1>3. HasContents(disk[chd[o].file].parentsha1) => ContentsOf(disk[chd[o].file].parentsha1) = truth[chd[p].file]
  BY <1>1, ParentFacts
<1>4. ASSUME ~UncompressedParents, ~HasContents(disk[chd[o].file].parentsha1), NEW F, NEW h \in Hunks
      PROVE  ReadStep(F, p, h) = Err("INVALID_DATA")
  <2>1. chd[p].version = 5 /\ Compressed(chd[p].compression) /\ chd[p].rawmap[h].comp = Unwritten
    BY <1>1, <1>4, ParentFacts
  <2> QED
    BY <1>1, <2>1, ReadPacked, Zenon
<1> QED
  BY <1>2, <1>3, <1>4

LEMMA PlainFacts ==
  ASSUME IInv, NEW o \in Objs, Opened(o), chd[o].version = 5, ~Compressed(chd[o].compression), NEW h \in Hunks
  PROVE  LET x == chd[o] f == disk[x.file] e == x.rawmap[h] IN
         /\ e # 0 => e \in DOMAIN f.blocks /\ (x.file \notin damaged => f.blocks[e].data = truth[x.file][h])
         /\ e = 0 => /\ f.parentsha1 = Null /\ ~UncompressedParents => truth[x.file][h] = Zero
                     /\ HasContents(f.parentsha1) => truth[x.file][h] = ContentsOf(f.parentsha1)[h]
         /\ ~HasCrc(f) /\ f.sha1 = Null /\ x.file \in NewFiles /\ f.mapped
<1> DEFINE x == chd[o]
           f == disk[x.file]
<1>1. ObjectInv(o) /\ NewInv(x.file) /\ x.file \in NewFiles /\ f.version = 5
  BY ObjectFacts
<1>2. x.compression = f.compression /\ (~Compressed(f.compression) => x.rawmap = f.map)
  BY <1>1, Zenon DEF ObjectInv, KnowsFile
<1>3. PlainFile(f, truth[x.file]) /\ (x.file \notin damaged => PlainData(f, truth[x.file]))
  BY <1>1, <1>2, Zenon DEF NewInv
<1>4. ~HasCrc(f)
  BY <1>1, <1>2, Zenon DEF HasCrc
<1> HIDE DEF f, x
<1>5. x.rawmap = f.map
  BY <1>2 DEF x
<1>6. /\ f.map[h] # 0 => f.map[h] \in DOMAIN f.blocks /\ (x.file \notin damaged => f.blocks[f.map[h]].data = truth[x.file][h])
      /\ f.map[h] = 0 => /\ f.parentsha1 = Null /\ ~UncompressedParents => truth[x.file][h] = Zero
                         /\ HasContents(f.parentsha1) => truth[x.file][h] = ContentsOf(f.parentsha1)[h]
      /\ f.mapped /\ f.sha1 = Null
  BY <1>3 DEF PlainFile, PlainData
<1>7. f.map[h] = x.rawmap[h]
  BY <1>5
<1> QED
  BY <1>1, <1>4, <1>6, <1>7, Zenon DEF f, x

\* One hunk, when the hunks it is read from are as they were stored.
LEMMA ReadBackStep ==
  ASSUME IInv, ~UncompressedParents, NEW o \in Objs, Opened(o), NEW h \in Hunks, Trusted(o), NEW F,
         ReadStep(F, o, h).error = "NONE",
         \A g \in Hunks : g < h /\ F[<<o, g>>].error = "NONE" => F[<<o, g>>].data = truth[chd[o].file][g],
         chd[o].parent # Nobody =>
           \A g \in Hunks : /\ F[<<chd[o].parent, g>>] = ReadStep(F, chd[o].parent, g)
                            /\ F[<<chd[o].parent, g>>].error = "NONE" =>
                                 F[<<chd[o].parent, g>>].data = truth[chd[chd[o].parent].file][g]
  PROVE  ReadStep(F, o, h).data = truth[chd[o].file][h]
<1> DEFINE x == chd[o]
           p == x.parent
           n == x.file
           f == disk[n]
           e == x.rawmap[h]
           r == ReadStep(F, o, h)
<1>1. /\ n \notin misled /\ (n \in damaged => HasCrc(f)) /\ SameUnits(o)
      /\ p # Nobody => chd[p].unit = x.unit
  BY TrustedFacts
<1>2. /\ p # Nobody /\ HasContents(f.parentsha1) => ContentsOf(f.parentsha1) = truth[chd[p].file]
      /\ p # Nobody => truth[chd[p].file] \in [Hunks -> HunkData]
      /\ p # Nobody /\ ~HasContents(f.parentsha1) => \A g \in Hunks : ReadStep(F, p, g) = Err("INVALID_DATA")
  BY ParentContents
<1>3. /\ p = Nobody => (x.missing <=> f.parentsha1 # Null)
      /\ p # Nobody => ~x.missing
  BY ParentThere
<1>4. Err("REQUIRES_PARENT").error # "NONE" /\ Err("INVALID_DATA").error # "NONE"
  BY Results
<1>5. h \in Nat
  BY ConstFacts DEF Hunks
<1>6. CASE x.version # 5
  <2>1. /\ e.type \in {"compressed", "uncompressed", "mini", "self", "parent"} /\ x.version < 5 /\ e.nocrc \in BOOLEAN
        /\ e.type = "mini" => truth[n][h] = [k \in 1..HunkBytes |-> e.offset]
        /\ e.type = "self" => e.offset + 1 \in Hunks /\ e.offset + 1 < h /\ truth[n][h] = truth[n][e.offset + 1]
        /\ e.type = "parent" => /\ HasContents(f.parentsha1) /\ e.offset + 1 \in Hunks
                                /\ truth[n][h] = ContentsOf(f.parentsha1)[e.offset + 1]
    BY <1>6, OldEntry
  <2>2. chd[o].version < 5
    BY <2>1
  <2>3. CASE e.type = "compressed"
    <3>1. r = Checked(Decode(f, e.offset, x.compression[1]), e.crc, e.nocrc)
      BY <2>2, <2>3, ReadOld, ZenonT(60)
    <3>2. chd[o].rawmap[h].type \in {"compressed", "uncompressed"}
      BY <2>3
    <3> DEFINE b == Checked(Decode(f, e.offset, x.compression[1]), e.crc, e.nocrc)
    <3>3. b.error = "NONE" /\ (n \in damaged => HasCrc(f)) => b.data = truth[n][h]
      BY <1>6, <2>3, <3>2, OldBlockRead
    <3> QED
      BY <1>1, <3>1, <3>3
  <2>4. CASE e.type = "uncompressed"
    <3>1. r = Checked(Ok(BlockAt(f, e.offset).data), e.crc, e.nocrc)
      BY <2>2, <2>4, ReadOld, ZenonT(60)
    <3>2. chd[o].rawmap[h].type \in {"compressed", "uncompressed"} /\ e.type # "compressed"
      BY <2>4
    <3> DEFINE b == Checked(Ok(BlockAt(f, e.offset).data), e.crc, e.nocrc)
    <3>3. b.error = "NONE" /\ (n \in damaged => HasCrc(f)) => b.data = truth[n][h]
      BY <1>6, <2>4, <3>2, OldBlockRead
    <3> QED
      BY <1>1, <3>1, <3>3
  <2>5. CASE e.type = "mini"
    <3>1. r = Checked(Ok([k \in 1..HunkBytes |-> e.offset]), e.crc, e.nocrc)
      BY <2>2, <2>5, ReadOld, ZenonT(60)
    <3> DEFINE mini == [k \in 1..HunkBytes |-> e.offset]
    <3>2. truth[n][h] = mini /\ r = Checked(Ok(mini), e.crc, e.nocrc) /\ r.error = "NONE"
      BY <2>1, <2>5, <3>1
    <3> HIDE DEF mini, r, e, f
    <3> QED
      BY <2>1, <3>2, CheckedFacts, Results DEF r
  <2>6. CASE e.type = "self"
    <3>1. r = F[<<o, e.offset + 1>>]
      BY <2>2, <2>6, ReadOld, ZenonT(60)
    <3> QED
      BY <2>1, <2>6, <3>1
  <2>7. CASE e.type = "parent"
    <3>1. r = IF x.missing THEN Err("REQUIRES_PARENT") ELSE F[<<p, e.offset + 1>>]
      BY <2>2, <2>7, ReadOld, ZenonT(60)
    <3>2. p # Nobody
      BY <1>3, <1>4, <2>1, <2>7, <3>1, HashFacts
    <3> QED
      BY <1>2, <1>3, <2>1, <2>7, <3>1, <3>2
  <2> QED
    BY <2>1, <2>3, <2>4, <2>5, <2>6, <2>7
<1>7. CASE x.version = 5 /\ ~Compressed(x.compression)
  <2>1. /\ e # 0 => e \in DOMAIN f.blocks /\ (n \notin damaged => f.blocks[e].data = truth[n][h])
        /\ e = 0 => /\ f.parentsha1 = Null /\ ~UncompressedParents => truth[n][h] = Zero
                    /\ HasContents(f.parentsha1) => truth[n][h] = ContentsOf(f.parentsha1)[h]
        /\ ~HasCrc(f)
    BY <1>7, PlainFacts
  <2>2. /\ e # 0 => r = Ok(BlockAt(f, e).data)
        /\ e = 0 => r = IF x.missing THEN Err("REQUIRES_PARENT") ELSE IF p # Nobody THEN F[<<p, h>>] ELSE Ok(Zero)
    BY <1>7, ReadPlain, Zenon
  <2>3. CASE e # 0
    BY <1>1, <2>1, <2>2, <2>3, DecodeFacts, Results
  <2>4. CASE e = 0 /\ p # Nobody
    <3>1. r = F[<<p, h>>]
      BY <1>3, <2>2, <2>4
    <3>2. HasContents(f.parentsha1)
      BY <1>2, <1>4, <2>4, <3>1
    <3> QED
      BY <1>2, <2>1, <2>4, <3>1, <3>2
  <2>5. CASE e = 0 /\ p = Nobody
    <3>1. ~x.missing
      BY <1>4, <2>2, <2>5
    <3> QED
      BY <1>3, <2>1, <2>2, <2>5, <3>1, Results
  <2> QED
    BY <2>3, <2>4, <2>5
<1>8. CASE x.version = 5 /\ Compressed(x.compression)
  <2>1. /\ Stored(e) \/ e.comp = SELF \/ e.comp = PARENT \/ e.comp = Unwritten
        /\ e.comp = SELF => e.offset + 1 \in Hunks /\ e.offset + 1 < h /\ truth[n][e.offset + 1] = truth[n][h]
        /\ e.comp = PARENT => e.offset \in Nat /\ (x.missing \/ p # Nobody) /\ ParentEntry(f, e)
    BY <1>8, PackedLinks
  <2>2. /\ e.comp = PARENT => HasContents(f.parentsha1) /\ truth[n][h] = WindowOf(ContentsOf(f.parentsha1), e.offset * f.unit)
        /\ x.unit = f.unit /\ NewFile(f, truth[n])
    BY <1>1, <1>8, PackedFacts
  <2>3. CASE Stored(e)
    <3>1. r = ReadCompressed(x, f, e)
      BY <1>8, <2>3, ReadPacked, Zenon
    <3>2. ReadCompressed(x, f, e).error = "NONE" => ReadCompressed(x, f, e).data = truth[n][h]
      BY <1>8, <2>3, BlockRead, Zenon
    <3> QED
      BY <3>1, <3>2
  <2>4. CASE e.comp = SELF
    <3>1. r = F[<<o, e.offset + 1>>]
      BY <1>8, <2>4, ReadPacked, ZenonT(60)
    <3> QED
      BY <2>1, <2>4, <3>1
  <2>5. CASE e.comp = Unwritten
    <3>1. r = Err("INVALID_DATA")
      BY <1>8, <2>5, ReadPacked, Zenon
    <3> QED
      BY <1>4, <3>1
  <2>6. CASE e.comp = PARENT
    <3> DEFINE at == e.offset * chd[p].unit
               first == at \div HunkBytes + 1
               w == IF at % HunkBytes = 0 THEN F[<<p, first>>]
                    ELSE Across(F[<<p, first>>], F[<<p, first + 1>>], at % HunkBytes)
    <3>1. r = IF x.missing THEN Err("REQUIRES_PARENT") ELSE w
      BY <1>8, <2>6, ReadPacked, Zenon
    <3>2. ~x.missing /\ p # Nobody /\ r = w
      BY <1>4, <2>1, <2>6, <3>1
    <3>3. chd[p].unit = f.unit /\ f.unit \in Nat \ {0} /\ HunkBytes % f.unit = 0
      BY <1>1, <2>2, <3>2, Zenon DEF NewFile
    <3>4. e.offset \in 0..((HunkCount - 1) * (HunkBytes \div f.unit))
      BY <2>1, <2>6, Zenon DEF ParentEntry
    <3>5. first \in Hunks /\ (at % HunkBytes # 0 => at \div HunkBytes + 2 \in Hunks)
      BY <3>3, <3>4, WindowInside
    <3>6. at \in Nat /\ at \div HunkBytes \in Nat
      <4>1. e.offset \in Nat /\ chd[p].unit \in Nat
        BY <2>1, <2>6, <3>3
      <4> HIDE DEF e, p
      <4> QED
        BY <4>1, TimesInHunk
    <3>7. at \div HunkBytes + 2 = first + 1
      BY <3>6
    <3>8. truth[n][h] = WindowOf(truth[chd[p].file], at)
      BY <1>2, <2>2, <2>6, <3>2, <3>3
    <3> HIDE DEF at
    <3>9. /\ F[<<p, first>>].error = "NONE" => F[<<p, first>>].data = truth[chd[p].file][first]
          /\ at % HunkBytes # 0 /\ F[<<p, first + 1>>].error = "NONE" =>
               F[<<p, first + 1>>].data = truth[chd[p].file][first + 1]
      BY <3>2, <3>5, <3>7
    <3>10. w.error = "NONE" => w.data = WindowOf(truth[chd[p].file], at)
      BY <1>2, <3>2, <3>5, <3>6, <3>9, WindowRead, SMTT(30)
    <3> HIDE DEF first, w, f
    <3> QED
      BY <3>2, <3>8, <3>10
  <2> QED
    BY <2>1, <2>3, <2>4, <2>5, <2>6
<1> QED
  BY <1>6, <1>7, <1>8

LEMMA ReadBackHolds ==
  ASSUME IInv, ~UncompressedParents
  PROVE  ReadBack
<1> DEFINE True(q) == Opened(q[1]) /\ q[2] \in Hunks /\ Reads[q].error = "NONE" /\ Trusted(q[1])
                        => Reads[q].data = truth[chd[q[1]].file][q[2]]
           T == {q \in Pairs : True(q)}
<1>1. \A q \in Pairs : Reads[q] = ReadStep(Reads, q[1], q[2])
  BY ReadUnfolds
<1>2. ASSUME NEW q \in Pairs, Below(q) \subseteq T PROVE q \in T
  <2>1. PICK o \in Objs, h \in Nat : q = <<o, h>>
    BY DEF Pairs
  <2>2. q[1] = o /\ q[2] = h
    BY <2>1
  <2> SUFFICES ASSUME Opened(o), h \in Hunks, Reads[<<o, h>>].error = "NONE", Trusted(o)
               PROVE  Reads[<<o, h>>].data = truth[chd[o].file][h]
    BY <2>1, <2>2
  <2>3. Hunks \subseteq Nat
    BY ConstFacts DEF Hunks
  <2>4. \A g \in Hunks : g < h /\ Reads[<<o, g>>].error = "NONE" => Reads[<<o, g>>].data = truth[chd[o].file][g]
    <3> SUFFICES ASSUME NEW g \in Hunks, g < h, Reads[<<o, g>>].error = "NONE"
                 PROVE  Reads[<<o, g>>].data = truth[chd[o].file][g]
      OBVIOUS
    <3>1. <<o, g>> \in T
      BY <1>2, <2>1, <2>3, BelowPairs
    <3> QED
      BY <3>1
  <2>5. ASSUME chd[o].parent # Nobody, NEW g \in Hunks
        PROVE  /\ Reads[<<chd[o].parent, g>>] = ReadStep(Reads, chd[o].parent, g)
               /\ Reads[<<chd[o].parent, g>>].error = "NONE" =>
                    Reads[<<chd[o].parent, g>>].data = truth[chd[chd[o].parent].file][g]
    <3>1. chd[o].parent \in Objs /\ Opened(chd[o].parent)
      BY <2>5, ParentThere
    <3>2. <<chd[o].parent, g>> \in T
      BY <1>2, <2>1, <2>3, <2>5, <3>1, BelowPairs
    <3>3. Trusted(chd[o].parent)
      BY <2>5, TrustedFacts
    <3>4. <<chd[o].parent, g>> \in Pairs
      BY <2>3, <3>1 DEF Pairs
    <3>5. Reads[<<chd[o].parent, g>>] = ReadStep(Reads, chd[o].parent, g)
      BY <1>1, <3>4
    <3> QED
      BY <3>1, <3>2, <3>3, <3>5
  <2>6. Reads[<<o, h>>] = ReadStep(Reads, o, h)
    BY <1>1, <2>1, <2>2
  <2>7. ReadStep(Reads, o, h).data = truth[chd[o].file][h]
    BY <2>4, <2>5, <2>6, ReadBackStep
  <2> QED
    BY <2>6, <2>7
<1> HIDE DEF T
<1>3. Pairs \subseteq T
  BY <1>2, ReadInduction
<1> QED
  <2> SUFFICES ASSUME NEW o \in OpenObjs, NEW h \in Hunks, Reads[<<o, h>>].error = "NONE", Trusted(o)
               PROVE  Reads[<<o, h>>].data = truth[chd[o].file][h]
    BY Zenon DEF ReadBack, ReadHunk
  <2>1. <<o, h>> \in Pairs
    BY ConstFacts DEF Pairs, OpenObjs, Hunks
  <2>2. <<o, h>> \in T
    BY <1>3, <2>1
  <2> QED
    BY <2>2 DEF T, OpenObjs

\* Nothing behind the object is unfinished, damaged or missing.
Whole(o) ==
  /\ SameUnits(o)
  /\ \A p \in Ancestors(o) : disk[chd[p].file].mapped /\ chd[p].file \notin damaged /\ ~chd[p].missing

LEMMA WholeFacts ==
  ASSUME IInv, NEW o \in Objs, Opened(o), Whole(o)
  PROVE  /\ SameUnits(o) /\ disk[chd[o].file].mapped /\ chd[o].file \notin damaged /\ ~chd[o].missing
         /\ chd[o].parent # Nobody => Whole(chd[o].parent)
<1>1. o \in Ancestors(o)
  BY AncestorFacts
<1>2. chd[o].parent # Nobody => Ancestors(chd[o].parent) \subseteq Ancestors(o)
  BY AncestorFacts
<1>3. SameUnits(o) /\ (chd[o].parent # Nobody => SameUnits(chd[o].parent))
  BY TrustedFacts DEF Whole
<1> QED
  BY <1>1, <1>2, <1>3 DEF Whole

LEMMA FinishedStep ==
  ASSUME IInv, ~UncompressedParents, NEW o \in Objs, Opened(o), NEW h \in Hunks, Whole(o), NEW F,
         \A g \in Hunks : g < h => F[<<o, g>>].error = "NONE",
         chd[o].parent # Nobody => \A g \in Hunks : F[<<chd[o].parent, g>>].error = "NONE"
  PROVE  ReadStep(F, o, h).error = "NONE"
<1> DEFINE x == chd[o]
           p == x.parent
           n == x.file
           f == disk[n]
           e == x.rawmap[h]
           r == ReadStep(F, o, h)
<1>1. /\ n \notin damaged /\ f.mapped /\ ~x.missing /\ SameUnits(o)
      /\ p # Nobody => chd[p].unit = x.unit
  BY WholeFacts, TrustedFacts
<1>2. p = Nobody => f.parentsha1 = Null
  BY <1>1, ParentThere
<1>3. h \in Nat
  BY ConstFacts DEF Hunks
<1>4. CASE x.version # 5
  <2>1. /\ e.type \in {"compressed", "uncompressed", "mini", "self", "parent"} /\ x.version < 5 /\ e.nocrc \in BOOLEAN
        /\ e.type = "mini" => truth[n][h] = [k \in 1..HunkBytes |-> e.offset] /\ (e.nocrc \/ e.crc = CrcOf(truth[n][h]))
        /\ e.type = "self" => e.offset + 1 \in Hunks /\ e.offset + 1 < h
        /\ e.type = "parent" => HasContents(f.parentsha1) /\ e.offset + 1 \in Hunks
    BY <1>4, OldEntry
  <2>2. chd[o].version < 5
    BY <2>1
  <2>3. CASE e.type = "compressed"
    <3>1. r = Checked(Decode(f, e.offset, x.compression[1]), e.crc, e.nocrc)
      BY <2>2, <2>3, ReadOld, Zenon
    <3>2. chd[o].rawmap[h].type \in {"compressed", "uncompressed"}
      BY <2>3
    <3>3. Checked(Decode(f, e.offset, x.compression[1]), e.crc, e.nocrc) = Ok(truth[n][h])
      BY <1>1, <1>4, <2>3, <3>2, OldBlockRead
    <3> QED
      BY <3>1, <3>3, Results
  <2>4. CASE e.type = "uncompressed"
    <3>1. r = Checked(Ok(BlockAt(f, e.offset).data), e.crc, e.nocrc)
      BY <2>2, <2>4, ReadOld, Zenon
    <3>2. chd[o].rawmap[h].type \in {"compressed", "uncompressed"} /\ e.type # "compressed"
      BY <2>4
    <3>3. Checked(Ok(BlockAt(f, e.offset).data), e.crc, e.nocrc) = Ok(truth[n][h])
      BY <1>1, <1>4, <2>4, <3>2, OldBlockRead
    <3> QED
      BY <3>1, <3>3, Results
  <2>5. CASE e.type = "mini"
    <3> DEFINE mini == [k \in 1..HunkBytes |-> e.offset]
    <3>1. r = Checked(Ok(mini), e.crc, e.nocrc)
      BY <2>2, <2>5, ReadOld, Zenon
    <3>2. e.nocrc \in BOOLEAN /\ (e.nocrc \/ e.crc = CrcOf(mini))
      BY <2>1, <2>5
    <3> HIDE DEF mini, r, e, f
    <3>3. Checked(Ok(mini), e.crc, e.nocrc) = Ok(mini)
      BY <3>2, CheckedFacts, Results
    <3> QED
      BY <3>1, <3>3, Results DEF r
  <2>6. CASE e.type = "self"
    <3>1. r = F[<<o, e.offset + 1>>]
      BY <2>2, <2>6, ReadOld, Zenon
    <3> QED
      BY <2>1, <2>6, <3>1
  <2>7. CASE e.type = "parent"
    <3>1. r = IF x.missing THEN Err("REQUIRES_PARENT") ELSE F[<<p, e.offset + 1>>]
      BY <2>2, <2>7, ReadOld, Zenon
    <3>2. p # Nobody
      BY <1>2, <2>1, <2>7, HashFacts
    <3> QED
      BY <1>1, <2>1, <2>7, <3>1, <3>2
  <2> QED
    BY <2>1, <2>3, <2>4, <2>5, <2>6, <2>7
<1>5. CASE x.version = 5 /\ ~Compressed(x.compression)
  <2>1. /\ e # 0 => r = Ok(BlockAt(f, e).data)
        /\ e = 0 => r = IF x.missing THEN Err("REQUIRES_PARENT") ELSE IF p # Nobody THEN F[<<p, h>>] ELSE Ok(Zero)
    BY <1>5, ReadPlain, Zenon
  <2> QED
    BY <1>1, <2>1, Results
<1>6. CASE x.version = 5 /\ Compressed(x.compression)
  <2>1. /\ Stored(e) \/ e.comp = SELF \/ e.comp = PARENT
        /\ e.comp = SELF => e.offset + 1 \in Hunks /\ e.offset + 1 < h
        /\ e.comp = PARENT => e.offset \in Nat /\ (x.missing \/ p # Nobody) /\ ParentEntry(f, e)
    BY <1>1, <1>6, PackedLinks
  <2>2. x.unit = f.unit /\ NewFile(f, truth[n])
    BY <1>6, PackedFacts
  <2>3. CASE Stored(e)
    <3>1. r = ReadCompressed(x, f, e)
      BY <1>6, <2>3, ReadPacked, ZenonT(60)
    <3>2. ReadCompressed(x, f, e) = Ok(truth[n][h])
      BY <1>1, <1>6, <2>3, BlockRead, Zenon
    <3> QED
      BY <3>1, <3>2, Results
  <2>4. CASE e.comp = SELF
    <3>1. r = F[<<o, e.offset + 1>>]
      BY <1>6, <2>4, ReadPacked, Zenon
    <3> QED
      BY <2>1, <2>4, <3>1
  <2>5. CASE e.comp = PARENT
    <3> DEFINE at == e.offset * chd[p].unit
               first == at \div HunkBytes + 1
    <3>1. r = IF x.missing THEN Err("REQUIRES_PARENT")
              ELSE IF at % HunkBytes = 0 THEN F[<<p, first>>]
              ELSE Across(F[<<p, first>>], F[<<p, first + 1>>], at % HunkBytes)
      BY <1>6, <2>5, ReadPacked, Zenon
    <3>2. p # Nobody
      BY <1>1, <2>1, <2>5
    <3>3. chd[p].unit = f.unit /\ f.unit \in Nat \ {0} /\ HunkBytes % f.unit = 0
      BY <1>1, <2>2, <3>2, Zenon DEF NewFile
    <3>4. e.offset \in 0..((HunkCount - 1) * (HunkBytes \div f.unit))
      BY <2>1, <2>5, Zenon DEF ParentEntry
    <3>5. first \in Hunks /\ (at % HunkBytes # 0 => at \div HunkBytes + 2 \in Hunks)
      BY <3>3, <3>4, WindowInside
    <3>6. at \in Nat /\ at \div HunkBytes \in Nat
      <4>1. e.offset \in Nat /\ chd[p].unit \in Nat
        BY <2>1, <2>5, <3>3
      <4> HIDE DEF e, p
      <4> QED
        BY <4>1, TimesInHunk
    <3>7. at \div HunkBytes + 2 = first + 1
      BY <3>6
    <3> HIDE DEF at
    <3>8. F[<<p, first>>].error = "NONE" /\ (at % HunkBytes # 0 => F[<<p, first + 1>>].error = "NONE")
      BY <3>2, <3>5, <3>7
    <3>9. \A a, b, skip : a.error = "NONE" /\ b.error = "NONE" => Across(a, b, skip).error = "NONE"
      BY Results DEF Across
    <3> HIDE DEF first, r, x
    <3> QED
      BY <1>1, <3>1, <3>8, <3>9 DEF r, x
  <2> QED
    BY <2>1, <2>3, <2>4, <2>5
<1> QED
  BY <1>4, <1>5, <1>6

LEMMA FinishedReadsHolds ==
  ASSUME IInv, ~UncompressedParents
  PROVE  FinishedReads
<1> DEFINE T == {q \in Pairs : Opened(q[1]) /\ q[2] \in Hunks /\ Whole(q[1]) => Reads[q].error = "NONE"}
<1>1. \A q \in Pairs : Reads[q] = ReadStep(Reads, q[1], q[2])
  BY ReadUnfolds
<1>2. ASSUME NEW q \in Pairs, Below(q) \subseteq T PROVE q \in T
  <2>1. PICK o \in Objs, h \in Nat : q = <<o, h>>
    BY DEF Pairs
  <2>2. q[1] = o /\ q[2] = h
    BY <2>1
  <2> SUFFICES ASSUME Opened(o), h \in Hunks, Whole(o) PROVE Reads[<<o, h>>].error = "NONE"
    BY <2>1, <2>2
  <2>3. Hunks \subseteq Nat
    BY ConstFacts DEF Hunks
  <2>4. ASSUME NEW g \in Hunks, g < h PROVE Reads[<<o, g>>].error = "NONE"
    <3>1. <<o, g>> \in T
      BY <1>2, <2>1, <2>3, <2>4, BelowPairs
    <3> QED
      BY <3>1
  <2>5. ASSUME chd[o].parent # Nobody, NEW g \in Hunks PROVE Reads[<<chd[o].parent, g>>].error = "NONE"
    <3>1. chd[o].parent \in Objs /\ Opened(chd[o].parent) /\ Whole(chd[o].parent)
      BY <2>5, ParentThere, WholeFacts
    <3>2. <<chd[o].parent, g>> \in T
      BY <1>2, <2>1, <2>3, <2>5, <3>1, BelowPairs
    <3> QED
      BY <3>1, <3>2
  <2>6. Reads[<<o, h>>] = ReadStep(Reads, o, h)
    BY <1>1, <2>1, <2>2
  <2>7. ReadStep(Reads, o, h).error = "NONE"
    BY <2>4, <2>5, FinishedStep
  <2> QED
    BY <2>6, <2>7
<1> HIDE DEF T
<1>3. Pairs \subseteq T
  BY <1>2, ReadInduction
<1> QED
  <2> SUFFICES ASSUME NEW o \in OpenObjs, NEW h \in Hunks, Whole(o)
               PROVE  Reads[<<o, h>>].error = "NONE"
    BY Zenon DEF FinishedReads, ReadHunk, Whole
  <2>1. <<o, h>> \in Pairs
    BY ConstFacts DEF Pairs, OpenObjs, Hunks
  <2>2. <<o, h>> \in T
    BY <1>3, <2>1
  <2> QED
    BY <2>2 DEF T, OpenObjs

-----------------------------------------------------------------------------
(* What a file says of itself *)

LEMMA InheritsHolds ==
  ASSUME IInv, ~UncompressedParents
  PROVE  Inherits
<1> SUFFICES ASSUME NEW o \in OpenObjs, NEW h \in Hunks, chd[o].version = 5, ~Compressed(chd[o].compression),
                    chd[o].rawmap[h] = 0, chd[o].parent # Nobody, disk[chd[chd[o].parent].file].mapped
             PROVE  truth[chd[chd[o].parent].file][h] = truth[chd[o].file][h]
  BY Zenon DEF Inherits
<1> DEFINE p == chd[o].parent
           f == disk[chd[o].file]
<1>1. o \in Objs /\ Opened(o)
  BY DEF OpenObjs
<1>2. p \in Objs /\ Opened(p) /\ Sha1(p) = f.parentsha1 /\ Sha1(p) # Null
  BY <1>1, ParentThere
<1>3. HasContents(f.parentsha1)
  BY <1>2, ParentFacts
<1>4. truth[chd[o].file][h] = ContentsOf(f.parentsha1)[h]
  BY <1>1, <1>3, PlainFacts
<1>5. ContentsOf(f.parentsha1) = truth[chd[p].file]
  BY <1>1, <1>3, ParentContents
<1> QED
  BY <1>4, <1>5

LEMMA HashesTrueHolds ==
  ASSUME IInv
  PROVE  HashesTrue
<1> SUFFICES ASSUME NEW n \in NewFiles, disk[n] # NoFile, Compressed(disk[n].compression), disk[n].mapped
             PROVE  /\ disk[n].rawsha1 = RawSha1(truth[n])
                    /\ disk[n].sha1 = <<"all", RawSha1(truth[n]), [t \in DOMAIN disk[n].meta \ {"NOTE"} |-> disk[n].meta[t]]>>
  BY Zenon DEF HashesTrue, NewFiles
<1>1. NewInv(n)
  BY Zenon DEF IInv, FileInv, NewFiles
<1>2. disk[n].rawsha1 = RawSha1(truth[n]) /\ disk[n].sha1 = Overall(disk[n].rawsha1, disk[n])
  BY <1>1, Zenon DEF NewInv, PackedFile
<1>3. ~(5 < 4)
  OBVIOUS
<1> QED
  BY <1>2, <1>3, Zenon DEF Overall, ComputeOverallSha1

\* hunk_info gives bytes to the hunks stored in blocks.
LEMMA InfoFacts ==
  ASSUME IInv, NEW o \in Objs, Opened(o), chd[o].version = 5, Compressed(chd[o].compression), disk[chd[o].file].mapped,
         NEW h \in Hunks
  PROVE  /\ HunkInfo(o, h).bytes > 0 <=> Stored(chd[o].rawmap[h])
         /\ Stored(chd[o].rawmap[h]) =>
              /\ chd[o].rawmap[h].offset \in DOMAIN disk[chd[o].file].blocks
              /\ disk[chd[o].file].blocks[chd[o].rawmap[h].offset].len = HunkInfo(o, h).bytes
<1> DEFINE x == chd[o]
           f == disk[x.file]
           e == x.rawmap[h]
           is(codec, bytes) == [error |-> "NONE", codec |-> codec, bytes |-> bytes]
           name == IF e.comp \in 0..3 THEN x.compression[e.comp + 1]
                   ELSE CASE e.comp = NONE -> "none" [] e.comp = SELF -> "self" [] e.comp = PARENT -> "parent"
<1>1. /\ Stored(e) \/ e.comp = SELF \/ e.comp = PARENT
      /\ Stored(e) => BlockEntry(f, e, truth[x.file][h])
  BY PackedLinks
<1>2. ~(x.version < 5) /\ e.comp # Unwritten
  BY <1>1, CompFacts DEF Stored
<1>3. HunkInfo(o, h) = is(name, StoredBytes(x, e))
  BY <1>2, Zenon DEF HunkInfo
<1> HIDE DEF name
<1>4. HunkInfo(o, h).bytes = StoredBytes(x, e)
  BY <1>3
<1>5. FileBytes \in Nat /\ FileBytes > 1
  BY ConstFacts
<1>6. CASE Stored(e)
  <2>1. /\ e.offset \in DOMAIN f.blocks /\ f.blocks[e.offset].len = e.length
        /\ e.length = (IF e.comp = NONE THEN FileBytes ELSE FileBytes - 1)
    BY <1>1, <1>6, Zenon DEF BlockEntry
  <2> HIDE DEF f, e
  <2>2. StoredBytes(x, e) = e.length
    BY <1>6, <2>1, CompFacts DEF StoredBytes, Stored
  <2>3. e.length > 0
    BY <1>5, <2>1
  <2>4. StoredBytes(x, e) > 0
    BY <2>2, <2>3
  <2> QED
    BY <1>4, <1>6, <2>1, <2>2, <2>4 DEF e, f
<1>7. CASE ~Stored(e)
  <2> HIDE DEF e
  <2>1. StoredBytes(x, e) = 0
    BY <1>1, <1>7, CompFacts DEF StoredBytes, Stored
  <2> QED
    BY <1>4, <1>7, <2>1 DEF e
<1> QED
  BY <1>6, <1>7

LEMMA InfoAccountsHolds ==
  ASSUME IInv
  PROVE  InfoAccounts
<1> SUFFICES ASSUME NEW o \in OpenObjs, chd[o].version = 5, Compressed(chd[o].compression), disk[chd[o].file].mapped
             PROVE  LET f == disk[chd[o].file]
                        stored == {h \in Hunks : HunkInfo(o, h).bytes > 0}
                        at(h) == chd[o].rawmap[h].offset
                    IN  /\ DOMAIN f.blocks = {at(h) : h \in stored}
                        /\ \A h \in stored : f.blocks[at(h)].len = HunkInfo(o, h).bytes
                        /\ \A g, h \in stored : at(g) = at(h) => g = h
  BY Zenon DEF InfoAccounts
<1> DEFINE x == chd[o]
           f == disk[x.file]
           stored == {h \in Hunks : HunkInfo(o, h).bytes > 0}
<1>1. o \in Objs /\ Opened(o)
  BY DEF OpenObjs
<1>2. NewInv(x.file) /\ ObjectInv(o) /\ f.version = 5
  BY <1>1, ObjectFacts
<1>3. x.compression = f.compression /\ (Compressed(f.compression) => x.rawmap = f.map.mapcrc)
  BY <1>2, Zenon DEF ObjectInv, KnowsFile
<1>4. OwnBlocks(f, x.rawmap)
  BY <1>2, <1>3, Zenon DEF NewInv, PackedFile, GoodMap
<1>5. /\ stored = {g \in Hunks : Stored(x.rawmap[g])}
      /\ \A h \in stored : f.blocks[x.rawmap[h].offset].len = HunkInfo(o, h).bytes
  BY <1>1, InfoFacts
<1>6. /\ DOMAIN f.blocks = {x.rawmap[h].offset : h \in stored}
      /\ \A g, h \in stored : x.rawmap[g].offset = x.rawmap[h].offset => g = h
  BY <1>4, <1>5 DEF OwnBlocks
<1> HIDE DEF stored, f
<1> QED
  BY <1>5, <1>6 DEF stored, f


-----------------------------------------------------------------------------
(* codec_process_hunk *)

LEMMA ProcessOutside ==
  ASSUME NEW F, NEW o \in Objs, NEW h, ~Opened(o) \/ h \notin Hunks
  PROVE  ProcessStep(F, o, h) = Err(IF Opened(o) THEN "HUNK_OUT_OF_RANGE" ELSE "NOT_OPEN")
BY DEF ProcessStep

LEMMA ProcessOld ==
  ASSUME NEW F, NEW o \in Objs, Opened(o), NEW h \in Hunks, chd[o].version < 5
  PROVE  LET x == chd[o] f == disk[x.file] e == x.rawmap[h] IN
         /\ e.type = "compressed" => ProcessStep(F, o, h) = Decode(f, e.offset, x.compression[1])
         /\ e.type \in {"uncompressed", "mini"} => ProcessStep(F, o, h) = Err("UNSUPPORTED_FORMAT")
         /\ e.type = "self" => ProcessStep(F, o, h) = F[<<o, e.offset + 1>>]
         /\ e.type = "parent" => ProcessStep(F, o, h) =
              IF x.missing THEN Err("REQUIRES_PARENT") ELSE F[<<x.parent, e.offset + 1>>]
BY DEF ProcessStep

LEMMA ProcessPlain ==
  ASSUME NEW F, NEW o \in Objs, Opened(o), NEW h \in Hunks, chd[o].version = 5, ~Compressed(chd[o].compression)
  PROVE  ProcessStep(F, o, h) = Err("UNSUPPORTED_FORMAT")
BY DEF ProcessStep

LEMMA ProcessPacked ==
  ASSUME NEW F, NEW o \in Objs, Opened(o), NEW h \in Hunks, chd[o].version = 5, Compressed(chd[o].compression)
  PROVE  LET x == chd[o] f == disk[x.file] e == x.rawmap[h] IN
         /\ Stored(e) => ProcessStep(F, o, h) = IF e.comp = NONE THEN Err("UNSUPPORTED_FORMAT")
                                                ELSE Decode(f, e.offset, x.compression[e.comp + 1])
         /\ e.comp = SELF => ProcessStep(F, o, h) = F[<<o, e.offset + 1>>]
         /\ e.comp = PARENT => ProcessStep(F, o, h) =
              IF x.missing THEN Err("REQUIRES_PARENT") ELSE F[<<x.parent, ParentHunkOf(x, e)>>]
         /\ e.comp = Unwritten => ProcessStep(F, o, h) = Err("INVALID_DATA")
<1> DEFINE x == chd[o]
           f == disk[x.file]
           e == x.rawmap[h]
           parent(g) == IF x.missing THEN Err("REQUIRES_PARENT") ELSE F[<<x.parent, g>>]
           at == ParentHunkOf(x, e)
           decoded == Decode(f, e.offset, x.compression[e.comp + 1])
<1>1. ProcessStep(F, o, h) =
        CASE e.comp \in 0..3 -> decoded
          [] e.comp = NONE   -> Err("UNSUPPORTED_FORMAT")
          [] e.comp = SELF   -> F[<<o, e.offset + 1>>]
          [] e.comp = PARENT -> parent(at)
          [] OTHER           -> Err("INVALID_DATA")
  <2>1. Opened(o) /\ h \in Hunks /\ ~(chd[o].version < 5) /\ Compressed(chd[o].compression)
    OBVIOUS
  <2> QED
    BY <2>1, Zenon DEF ProcessStep
<1> HIDE DEF at, decoded, f, e, x
<1>2. /\ Stored(e) => e.comp \in 0..3 \/ e.comp = NONE
      /\ e.comp \in 0..3 => e.comp # NONE /\ e.comp # SELF /\ e.comp # PARENT
      /\ e.comp = Unwritten => e.comp \notin 0..3 /\ e.comp # NONE /\ e.comp # SELF /\ e.comp # PARENT
      /\ SELF # PARENT /\ SELF # NONE /\ PARENT # NONE /\ SELF \notin 0..3 /\ PARENT \notin 0..3 /\ NONE \notin 0..3
  BY CompFacts DEF Stored
<1>3. Stored(e) => ProcessStep(F, o, h) = IF e.comp = NONE THEN Err("UNSUPPORTED_FORMAT") ELSE decoded
  BY <1>1, <1>2
<1>4. e.comp = SELF => ProcessStep(F, o, h) = F[<<o, e.offset + 1>>]
  BY <1>1, <1>2
<1>5. e.comp = PARENT => ProcessStep(F, o, h) = IF x.missing THEN Err("REQUIRES_PARENT") ELSE F[<<x.parent, at>>]
  BY <1>1, <1>2
<1>6. e.comp = Unwritten => ProcessStep(F, o, h) = Err("INVALID_DATA")
  BY <1>1, <1>2
<1> QED
  BY <1>3, <1>4, <1>5, <1>6 DEF at, decoded, f, e, x

\* The parent's hunk by units is the one by bytes.
LEMMA ParentHunk ==
  ASSUME IInv, NEW o \in Objs, Opened(o), chd[o].version = 5, Compressed(chd[o].compression), NEW h \in Hunks,
         chd[o].rawmap[h].comp = PARENT, chd[o].parent # Nobody
  PROVE  LET x == chd[o] e == x.rawmap[h] at == e.offset * chd[x.parent].unit IN
         /\ ParentHunkOf(x, e) = at \div HunkBytes + 1 /\ ParentHunkOf(x, e) \in Nat
         /\ Aligned(o, h) => at % HunkBytes = 0
<1> DEFINE x == chd[o]
           e == x.rawmap[h]
           u == chd[x.parent].unit
<1>1. e.offset \in Nat
  BY PackedLinks
<1>2. u \in Nat \ {0} /\ HunkBytes % u = 0
  <2>1. x.parent \in Objs /\ Opened(x.parent)
    BY ParentThere
  <2> QED
    BY <2>1, ObjectFacts DEF ObjectInv
<1>3. ParentHunkOf(x, e) = e.offset \div (HunkBytes \div u) + 1
  BY DEF ParentHunkOf, UnitsPerHunk
<1>4. Aligned(o, h) => e.offset % (HunkBytes \div u) = 0
  BY DEF Aligned, UnitsPerHunk
<1> HIDE DEF e, u, x
<1>5. (e.offset * u) \div HunkBytes = e.offset \div (HunkBytes \div u)
      /\ ((e.offset * u) % HunkBytes = 0 <=> e.offset % (HunkBytes \div u) = 0)
  <2>1. HunkBytes \in Nat \ {0}
    BY ConstFacts
  <2> QED
    BY <1>1, <1>2, <2>1, HunkOfUnit, Zenon
<1>6. (e.offset * u) \div HunkBytes \in Nat
  BY <1>1, <1>2, TimesInHunk
<1>7. ParentHunkOf(x, e) = (e.offset * u) \div HunkBytes + 1
  BY <1>3, <1>5
<1>8. Aligned(o, h) => (e.offset * u) % HunkBytes = 0
  BY <1>4, <1>5
<1>9. (e.offset * u) \div HunkBytes + 1 \in Nat
  BY <1>6
<1> QED
  BY <1>7, <1>8, <1>9 DEF e, u, x

\* What a hunk is handed out as depends only on what it is read from.
LEMMA ProcessDepends ==
  ASSUME IInv, ~UncompressedParents, NEW q \in Pairs, NEW F, NEW G, \A p \in Below(q) : F[p] = G[p]
  PROVE  ProcessStep(F, q[1], q[2]) = ProcessStep(G, q[1], q[2])
<1>1. PICK o \in Objs, h \in Nat : q = <<o, h>>
  BY DEF Pairs
<1>2. q[1] = o /\ q[2] = h
  BY <1>1
<1> SUFFICES ProcessStep(F, o, h) = ProcessStep(G, o, h)
  BY <1>2
<1>3. CASE ~Opened(o) \/ h \notin Hunks
  BY <1>3, ProcessOutside, Zenon
<1>4. ASSUME Opened(o), h \in Hunks PROVE ProcessStep(F, o, h) = ProcessStep(G, o, h)
  <2> DEFINE x == chd[o]
             f == disk[x.file]
             e == x.rawmap[h]
  <2>1. /\ \A g \in Hunks : g \in Nat /\ g < h => F[<<o, g>>] = G[<<o, g>>]
        /\ \A g \in Nat : x.parent # Nobody => F[<<x.parent, g>>] = G[<<x.parent, g>>]
    BY <1>1, <1>4, BelowPairs, ParentThere
  <2>2. Hunks \subseteq Nat
    BY ConstFacts DEF Hunks
  <2>3. x.parent = Nobody => (x.missing <=> f.parentsha1 # Null)
    BY <1>4, ParentThere
  <2>4. CASE x.version # 5
    <3>1. /\ x.version < 5
          /\ e.type \in {"compressed", "uncompressed", "mini", "self", "parent"}
          /\ e.type = "self" => e.offset + 1 \in Hunks /\ e.offset + 1 < h
          /\ e.type = "parent" => HasContents(f.parentsha1) /\ e.offset + 1 \in Hunks
      BY <1>4, <2>4, OldEntry
    <3>2. e.type = "parent" => x.missing \/ x.parent # Nobody
      BY <2>3, <3>1, HashFacts
    <3>3. chd[o].version < 5
      BY <3>1
    <3> HIDE DEF x, f, e
    <3>4. e.type = "self" => F[<<o, e.offset + 1>>] = G[<<o, e.offset + 1>>]
      BY <2>1, <2>2, <3>1
    <3>5. e.type = "parent" /\ ~x.missing => F[<<x.parent, e.offset + 1>>] = G[<<x.parent, e.offset + 1>>]
      BY <2>1, <2>2, <3>1, <3>2
    <3>6. ASSUME NEW H
          PROVE  /\ e.type = "compressed" => ProcessStep(H, o, h) = Decode(f, e.offset, x.compression[1])
                 /\ e.type \in {"uncompressed", "mini"} => ProcessStep(H, o, h) = Err("UNSUPPORTED_FORMAT")
                 /\ e.type = "self" => ProcessStep(H, o, h) = H[<<o, e.offset + 1>>]
                 /\ e.type = "parent" => ProcessStep(H, o, h) =
                      IF x.missing THEN Err("REQUIRES_PARENT") ELSE H[<<x.parent, e.offset + 1>>]
      BY <1>4, <3>3, ProcessOld, ZenonT(60) DEF x, f, e
    <3>7. e.type \in {"compressed", "uncompressed", "mini"} => ProcessStep(F, o, h) = ProcessStep(G, o, h)
      BY <3>6
    <3>8. e.type = "self" => ProcessStep(F, o, h) = ProcessStep(G, o, h)
      BY <3>4, <3>6
    <3>9. e.type = "parent" => ProcessStep(F, o, h) = ProcessStep(G, o, h)
      BY <3>5, <3>6
    <3> QED
      BY <3>1, <3>7, <3>8, <3>9
  <2>5. CASE x.version = 5 /\ ~Compressed(x.compression)
    BY <1>4, <2>5, ProcessPlain, Zenon
  <2>6. CASE x.version = 5 /\ Compressed(x.compression)
    <3> DEFINE at == ParentHunkOf(x, e)
               decoded == Decode(f, e.offset, x.compression[e.comp + 1])
    <3>1. /\ Stored(e) \/ e.comp = SELF \/ e.comp = PARENT \/ e.comp = Unwritten
          /\ e.comp = SELF => e.offset + 1 \in Hunks /\ e.offset + 1 < h
          /\ e.comp = PARENT => x.missing \/ x.parent # Nobody
      BY <1>4, <2>6, PackedLinks
    <3>2. e.comp = PARENT /\ ~x.missing => at \in Nat
      BY <1>4, <2>6, <3>1, ParentHunk
    <3> HIDE DEF at, decoded
    <3>3. e.comp = PARENT /\ ~x.missing => F[<<x.parent, at>>] = G[<<x.parent, at>>]
      BY <2>1, <3>1, <3>2
    <3>4. e.comp = SELF => F[<<o, e.offset + 1>>] = G[<<o, e.offset + 1>>]
      BY <2>1, <2>2, <3>1
    <3>5. ASSUME NEW H
          PROVE  /\ Stored(e) => ProcessStep(H, o, h) = IF e.comp = NONE THEN Err("UNSUPPORTED_FORMAT") ELSE decoded
                 /\ e.comp = SELF => ProcessStep(H, o, h) = H[<<o, e.offset + 1>>]
                 /\ e.comp = PARENT => ProcessStep(H, o, h) =
                      IF x.missing THEN Err("REQUIRES_PARENT") ELSE H[<<x.parent, at>>]
                 /\ e.comp = Unwritten => ProcessStep(H, o, h) = Err("INVALID_DATA")
      BY <1>4, <2>6, ProcessPacked, Zenon DEF at, decoded
    <3> HIDE DEF x, f, e
    <3>6. (Stored(e) \/ e.comp = Unwritten) => ProcessStep(F, o, h) = ProcessStep(G, o, h)
      BY <3>5
    <3>7. e.comp = SELF => ProcessStep(F, o, h) = ProcessStep(G, o, h)
      BY <3>4, <3>5
    <3>8. e.comp = PARENT => ProcessStep(F, o, h) = ProcessStep(G, o, h)
      BY <3>3, <3>5
    <3> QED
      BY <3>1, <3>6, <3>7, <3>8
  <2> QED
    BY <2>4, <2>5, <2>6
<1> QED
  BY <1>3, <1>4

\* codec_process_hunk comes to an end for every hunk: each is as its step says.
LEMMA ProcessUnfolds ==
  ASSUME IInv, ~UncompressedParents
  PROVE  \A q \in Pairs : Processes[q] = ProcessStep(Processes, q[1], q[2])
<1>1. PICK m \in Nat : Ranks(m) # {}
  BY Zenon DEF IInv, ObjectsInv
<1>2. PICK rank : rank \in Ranks(m)
  BY <1>1
<1> DEFINE Solves(F) == F = [q \in Pairs |-> ProcessStep(F, q[1], q[2])]
           Upto(F, k) == /\ F = [q \in Pairs |-> F[q]]
                         /\ \A q \in Pairs : Rank(rank, q) < k => F[q] = ProcessStep(F, q[1], q[2])
           Bad == {k \in Nat : ~\E F : Upto(F, k)}
           bound == (m + 1) * (HunkCount + 1)
<1>3. \A q \in Pairs : Rank(rank, q) \in Nat /\ Rank(rank, q) < bound
  <2> SUFFICES ASSUME NEW q \in Pairs PROVE Rank(rank, q) \in Nat /\ Rank(rank, q) < bound
    OBVIOUS
  <2> DEFINE r == rank[q[1]]
             n == HunkCount + 1
             place == IF q[2] \in Hunks THEN q[2] ELSE 0
  <2>1. r \in 0..m /\ place \in 0..HunkCount /\ HunkCount \in Nat
    BY <1>2, ConstFacts DEF Pairs, Hunks, Ranks
  <2>2. r + 1 <= m + 1 /\ r + 1 \in Nat /\ m + 1 \in Nat /\ n \in Nat
    BY <2>1
  <2>3. (r + 1) * n <= (m + 1) * n
    BY <2>2, TimesGrows
  <2>4. (r + 1) * n = r * n + n /\ r * n \in Nat
    BY <2>1, <2>2
  <2>5. Rank(rank, q) = r * n + place
    BY DEF Rank
  <2> HIDE DEF r, place
  <2> QED
    BY <2>1, <2>3, <2>4, <2>5
<1>4. ASSUME NEW k \in Nat, NEW F, Upto(F, k) PROVE \E G : Upto(G, k + 1)
  <2> DEFINE G == [q \in Pairs |-> IF Rank(rank, q) = k THEN ProcessStep(F, q[1], q[2]) ELSE F[q]]
  <2>1. G = [q \in Pairs |-> G[q]]
    OBVIOUS
  <2>2. ASSUME NEW q \in Pairs, Rank(rank, q) < k + 1 PROVE G[q] = ProcessStep(G, q[1], q[2])
    <3>1. \A p \in Below(q) : p \in Pairs /\ Rank(rank, p) \in Nat /\ Rank(rank, p) < k
      <4> SUFFICES ASSUME NEW p \in Below(q) PROVE p \in Pairs /\ Rank(rank, p) \in Nat /\ Rank(rank, p) < k
        OBVIOUS
      <4>1. Rank(rank, p) \in Nat /\ Rank(rank, q) \in Nat /\ Rank(rank, p) < Rank(rank, q)
        BY <1>2, BelowIsLower
      <4> QED
        BY <2>2, <4>1 DEF Below
    <3>2. \A p \in Below(q) : F[p] = G[p]
      BY <3>1
    <3> HIDE DEF G
    <3>3. ProcessStep(F, q[1], q[2]) = ProcessStep(G, q[1], q[2])
      BY <3>2, ProcessDepends
    <3>4. G[q] = IF Rank(rank, q) = k THEN ProcessStep(F, q[1], q[2]) ELSE F[q]
      BY DEF G
    <3>5. Rank(rank, q) # k => F[q] = ProcessStep(F, q[1], q[2])
      <4>1. Rank(rank, q) \in Nat
        BY <1>3
      <4>2. Rank(rank, q) # k => Rank(rank, q) < k
        BY <2>2, <4>1
      <4> QED
        BY <1>4, <4>2
    <3> QED
      BY <3>3, <3>4, <3>5
  <2> HIDE DEF G
  <2>3. Upto(G, k + 1)
    BY <2>1, <2>2
  <2> QED
    BY <2>3
<1>5. \E F : Upto(F, 0)
  <2> DEFINE F == [q \in Pairs |-> 0]
  <2>1. Upto(F, 0)
    <3>1. \A q \in Pairs : ~(Rank(rank, q) < 0)
      BY <1>3
    <3> QED
      BY <3>1
  <2> QED
    BY <2>1
<1>6. Bad = {}
  <2> SUFFICES ASSUME Bad # {} PROVE FALSE
    OBVIOUS
  <2> HIDE DEF Upto
  <2>1. PICK k \in Bad : \A j \in Bad : k <= j
    BY LeastNat
  <2>2. k \in Nat /\ k # 0
    BY <1>5
  <2>3. k - 1 \in Nat /\ k - 1 \notin Bad
    BY <2>1, <2>2
  <2>4. PICK F : Upto(F, k - 1)
    BY <2>3
  <2>5. (k - 1) + 1 = k
    BY <2>2
  <2>6. \E G : Upto(G, k)
    BY <1>4, <2>3, <2>4, <2>5
  <2> QED
    BY <2>6
<1>7. \E F : Solves(F)
  <2>1. bound \in Nat
    BY ConstFacts
  <2>2. PICK F : Upto(F, bound)
    <3> HIDE DEF Upto, bound
    <3> QED
      BY <1>6, <2>1
  <2>3. \A q \in Pairs : F[q] = ProcessStep(F, q[1], q[2])
    <3> HIDE DEF bound
    <3> QED
      BY <1>3, <2>2
  <2>4. F = [q \in Pairs |-> F[q]]
    BY <2>2
  <2> QED
    BY <2>3, <2>4
<1>8. Processes = CHOOSE F : Solves(F)
  BY DEF Processes, Pairs
<1>9. Solves(Processes)
  <2> HIDE DEF Solves
  <2> QED
    BY <1>7, <1>8, Zenon
<1>10. Processes = [q \in Pairs |-> ProcessStep(Processes, q[1], q[2])]
  BY <1>9
<1> QED
  BY <1>10

\* Hunks that start where a hunk of the parent does, all the way up.
AlignedUp(o, h) == Aligned(o, h) /\ \A p \in Ancestors(o) \ {o}, g \in Hunks : Aligned(p, g)

\* What a hunk is handed out as, and what it reads as.
Agree(o, h, a, b) ==
  IF a.error = "NONE" THEN AlignedUp(o, h) => a = b ELSE b.error = a.error \/ a.error = "UNSUPPORTED_FORMAT"

LEMMA AgreeWeaker ==
  ASSUME NEW o, NEW h, NEW p, NEW g, NEW a, NEW b, Agree(p, g, a, b), AlignedUp(o, h) => AlignedUp(p, g)
  PROVE  Agree(o, h, a, b)
BY DEF Agree

LEMMA AgreeStep ==
  ASSUME IInv, ~UncompressedParents, damaged = {}, NEW o \in Objs, Opened(o), NEW h \in Hunks, SameUnits(o),
         NEW F, NEW G,
         \A g \in Hunks : g < h => Agree(o, g, G[<<o, g>>], F[<<o, g>>]),
         chd[o].parent # Nobody =>
           \A g \in Hunks : Agree(chd[o].parent, g, G[<<chd[o].parent, g>>], F[<<chd[o].parent, g>>])
  PROVE  Agree(o, h, ProcessStep(G, o, h), ReadStep(F, o, h))
<1> DEFINE x == chd[o]
           p == x.parent
           n == x.file
           f == disk[n]
           e == x.rawmap[h]
           r == ReadStep(F, o, h)
           s == ProcessStep(G, o, h)
<1>1. n \notin damaged
  OBVIOUS
<1>2. \A a, b : a = b => Agree(o, h, a, b)
  BY DEF Agree
<1>3. \A b : Agree(o, h, Err("UNSUPPORTED_FORMAT"), b)
  BY Results DEF Agree
<1>4. \A g \in Hunks : AlignedUp(o, h) /\ p # Nobody => AlignedUp(p, g)
  <2> SUFFICES ASSUME NEW g \in Hunks, AlignedUp(o, h), p # Nobody PROVE AlignedUp(p, g)
    OBVIOUS
  <2>1. p \in Ancestors(o) /\ Ancestors(p) \subseteq Ancestors(o) /\ o \notin Ancestors(p)
    BY AncestorFacts
  <2>2. p \in Ancestors(p)
    BY AncestorFacts, ParentThere
  <2> QED
    BY <2>1, <2>2 DEF AlignedUp
<1>5. CASE x.version # 5
  <2>1. /\ e.type \in {"compressed", "uncompressed", "mini", "self", "parent"} /\ x.version < 5 /\ e.nocrc \in BOOLEAN
        /\ e.type = "self" => e.offset + 1 \in Hunks /\ e.offset + 1 < h
        /\ e.type = "parent" => HasContents(f.parentsha1) /\ e.offset + 1 \in Hunks
    BY <1>5, OldEntry
  <2>2. chd[o].version < 5
    BY <2>1
  <2>3. CASE e.type = "compressed"
    <3>1. /\ r = Checked(Decode(f, e.offset, x.compression[1]), e.crc, e.nocrc)
          /\ s = Decode(f, e.offset, x.compression[1])
      <4>1. r = Checked(Decode(f, e.offset, x.compression[1]), e.crc, e.nocrc)
        BY <2>2, <2>3, ReadOld, ZenonT(60)
      <4>2. s = Decode(f, e.offset, x.compression[1])
        BY <2>2, <2>3, ProcessOld, Zenon
      <4> QED
        BY <4>1, <4>2, Zenon
    <3>2. chd[o].rawmap[h].type \in {"compressed", "uncompressed"}
      BY <2>3
    <3>3. Checked(Decode(f, e.offset, x.compression[1]), e.crc, e.nocrc) = Ok(truth[n][h])
      BY <1>1, <1>5, <2>3, <3>2, OldBlockRead
    <3>4. r = s
      <4> HIDE DEF r, s, f, e
      <4> QED
        BY <2>1, <3>1, <3>3, CheckedFacts, Results
    <3> QED
      BY <1>2, <3>4
  <2>4. CASE e.type \in {"uncompressed", "mini"}
    <3>1. s = Err("UNSUPPORTED_FORMAT")
      BY <2>2, <2>4, ProcessOld, Zenon
    <3> QED
      BY <1>3, <3>1
  <2>5. CASE e.type = "self"
    <3>1. r = F[<<o, e.offset + 1>>] /\ s = G[<<o, e.offset + 1>>]
      <4>1. r = F[<<o, e.offset + 1>>]
        BY <2>2, <2>5, ReadOld, Zenon
      <4>2. s = G[<<o, e.offset + 1>>]
        BY <2>2, <2>5, ProcessOld, Zenon
      <4> QED
        BY <4>1, <4>2, Zenon
    <3>2. AlignedUp(o, h) => AlignedUp(o, e.offset + 1)
      BY <1>5 DEF AlignedUp, Aligned
    <3>3. Agree(o, e.offset + 1, s, r)
      BY <2>1, <2>5, <3>1
    <3> QED
      BY <3>2, <3>3, AgreeWeaker
  <2>6. CASE e.type = "parent"
    <3>1. /\ r = IF x.missing THEN Err("REQUIRES_PARENT") ELSE F[<<p, e.offset + 1>>]
          /\ s = IF x.missing THEN Err("REQUIRES_PARENT") ELSE G[<<p, e.offset + 1>>]
      <4>1. r = IF x.missing THEN Err("REQUIRES_PARENT") ELSE F[<<p, e.offset + 1>>]
        BY <2>2, <2>6, ReadOld, ZenonT(60)
      <4>2. s = IF x.missing THEN Err("REQUIRES_PARENT") ELSE G[<<p, e.offset + 1>>]
        BY <2>2, <2>6, ProcessOld, Zenon
      <4> QED
        BY <4>1, <4>2, Zenon
    <3>2. CASE x.missing
      <4>1. r = s
        BY <3>1, <3>2
      <4> QED
        BY <1>2, <4>1
    <3>3. CASE ~x.missing
      <4>1. p # Nobody
        BY <2>1, <2>6, <3>3, ParentThere, HashFacts
      <4>2. r = F[<<p, e.offset + 1>>] /\ s = G[<<p, e.offset + 1>>]
        BY <3>1, <3>3
      <4>3. Agree(p, e.offset + 1, s, r)
        BY <2>1, <2>6, <4>1, <4>2
      <4>4. AlignedUp(o, h) => AlignedUp(p, e.offset + 1)
        BY <1>4, <2>1, <2>6, <4>1
      <4> QED
        BY <4>3, <4>4, AgreeWeaker
    <3> QED
      BY <3>2, <3>3
  <2> QED
    BY <2>1, <2>3, <2>4, <2>5, <2>6
<1>6. CASE x.version = 5 /\ ~Compressed(x.compression)
  <2>1. s = Err("UNSUPPORTED_FORMAT")
    BY <1>6, ProcessPlain, Zenon
  <2> QED
    BY <1>3, <2>1
<1>7. CASE x.version = 5 /\ Compressed(x.compression)
  <2>1. /\ Stored(e) \/ e.comp = SELF \/ e.comp = PARENT \/ e.comp = Unwritten
        /\ e.comp = SELF => e.offset + 1 \in Hunks /\ e.offset + 1 < h /\ Stored(x.rawmap[e.offset + 1])
        /\ e.comp = PARENT => e.offset \in Nat /\ (x.missing \/ p # Nobody) /\ ParentEntry(f, e)
    BY <1>7, PackedLinks
  <2>2. x.unit = f.unit /\ NewFile(f, truth[n])
    BY <1>7, PackedFacts
  <2>3. CASE Stored(e)
    <3>1. /\ r = ReadCompressed(x, f, e)
          /\ s = IF e.comp = NONE THEN Err("UNSUPPORTED_FORMAT") ELSE Decode(f, e.offset, x.compression[e.comp + 1])
      <4>1. r = ReadCompressed(x, f, e)
        BY <1>7, <2>3, ReadPacked, Zenon
      <4>2. s = IF e.comp = NONE THEN Err("UNSUPPORTED_FORMAT") ELSE Decode(f, e.offset, x.compression[e.comp + 1])
        BY <1>7, <2>3, ProcessPacked, Zenon
      <4> QED
        BY <4>1, <4>2, Zenon
    <3>2. e.comp # NONE => Decode(f, e.offset, x.compression[e.comp + 1]) = ReadCompressed(x, f, e)
      BY <1>1, <1>7, <2>3, BlockRead, Zenon
    <3>3. s = r \/ s = Err("UNSUPPORTED_FORMAT")
      BY <3>1, <3>2
    <3> QED
      BY <1>2, <1>3, <3>3
  <2>4. CASE e.comp = SELF
    <3>1. r = F[<<o, e.offset + 1>>] /\ s = G[<<o, e.offset + 1>>]
      <4>1. r = F[<<o, e.offset + 1>>]
        BY <1>7, <2>4, ReadPacked, Zenon
      <4>2. s = G[<<o, e.offset + 1>>]
        BY <1>7, <2>4, ProcessPacked, Zenon
      <4> QED
        BY <4>1, <4>2, Zenon
    <3>2. AlignedUp(o, h) => AlignedUp(o, e.offset + 1)
      BY <2>1, <2>4, CompFacts, SMTT(30) DEF AlignedUp, Aligned, Stored
    <3>3. Agree(o, e.offset + 1, s, r)
      BY <2>1, <2>4, <3>1
    <3> QED
      BY <3>2, <3>3, AgreeWeaker
  <2>5. CASE e.comp = Unwritten
    <3>1. r = s
      <4>1. r = Err("INVALID_DATA")
        BY <1>7, <2>5, ReadPacked, Zenon
      <4>2. s = Err("INVALID_DATA")
        BY <1>7, <2>5, ProcessPacked, Zenon
      <4> QED
        BY <4>1, <4>2, Zenon
    <3> QED
      BY <1>2, <3>1
  <2>6. CASE e.comp = PARENT /\ x.missing
    <3>1. r = s
      <4> DEFINE at == e.offset * chd[p].unit
                 first == at \div HunkBytes + 1
                 a == IF at % HunkBytes = 0 THEN F[<<p, first>>]
                      ELSE Across(F[<<p, first>>], F[<<p, first + 1>>], at % HunkBytes)
                 b == G[<<p, ParentHunkOf(x, e)>>]
      <4>1. r = IF x.missing THEN Err("REQUIRES_PARENT") ELSE a
        BY <1>7, <2>6, ReadPacked, Zenon
      <4>2. s = IF x.missing THEN Err("REQUIRES_PARENT") ELSE b
        BY <1>7, <2>6, ProcessPacked, Zenon
      <4> HIDE DEF r, s, a, b
      <4> QED
        BY <2>6, <4>1, <4>2
    <3> QED
      BY <1>2, <3>1
  <2>7. CASE e.comp = PARENT /\ ~x.missing
    <3> DEFINE at == e.offset * chd[p].unit
               first == at \div HunkBytes + 1
               there == ParentHunkOf(x, e)
    <3>1. p # Nobody
      BY <2>1, <2>7
    <3>2. /\ r = IF at % HunkBytes = 0 THEN F[<<p, first>>]
                 ELSE Across(F[<<p, first>>], F[<<p, first + 1>>], at % HunkBytes)
          /\ s = G[<<p, there>>]
      <4>1. r = IF at % HunkBytes = 0 THEN F[<<p, first>>]
                ELSE Across(F[<<p, first>>], F[<<p, first + 1>>], at % HunkBytes)
        BY <1>7, <2>7, ReadPacked, Zenon
      <4>2. s = G[<<p, there>>]
        BY <1>7, <2>7, ProcessPacked, Zenon
      <4> QED
        BY <4>1, <4>2, Zenon
    <3>3. there = first /\ (Aligned(o, h) => at % HunkBytes = 0)
      BY <1>7, <2>7, <3>1, ParentHunk
    <3>4. chd[p].unit = f.unit /\ f.unit \in Nat \ {0} /\ HunkBytes % f.unit = 0
      BY <2>2, <3>1, TrustedFacts, Zenon DEF NewFile
    <3>5. e.offset \in 0..((HunkCount - 1) * (HunkBytes \div f.unit))
      BY <2>1, <2>7, Zenon DEF ParentEntry
    <3>6. first \in Hunks
      BY <3>4, <3>5, WindowInside
    <3>7. Agree(p, first, G[<<p, first>>], F[<<p, first>>]) /\ (AlignedUp(o, h) => AlignedUp(p, first))
      BY <1>4, <3>1, <3>6
    <3> HIDE DEF first, there, at, p
    <3>8. AlignedUp(o, h) => at % HunkBytes = 0
      BY <3>3 DEF AlignedUp
    <3>9. \A a, b, skip : a.error # "NONE" => Across(a, b, skip) = a
      BY DEF Across
    <3>10. s = G[<<p, first>>]
      BY <3>2, <3>3
    <3> HIDE DEF s, r, e, f, x
    <3>11. CASE s.error = "NONE"
      <4>1. AlignedUp(o, h) => s = F[<<p, first>>] /\ r = F[<<p, first>>]
        BY <3>2, <3>7, <3>8, <3>10, <3>11 DEF Agree
      <4> QED
        BY <3>11, <4>1 DEF Agree, r, s
    <3>12. CASE s.error # "NONE"
      <4>1. F[<<p, first>>].error = s.error \/ s.error = "UNSUPPORTED_FORMAT"
        BY <3>7, <3>10, <3>12 DEF Agree
      <4>2. F[<<p, first>>].error # "NONE" => r = F[<<p, first>>]
        BY <3>2, <3>9
      <4>3. r.error = s.error \/ s.error = "UNSUPPORTED_FORMAT"
        BY <3>12, <4>1, <4>2
      <4> QED
        BY <3>12, <4>3 DEF Agree, r, s
    <3> QED
      BY <3>11, <3>12
  <2> QED
    BY <2>1, <2>3, <2>4, <2>5, <2>6, <2>7
<1> QED
  BY <1>5, <1>6, <1>7

LEMMA ProcessMatchesReadHolds ==
  ASSUME IInv, ~UncompressedParents
  PROVE  ProcessMatchesRead
<1> SUFFICES ASSUME damaged = {}
             PROVE  \A o \in OpenObjs, h \in Hunks :
                      SameUnits(o) => Agree(o, h, Processes[<<o, h>>], Reads[<<o, h>>])
  BY DEF ProcessMatchesRead, Agree, AlignedUp, ReadHunk, ProcessHunk
<1> DEFINE T == {q \in Pairs : Opened(q[1]) /\ q[2] \in Hunks /\ SameUnits(q[1])
                                 => Agree(q[1], q[2], Processes[q], Reads[q])}
<1>1. \A q \in Pairs : Reads[q] = ReadStep(Reads, q[1], q[2]) /\ Processes[q] = ProcessStep(Processes, q[1], q[2])
  BY ReadUnfolds, ProcessUnfolds
<1>2. ASSUME NEW q \in Pairs, Below(q) \subseteq T PROVE q \in T
  <2>1. PICK o \in Objs, h \in Nat : q = <<o, h>>
    BY DEF Pairs
  <2>2. q[1] = o /\ q[2] = h
    BY <2>1
  <2> SUFFICES ASSUME Opened(o), h \in Hunks, SameUnits(o)
               PROVE  Agree(o, h, Processes[<<o, h>>], Reads[<<o, h>>])
    BY <2>1, <2>2
  <2>3. Hunks \subseteq Nat
    BY ConstFacts DEF Hunks
  <2>4. ASSUME NEW g \in Hunks, g < h PROVE Agree(o, g, Processes[<<o, g>>], Reads[<<o, g>>])
    <3>1. <<o, g>> \in T
      BY <1>2, <2>1, <2>3, <2>4, BelowPairs
    <3> QED
      BY <3>1
  <2>5. ASSUME chd[o].parent # Nobody, NEW g \in Hunks
        PROVE  Agree(chd[o].parent, g, Processes[<<chd[o].parent, g>>], Reads[<<chd[o].parent, g>>])
    <3>1. chd[o].parent \in Objs /\ Opened(chd[o].parent) /\ SameUnits(chd[o].parent)
      BY <2>5, ParentThere, TrustedFacts
    <3>2. <<chd[o].parent, g>> \in T
      BY <1>2, <2>1, <2>3, <2>5, <3>1, BelowPairs
    <3> QED
      BY <3>1, <3>2
  <2>6. Reads[<<o, h>>] = ReadStep(Reads, o, h) /\ Processes[<<o, h>>] = ProcessStep(Processes, o, h)
    BY <1>1, <2>1, <2>2
  <2>7. Agree(o, h, ProcessStep(Processes, o, h), ReadStep(Reads, o, h))
    BY <2>4, <2>5, AgreeStep
  <2> QED
    BY <2>6, <2>7
<1> HIDE DEF T
<1>3. Pairs \subseteq T
  BY <1>2, ReadInduction
<1> SUFFICES ASSUME NEW o \in OpenObjs, NEW h \in Hunks, SameUnits(o)
             PROVE  Agree(o, h, Processes[<<o, h>>], Reads[<<o, h>>])
  OBVIOUS
<1>4. <<o, h>> \in Pairs
  BY ConstFacts DEF Pairs, OpenObjs, Hunks
<1>5. <<o, h>> \in T
  BY <1>3, <1>4
<1> QED
  BY <1>5 DEF T, OpenObjs

-----------------------------------------------------------------------------
(* What a step leaves alone *)

LEMMA NewStays ==
  ASSUME NEW n, NewInv(n), disk'[n] = disk[n], truth'[n] = truth[n], damaged \subseteq damaged', misled \subseteq misled'
  PROVE  NewInv(n)'
BY DEF NewInv

LEMMA OldStays ==
  ASSUME NEW n, OldInv(n), disk'[n] = disk[n], truth'[n] = truth[n], damaged \subseteq damaged'
  PROVE  OldInv(n)'
BY DEF OldInv

\* An object whose file and whose parent's hash are left alone.
LEMMA ObjectStays ==
  ASSUME NEW o, ObjectInv(o), chd'[o] = chd[o], misled \subseteq misled',
         disk'[chd[o].file] = disk[chd[o].file], truth'[chd[o].file] = truth[chd[o].file],
         chd[o].parent # Nobody =>
           /\ chd'[chd[o].parent] = chd[chd[o].parent]
           /\ disk'[chd[chd[o].parent].file].sha1 = disk[chd[chd[o].parent].file].sha1
  PROVE  ObjectInv(o)'
<1> DEFINE x == chd[o]
           f == disk[x.file]
<1>1. /\ x.file \in Files /\ f # NoFile /\ x.unit \in Nat \ {0} /\ HunkBytes % x.unit = 0
      /\ KnowsFile(x, f) /\ KnowsParent(x, f)
      /\ x.fresh /\ Compressed(f.compression) /\ ~f.mapped => FillInv(x, f, x.file)
  BY Zenon DEF ObjectInv
<1>2. KnowsParent(x, f)'
  <2>1. CASE x.parent = Nobody
    BY <1>1, <2>1 DEF KnowsParent
  <2>2. CASE x.parent # Nobody
    <3>1. x.parent \in OpenObjs /\ ~chd[x.parent].fresh /\ ~x.missing /\ Sha1(x.parent) = f.parentsha1
          /\ (f.parentsha1 # Null \/ UncompressedParents)
      BY <1>1, <2>2 DEF KnowsParent
    <3>2. x.parent \in OpenObjs' /\ Sha1(x.parent)' = Sha1(x.parent)
      BY <2>2, <3>1 DEF OpenObjs, Opened, Sha1
    <3> QED
      BY <2>2, <3>1, <3>2 DEF KnowsParent
  <2> QED
    BY <2>1, <2>2
<1>3. KnowsFile(x, f)'
  BY <1>1
<1>4. (x.fresh /\ Compressed(f.compression) /\ ~f.mapped => FillInv(x, f, x.file))'
  BY <1>1 DEF FillInv
<1> QED
  BY <1>1, <1>2, <1>3, <1>4 DEF ObjectInv

\* A step of one object on the file it has, or on one that nobody has.
LEMMA StepKeeps ==
  ASSUME IInv, NEW o \in Objs, NEW n \in Files,
         chd' = [chd EXCEPT ![o] = chd'[o]], disk' = [disk EXCEPT ![n] = disk'[n]], truth' = [truth EXCEPT ![n] = truth'[n]],
         damaged' = damaged, misled \subseteq misled', misled' \subseteq Files,
         truth'[n] \in [Hunks -> HunkData],
         (IF n \in DOMAIN OldFiles THEN OldInv(n) ELSE disk[n] = NoFile \/ NewInv(n))',
         ObjectShape(chd'[o]), chd'[o].file # Nobody => chd'[o].file = n /\ ObjectInv(o)',
         chd'[o].parent # o, chd'[o].fresh => NoWriter \/ chd[o].fresh,
         \A p \in Objs \ {o} : Opened(p) => chd[p].file # n /\ chd[p].parent # o
  PROVE  IInv'
<1>1. TypeInv /\ FileInv /\ ObjectsInv
  BY DEF IInv
<1>2. TypeInv'
  BY <1>1, ZenonT(60) DEF TypeInv
<1>3. \A p \in Objs \ {o} : chd'[p] = chd[p]
  BY <1>1 DEF TypeInv
<1>4. \A m \in Files \ {n} : disk'[m] = disk[m] /\ truth'[m] = truth[m]
  BY <1>1 DEF TypeInv
<1>5. FileInv'
  <2> SUFFICES ASSUME NEW m \in Files, m # n
               PROVE  (IF m \in DOMAIN OldFiles THEN OldInv(m) ELSE disk[m] = NoFile \/ NewInv(m))'
    BY Zenon DEF FileInv
  <2>1. IF m \in DOMAIN OldFiles THEN OldInv(m) ELSE disk[m] = NoFile \/ NewInv(m)
    BY <1>1, Zenon DEF FileInv
  <2>2. disk'[m] = disk[m] /\ truth'[m] = truth[m] /\ damaged \subseteq damaged'
    BY <1>4
  <2> QED
    BY <2>1, <2>2, NewStays, OldStays, Zenon
<1>6. \A p \in Objs : ObjectShape(chd[p]) /\ (Opened(p) => ObjectInv(p))
  BY <1>1, Zenon DEF ObjectsInv
<1>7. ASSUME NEW p \in Objs, p # o PROVE ObjectShape(chd'[p]) /\ (Opened(p)' => Opened(p) /\ ObjectInv(p)')
  <2>1. chd'[p] = chd[p] /\ ObjectShape(chd[p])
    BY <1>3, <1>6, <1>7
  <2>2. ASSUME Opened(p) PROVE ObjectInv(p)'
    <3>1. ObjectInv(p) /\ chd[p].file \in Files /\ chd[p].file # n /\ chd[p].parent # o
      BY <1>6, <1>7, <2>2 DEF ObjectInv
    <3>2. ASSUME chd[p].parent # Nobody
          PROVE  /\ chd'[chd[p].parent] = chd[chd[p].parent]
                 /\ disk'[chd[chd[p].parent].file].sha1 = disk[chd[chd[p].parent].file].sha1
      <4> DEFINE q == chd[p].parent
      <4>1. q \in Objs /\ q # o /\ Opened(q)
        BY <2>2, <3>1, <3>2, ParentThere
      <4>2. chd[q].file \in Files /\ chd[q].file # n
        BY <4>1, <1>6 DEF ObjectInv
      <4> QED
        BY <4>1, <4>2, <1>3, <1>4
    <3> QED
      BY <2>1, <3>1, <3>2, <1>4, ObjectStays
  <2> QED
    BY <2>1, <2>2 DEF Opened
<1>8. \A p \in Objs : ObjectShape(chd'[p]) /\ (Opened(p)' => ObjectInv(p)')
  BY <1>7 DEF Opened
<1>9. \A p, q \in OpenObjs' : chd'[p].file = chd'[q].file => p = q
  <2>1. \A p, q \in OpenObjs : chd[p].file = chd[q].file => p = q
    BY <1>1, Zenon DEF ObjectsInv
  <2>2. \A p \in OpenObjs' : p # o => p \in OpenObjs /\ chd'[p] = chd[p] /\ chd[p].file # n
    BY <1>3 DEF OpenObjs, Opened
  <2>3. \A p \in OpenObjs' : p = o => chd'[p].file = n
    BY DEF OpenObjs, Opened
  <2> QED
    BY <2>1, <2>2, <2>3
<1>10. \A p, q \in OpenObjs' : chd'[p].fresh /\ chd'[q].fresh => p = q
  <2>1. \A p, q \in OpenObjs : chd[p].fresh /\ chd[q].fresh => p = q
    BY <1>1, Zenon DEF ObjectsInv
  <2>2. \A p \in OpenObjs' : p # o => p \in OpenObjs /\ p \in Objs /\ chd'[p] = chd[p]
    BY <1>3 DEF OpenObjs, Opened
  <2>3. chd[o].fresh => o \in OpenObjs
    <3>1. ObjectShape(chd[o])
      BY <1>6
    <3>2. chd[o].file = Nobody => ~chd[o].fresh
      BY <3>1 DEF ObjectShape, Closed
    <3> QED
      BY <3>2 DEF OpenObjs, Opened
  <2>4. NoWriter => \A p \in Objs : ~chd[p].fresh
    BY DEF NoWriter
  <2> QED
    BY <2>1, <2>2, <2>3, <2>4
<1>11. \E m \in Nat : Ranks(m)' # {}
  <2>1. PICK m \in Nat : Ranks(m) # {}
    BY <1>1, Zenon DEF ObjectsInv
  <2>2. PICK rank : rank \in Ranks(m)
    BY <2>1
  <2> DEFINE new == [p \in Objs |-> IF p = o THEN m + 1 ELSE rank[p]]
  <2>3. \A p \in Objs : rank[p] \in 0..m
    BY <2>2 DEF Ranks
  <2>4. new \in [Objs -> 0..(m + 1)]
    BY <2>3
  <2>5. ASSUME NEW p \in Objs, Opened(p)', chd'[p].parent # Nobody PROVE new[chd'[p].parent] < new[p]
    <3>1. chd'[p].parent \in Objs
      BY <1>8, <2>5, Zenon DEF ObjectInv, KnowsParent, OpenObjs
    <3>2. CASE p = o
      BY <2>3, <3>1, <3>2
    <3>3. CASE p # o
      <4>1. chd'[p] = chd[p] /\ Opened(p) /\ chd[p].parent # o
        BY <1>3, <2>5, <3>3 DEF Opened
      <4>2. rank[chd[p].parent] < rank[p]
        BY <2>2, <2>5, <4>1 DEF Ranks
      <4> QED
        BY <2>3, <3>1, <3>3, <4>1, <4>2
    <3> QED
      BY <3>2, <3>3
  <2>6. new \in Ranks(m + 1)'
    <3> HIDE DEF new
    <3> QED
      BY <2>4, <2>5 DEF Ranks
  <2> QED
    BY <2>6
<1>12. ObjectsInv'
  BY <1>8, <1>9, <1>10, <1>11, Zenon DEF ObjectsInv
<1> QED
  BY <1>2, <1>5, <1>12 DEF IInv

-----------------------------------------------------------------------------
(* The invariant at first, and after each step *)

LEMMA ClosedShape == ObjectShape(Closed) /\ Closed.file = Nobody /\ Closed.parent = Nobody /\ ~Closed.fresh
BY DEF ObjectShape, Closed

LEMMA InitHolds ==
  ASSUME Init
  PROVE  IInv
<1>1. /\ disk = [n \in Files |-> IF n \in DOMAIN OldFiles THEN OldFiles[n].file ELSE NoFile]
      /\ chd = [o \in Objs |-> Closed]
      /\ truth = [n \in Files |-> IF n \in DOMAIN OldFiles THEN OldFiles[n].truth ELSE [h \in Hunks |-> Zero]]
      /\ damaged = {} /\ misled = {}
  BY DEF Init
<1>2. \A n \in DOMAIN OldFiles : n \in Files /\ OldFile(OldFiles[n].file, OldFiles[n].truth)
  BY OldAssumption, ChdAssumption, Zenon
<1>3. \A o \in Objs : chd[o] = Closed /\ ~Opened(o)
  BY <1>1, ClosedShape DEF Opened
<1>4. TypeInv
  <2>1. truth \in [Files -> [Hunks -> HunkData]]
    <3>1. \A n \in DOMAIN OldFiles : OldFiles[n].truth \in [Hunks -> HunkData]
      BY <1>2, Zenon DEF OldFile, HunkData
    <3>2. [h \in Hunks |-> Zero] \in [Hunks -> HunkData]
      BY ConstFacts
    <3>3. \A n \in Files : (IF n \in DOMAIN OldFiles THEN OldFiles[n].truth ELSE [h \in Hunks |-> Zero]) \in [Hunks -> HunkData]
      BY <3>1, <3>2
    <3> QED
      BY <1>1, <3>3
  <2>2. DOMAIN disk = Files /\ disk = [n \in Files |-> disk[n]]
    BY <1>1
  <2>3. chd = [o \in Objs |-> chd[o]]
    BY <1>1
  <2> QED
    BY <1>1, <2>1, <2>2, <2>3 DEF TypeInv
<1>5. FileInv
  <2>1. ASSUME NEW n \in DOMAIN OldFiles PROVE OldInv(n)
    <3> DEFINE old == OldFiles[n].file
    <3>1. disk[n] = old /\ truth[n] = OldFiles[n].truth
      BY <1>1, <1>2
    <3>2. OldFile(old, truth[n])
      BY <1>2, <3>1
    <3>3. old = [version |-> old.version, signature |-> old.signature, sizeok |-> old.sizeok, compression |-> old.compression,
                 map |-> old.map, mapped |-> old.mapped, blocks |-> old.blocks, end |-> old.end, sha1 |-> old.sha1,
                 rawsha1 |-> old.rawsha1, parentsha1 |-> old.parentsha1, meta |-> old.meta]
      BY <3>2, Zenon DEF OldFile
    <3>4. old.blocks = [b \in DOMAIN old.blocks |-> [codec |-> old.blocks[b].codec, data |-> old.blocks[b].data, len |-> old.blocks[b].len]]
      BY <3>2, Zenon DEF OldFile
    <3> HIDE DEF old
    <3>5. old = [old EXCEPT !.blocks = old.blocks]
      BY <3>3
    <3>6. \A b \in DOMAIN old.blocks :
            old.blocks[b] = [codec |-> old.blocks[b].codec, data |-> old.blocks[b].data, len |-> old.blocks[b].len]
      BY <3>4
    <3> QED
      BY <3>1, <3>5, <3>6 DEF OldInv, old
  <2>2. \A n \in Files : n \notin DOMAIN OldFiles => disk[n] = NoFile
    BY <1>1
  <2> QED
    BY <2>1, <2>2 DEF FileInv
<1>6. ObjectsInv
  <2>1. \A o \in Objs : ObjectShape(chd[o]) /\ ~chd[o].fresh
    BY <1>3, ClosedShape
  <2>2. OpenObjs = {}
    BY <1>3 DEF OpenObjs
  <2>3. [o \in Objs |-> 0] \in Ranks(0)
    BY <1>3 DEF Ranks
  <2>4. \E m \in Nat : Ranks(m) # {}
    BY <2>3
  <2>5. \A o, p \in OpenObjs : FALSE
    BY <2>2
  <2> QED
    BY <1>3, <2>1, <2>4, <2>5, Zenon DEF ObjectsInv
<1> QED
  BY <1>4, <1>5, <1>6 DEF IInv

LEMMA CloseKeeps ==
  ASSUME IInv, NEW o \in Objs, Close(o)
  PROVE  IInv'
<1>1. Opened(o) /\ (\A c \in Objs : chd[c].parent # o) /\ chd' = [chd EXCEPT ![o] = Closed]
      /\ UNCHANGED <<disk, truth, damaged, misled>>
  BY DEF Close
<1>2. TypeInv /\ FileInv /\ ObjectsInv
  BY DEF IInv
<1>3. chd'[o] = Closed
  BY <1>1, <1>2 DEF TypeInv
<1>4. PICK n \in Files : n = chd[o].file /\ o \in OpenObjs
  BY <1>1, ObjectFacts
<1>5. (IF n \in DOMAIN OldFiles THEN OldInv(n) ELSE disk[n] = NoFile \/ NewInv(n))'
  <2>1. IF n \in DOMAIN OldFiles THEN OldInv(n) ELSE disk[n] = NoFile \/ NewInv(n)
    BY <1>2, <1>4, Zenon DEF FileInv
  <2>2. \A i : OldInv(i) => OldInv(i)'
    BY <1>1, OldStays
  <2>3. \A i : NewInv(i) => NewInv(i)'
    BY <1>1, NewStays
  <2> QED
    BY <1>1, <2>1, <2>2, <2>3
<1>6. \A p \in Objs \ {o} : Opened(p) => chd[p].file # n /\ chd[p].parent # o
  BY <1>1, <1>2, <1>4 DEF ObjectsInv, OpenObjs
<1>7. Nobody # o
  BY ChdAssumption
<1>8. truth'[n] \in [Hunks -> HunkData] /\ misled' \subseteq Files
  BY <1>1, <1>2, <1>4 DEF TypeInv
<1>9. /\ chd' = [chd EXCEPT ![o] = chd'[o]] /\ disk' = [disk EXCEPT ![n] = disk'[n]] /\ truth' = [truth EXCEPT ![n] = truth'[n]]
  BY <1>1, <1>2, <1>3, <1>4 DEF TypeInv
<1>10. /\ ObjectShape(chd'[o]) /\ chd'[o].file = Nobody /\ chd'[o].parent # o /\ ~chd'[o].fresh
       /\ damaged' = damaged /\ misled \subseteq misled'
  BY <1>1, <1>3, <1>7, ClosedShape
<1> QED
  BY <1>5, <1>6, <1>8, <1>9, <1>10, StepKeeps, Zenon

LEMMA NewParses ==
  ASSUME NEW f, NEW contents, NewFile(f, contents)
  PROVE  f # NoFile /\ f.version = 5 /\ f.signature /\ f.sizeok /\ Parse(f) = ParseV5(f) /\ Parse(f).error = "NONE"
<1>1. f.version = 5 /\ f.signature /\ f.sizeok
  BY DEF NewFile
<1>2. f # NoFile
  BY <1>1 DEF NoFile
<1>3. Parse(f) = ParseV5(f)
  BY <1>1 DEF Parse
<1>4. ParseV5(f).error = "NONE"
  BY <1>1 DEF ParseV5, Ok
<1> QED
  BY <1>1, <1>2, <1>3, <1>4

\* The one object that writes.
LEMMA WriterFacts ==
  ASSUME IInv, NEW o \in Objs, Opened(o), chd[o].fresh
  PROVE  LET x == chd[o] n == chd[o].file f == disk[chd[o].file] IN
         /\ n \in Files /\ n \in NewFiles /\ NewInv(n) /\ NewFile(f, truth[n]) /\ ObjectInv(o) /\ ObjectShape(x)
         /\ x.version = 5 /\ x.unit = f.unit /\ x.compression = f.compression
         /\ ~Compressed(f.compression) => x.rawmap = f.map
         /\ Compressed(f.compression) /\ f.mapped => x.rawmap = f.map.mapcrc
         /\ Compressed(f.compression) /\ ~f.mapped => FillInv(x, f, n)
         /\ x.parent # o /\ \A p \in Objs \ {o} : Opened(p) => chd[p].file # n /\ chd[p].parent # o
<1> DEFINE x == chd[o]
           n == chd[o].file
           f == disk[n]
<1>1. /\ ObjectInv(o) /\ n \in Files /\ o \in OpenObjs
      /\ \/ x.version = 5 /\ n \in NewFiles /\ NewInv(n)
         \/ x.version \in {3, 4}
  BY ObjectFacts
<1>2. KnowsFile(x, f)
  BY <1>1, Zenon DEF ObjectInv
<1>3. f.version = 5 /\ x.version = 5 /\ n \in NewFiles /\ NewInv(n)
  BY <1>1, <1>2 DEF KnowsFile
<1>4. /\ x.unit = f.unit /\ x.compression = f.compression
      /\ ~Compressed(f.compression) => x.rawmap = f.map
      /\ Compressed(f.compression) /\ f.mapped => x.rawmap = f.map.mapcrc
  BY <1>2, <1>3, Zenon DEF KnowsFile
<1>5. Compressed(f.compression) /\ ~f.mapped => FillInv(x, f, n)
  BY <1>1, Zenon DEF ObjectInv
<1>6. NewFile(f, truth[n]) /\ ObjectShape(x)
  BY <1>3, Zenon DEF NewInv, IInv, ObjectsInv
<1>7. \A p \in Objs : Opened(p) => chd[p].parent # o
  <2> SUFFICES ASSUME NEW p \in Objs, Opened(p), chd[p].parent = o PROVE FALSE
    OBVIOUS
  <2>1. o # Nobody
    BY ChdAssumption
  <2> QED
    BY <2>1, ParentThere
<1>8. \A p \in Objs \ {o} : Opened(p) => chd[p].file # n
  BY <1>1 DEF IInv, ObjectsInv, OpenObjs
<1> QED
  BY <1>1, <1>3, <1>4, <1>5, <1>6, <1>7, <1>8

LEMMA WriterKeeps ==
  ASSUME IInv, NEW o \in Objs, Opened(o), chd[o].fresh, NEW n \in Files, n = chd[o].file,
         chd' = [chd EXCEPT ![o] = chd'[o]], chd'[o] = [chd[o] EXCEPT !.rawmap = chd'[o].rawmap],
         disk' = [disk EXCEPT ![n] = disk'[n]], truth' = [truth EXCEPT ![n] = truth'[n]],
         damaged' = damaged, misled \subseteq misled', misled' \subseteq Files,
         NewInv(n)',
         disk'[n].compression = disk[n].compression, disk'[n].unit = disk[n].unit, disk'[n].parentsha1 = disk[n].parentsha1,
         ~Compressed(disk[n].compression) => chd'[o].rawmap = disk'[n].map,
         Compressed(disk[n].compression) /\ disk'[n].mapped => chd'[o].rawmap = disk'[n].map.mapcrc,
         Compressed(disk[n].compression) /\ ~disk'[n].mapped => FillInv(chd[o], disk[n], n)'
  PROVE  IInv'
<1> DEFINE x == chd[o]
           f == disk[n]
           y == chd'[o]
           g == disk'[n]
<1>1. /\ n \in NewFiles /\ ObjectInv(o) /\ ObjectShape(x) /\ x.version = 5 /\ x.unit = f.unit /\ x.compression = f.compression
      /\ x.parent # o /\ \A p \in Objs \ {o} : Opened(p) => chd[p].file # n /\ chd[p].parent # o
  BY WriterFacts, SMTT(30)
<1>2. /\ y.file = n /\ y.parent = x.parent /\ y.missing = x.missing /\ y.version = 5 /\ y.compression = f.compression
      /\ y.unit = f.unit /\ y.fresh /\ ObjectShape(y)
  <2>1. ObjectShape(x) /\ y = [x EXCEPT !.rawmap = y.rawmap] /\ x.file = n /\ x.file # Nobody
    BY <1>1, ChdAssumption
  <2> HIDE DEF x, y
  <2>2. y.file = x.file /\ y.parent = x.parent /\ y.missing = x.missing /\ y.version = x.version /\ y.compression = x.compression
        /\ y.unit = x.unit /\ y.fresh = x.fresh /\ y.writes = x.writes
    BY <2>1 DEF ObjectShape
  <2>3. ObjectShape(y)
    BY <2>1, <2>2 DEF ObjectShape
  <2> QED
    BY <1>1, <2>1, <2>2, <2>3 DEF x
<1>3. NewFile(g, truth'[n])
  BY Zenon DEF NewInv
<1>4. g # NoFile /\ g.version = 5 /\ Parse(g).error = "NONE" /\ truth'[n] \in [Hunks -> HunkData]
      /\ g.unit \in Nat \ {0} /\ HunkBytes % g.unit = 0
  <2>1. g # NoFile /\ g.version = 5 /\ Parse(g).error = "NONE"
    BY <1>3, NewParses, Zenon
  <2> QED
    BY <1>3, <2>1, Zenon DEF NewFile
<1>5. KnowsFile(y, g)
  <2>1. ~Compressed(g.compression) => y.rawmap = g.map
    OBVIOUS
  <2>2. Compressed(g.compression) /\ g.mapped => y.rawmap = g.map.mapcrc
    OBVIOUS
  <2> QED
    BY <1>2, <1>4, <2>1, <2>2 DEF KnowsFile
<1>6. KnowsParent(chd[o], disk[chd[o].file])'
  <2>1. KnowsParent(x, f)
    BY <1>1, Zenon DEF ObjectInv
  <2>2. y.parent = x.parent /\ y.missing = x.missing /\ disk'[y.file].parentsha1 = f.parentsha1
    BY <1>2
  <2>3. CASE x.parent = Nobody
    BY <2>1, <2>2, <2>3 DEF KnowsParent
  <2>4. CASE x.parent # Nobody
    <3>1. PICK p \in Objs :
            /\ p = x.parent /\ Opened(p) /\ ~chd[p].fresh /\ ~x.missing /\ Sha1(p) = f.parentsha1 /\ p # o
            /\ (f.parentsha1 # Null \/ UncompressedParents)
      BY <1>1, <2>1, <2>4 DEF KnowsParent, OpenObjs
    <3>2. chd'[p] = chd[p] /\ chd[p].file \in Files /\ chd[p].file # n
      BY <1>1, <3>1, ObjectFacts DEF IInv, TypeInv
    <3>3. disk'[chd[p].file] = disk[chd[p].file]
      BY <3>2 DEF IInv, TypeInv
    <3>4. p \in OpenObjs' /\ Sha1(p)' = Sha1(p)
      <4>1. p \in OpenObjs'
        BY <3>1, <3>2 DEF OpenObjs, Opened
      <4> QED
        BY <3>2, <3>3, <4>1 DEF Sha1
    <3> QED
      BY <2>2, <2>4, <3>1, <3>2, <3>4 DEF KnowsParent
  <2> QED
    BY <2>3, <2>4
<1>7. ObjectInv(o)'
  <2>1. (chd[o].fresh /\ Compressed(disk[chd[o].file].compression) /\ ~disk[chd[o].file].mapped => FillInv(chd[o], disk[chd[o].file], chd[o].file))'
    BY <1>2
  <2> QED
    BY <1>2, <1>4, <1>5, <1>6, <2>1 DEF ObjectInv
<1>8. (IF n \in DOMAIN OldFiles THEN OldInv(n) ELSE disk[n] = NoFile \/ NewInv(n))'
  BY <1>1 DEF NewFiles
<1>9. y.file # Nobody => y.file = n /\ ObjectInv(o)'
  BY <1>2, <1>7
<1>10. y.parent # o /\ ObjectShape(y)
  BY <1>1, <1>2
<1> QED
  BY <1>1, <1>4, <1>8, <1>9, <1>10, StepKeeps, Zenon

\* How many hunks have been appended.
LEMMA WrittenIs ==
  ASSUME NEW f, NEW x, NEW contents, NEW k \in 0..HunkCount, GoodMap(f, x.rawmap, contents, k)
  PROVE  Written(x) = k
<1>1. Entries(f, x.rawmap, contents, k) /\ HunkCount \in Nat
  BY ConstFacts DEF GoodMap
<1>2. Unwritten # SELF /\ Unwritten # PARENT /\ Unwritten \notin 0..NONE /\ \A c, l, i, crc : Entry(c, l, i, crc).comp = c
  BY CompFacts DEF Entry
<1>3. \A h \in Hunks : h > k => x.rawmap[h].comp = Unwritten
  BY <1>1 DEF Entries
<1>4. \A h \in Hunks : ~(h > k) => x.rawmap[h].comp # Unwritten
  <2> SUFFICES ASSUME NEW h \in Hunks, ~(h > k) PROVE x.rawmap[h].comp # Unwritten
    OBVIOUS
  <2>1. \/ BlockEntry(f, x.rawmap[h], contents[h])
        \/ SelfEntry(x.rawmap, x.rawmap[h], contents, h)
        \/ ParentEntry(f, x.rawmap[h])
    BY <1>1, Zenon DEF Entries
  <2>2. x.rawmap[h].comp \in 0..NONE \/ x.rawmap[h].comp = SELF \/ x.rawmap[h].comp = PARENT
    <3>1. BlockEntry(f, x.rawmap[h], contents[h]) => x.rawmap[h].comp \in 0..NONE
      BY DEF BlockEntry, Stored
    <3>2. SelfEntry(x.rawmap, x.rawmap[h], contents, h) => x.rawmap[h].comp = SELF
      BY <1>2 DEF SelfEntry
    <3>3. ParentEntry(f, x.rawmap[h]) => x.rawmap[h].comp = PARENT
      BY <1>2 DEF ParentEntry
    <3> QED
      BY <2>1, <3>1, <3>2, <3>3, Zenon
  <2> QED
    BY <1>2, <2>2
<1>5. {h \in Hunks : x.rawmap[h].comp # Unwritten} = 1..k
  BY <1>1, <1>3, <1>4 DEF Hunks
<1>6. Cardinality(1..k) = k
  <2>1. k \in Nat /\ 1 \in Int /\ k \in Int
    BY <1>1
  <2>2. Cardinality(1..k) = IF 1 > k THEN 0 ELSE k - 1 + 1
    BY <2>1, FS_Interval
  <2> QED
    BY <2>1, <2>2
<1> QED
  BY <1>5, <1>6 DEF Written

LEMMA WriteMetadataKeeps ==
  ASSUME IInv, NEW o \in Objs, NEW tag, WriteMetadata(o, tag)
  PROVE  IInv'
<1>1. PICK n \in Files : n = chd[o].file
  BY ObjectFacts DEF WriteMetadata
<1> DEFINE x == chd[o]
           f == disk[n]
           g == [f EXCEPT !.meta = With(@, tag, 1), !.end = @ + 1]
           new == [g EXCEPT !.sha1 = UpdatedHash(g)]
<1>2. /\ Opened(o) /\ x.fresh /\ (Compressed(x.compression) => Written(x) \in {0, HunkCount})
      /\ disk' = [disk EXCEPT ![n] = new] /\ UNCHANGED <<chd, truth, damaged, misled>>
  BY <1>1, Zenon DEF WriteMetadata
<1>3. /\ n \in NewFiles /\ NewInv(n) /\ NewFile(f, truth[n]) /\ x.version = 5 /\ x.unit = f.unit /\ x.compression = f.compression
      /\ ~Compressed(f.compression) => x.rawmap = f.map
      /\ Compressed(f.compression) /\ f.mapped => x.rawmap = f.map.mapcrc
      /\ Compressed(f.compression) /\ ~f.mapped => FillInv(x, f, n)
  BY <1>1, <1>2, WriterFacts
<1>4. disk'[n] = new
  BY <1>2 DEF IInv, TypeInv
<1>5. /\ NewHeaderOf(new) /\ new.version = 5 /\ new.signature = TRUE /\ new.sizeok = TRUE /\ new.compression = f.compression
      /\ new.unit = f.unit /\ new.map = f.map /\ new.mapped = f.mapped /\ new.blocks = f.blocks /\ new.end = f.end + 1
      /\ new.rawsha1 = f.rawsha1 /\ new.parentsha1 = f.parentsha1
      /\ new.sha1 = (IF Compressed(f.compression) THEN Overall(f.rawsha1, new) ELSE f.sha1)
  <2> DEFINE meta == With(f.meta, tag, 1)
             end == f.end + 1
             a == [f EXCEPT !.meta = meta]
             sha == UpdatedHash(g)
  <2>1. NewHeaderOf(f) /\ f.version = 5 /\ f.signature = TRUE /\ f.sizeok = TRUE
    BY <1>3, Zenon DEF NewFile
  <2>2. g = [a EXCEPT !.end = end] /\ new = [g EXCEPT !.sha1 = sha]
    OBVIOUS
  <2> HIDE DEF meta, end, f, g, sha, new
  <2>3. /\ NewHeaderOf(a) /\ a.version = f.version /\ a.signature = f.signature /\ a.sizeok = f.sizeok
        /\ a.compression = f.compression /\ a.unit = f.unit /\ a.map = f.map /\ a.mapped = f.mapped
        /\ a.blocks = f.blocks /\ a.sha1 = f.sha1 /\ a.rawsha1 = f.rawsha1
        /\ a.parentsha1 = f.parentsha1 /\ a.meta = meta
    BY <2>1 DEF NewHeaderOf
  <2> HIDE DEF a
  <2>4. /\ NewHeaderOf(g) /\ g.version = a.version /\ g.signature = a.signature /\ g.sizeok = a.sizeok
        /\ g.compression = a.compression /\ g.unit = a.unit /\ g.map = a.map /\ g.mapped = a.mapped
        /\ g.blocks = a.blocks /\ g.end = end /\ g.sha1 = a.sha1 /\ g.rawsha1 = a.rawsha1
        /\ g.parentsha1 = a.parentsha1 /\ g.meta = a.meta
    BY <2>2, <2>3 DEF NewHeaderOf
  <2>5. /\ NewHeaderOf(new) /\ new.version = g.version /\ new.signature = g.signature /\ new.sizeok = g.sizeok
        /\ new.compression = g.compression /\ new.unit = g.unit /\ new.map = g.map /\ new.mapped = g.mapped
        /\ new.blocks = g.blocks /\ new.end = g.end /\ new.sha1 = sha /\ new.rawsha1 = g.rawsha1
        /\ new.parentsha1 = g.parentsha1 /\ new.meta = g.meta
    BY <2>2, <2>4 DEF NewHeaderOf
  <2>6. sha = IF Compressed(f.compression) THEN ComputeOverallSha1(5, f.rawsha1, meta) ELSE f.sha1
    BY <2>1, <2>3, <2>4 DEF UpdatedHash, sha
  <2>7. sha = (IF Compressed(f.compression) THEN Overall(f.rawsha1, new) ELSE f.sha1)
    BY <2>3, <2>4, <2>5, <2>6 DEF Overall
  <2> QED
    BY <2>1, <2>3, <2>4, <2>5, <2>7 DEF end
<1> HIDE DEF new, f, x
<1>6. NewFile(new, truth[n])
  <2>1. /\ f.compression \in [1..4 -> KnownCodecs \cup {"none"}] /\ f.mapped \in BOOLEAN
        /\ f.unit \in Nat \ {0} /\ HunkBytes % f.unit = 0
        /\ f.end \in Nat /\ f.end >= HeaderBytes
        /\ f.blocks \in [DOMAIN f.blocks -> Blocks] /\ \A b \in DOMAIN f.blocks : b \in HeaderBytes..(f.end - 1)
        /\ truth[n] \in [Hunks -> HunkData]
    BY <1>3, Zenon DEF NewFile
  <2>2. f.end + 1 \in Nat /\ f.end + 1 >= HeaderBytes /\ \A b \in DOMAIN f.blocks : b \in HeaderBytes..((f.end + 1) - 1)
    BY <2>1 DEF HeaderBytes
  <2> QED
    BY <1>5, <2>1, <2>2, Zenon DEF NewFile
<1>7. NewInv(n)'
  <2>1. /\ ~Compressed(f.compression) => PlainFile(f, truth[n]) /\ (n \notin damaged => PlainData(f, truth[n]))
        /\ Compressed(f.compression) => PackedFile(f, truth[n])
        /\ Compressed(f.compression) /\ f.mapped =>
             /\ n \notin damaged => TrueBlocks(f, f.map.mapcrc, truth[n])
             /\ n \notin misled /\ ~UncompressedParents => TrueWindows(f, f.map.mapcrc, truth[n])
    BY <1>3, Zenon DEF NewInv, f
  <2>2. ~Compressed(f.compression) => PlainFile(new, truth[n]) /\ (n \notin damaged => PlainData(new, truth[n]))
    BY <1>5, <2>1 DEF PlainFile, PlainData
  <2>3. Compressed(f.compression) => PackedFile(new, truth[n])
    <3>1. \A r, c, k : GoodMap(f, r, c, k) <=> GoodMap(new, r, c, k)
      BY <1>5 DEF GoodMap, Entries, OwnBlocks, BlockEntry, ParentEntry, CodecName
    <3> SUFFICES ASSUME Compressed(f.compression) PROVE PackedFile(new, truth[n])
      OBVIOUS
    <3>2. PackedFile(f, truth[n])
      BY <2>1
    <3>3. new.sha1 = Overall(new.rawsha1, new)
      BY <1>5
    <3> QED
      BY <1>5, <3>1, <3>2, <3>3, Zenon DEF PackedFile
  <2>4. Compressed(f.compression) /\ f.mapped =>
          /\ n \notin damaged => TrueBlocks(new, new.map.mapcrc, truth[n])
          /\ n \notin misled /\ ~UncompressedParents => TrueWindows(new, new.map.mapcrc, truth[n])
    BY <1>5, <2>1 DEF TrueBlocks, TrueWindows
  <2>5. disk'[n] = new /\ truth'[n] = truth[n] /\ damaged' = damaged /\ misled' = misled
        /\ new.compression = f.compression /\ new.mapped = f.mapped
    BY <1>2, <1>4, <1>5
  <2> QED
    BY <1>6, <2>2, <2>3, <2>4, <2>5, Zenon DEF NewInv
<1>8. Compressed(f.compression) /\ ~f.mapped => FillInv(chd[o], disk[n], n)'
  <2> SUFFICES ASSUME Compressed(f.compression), ~f.mapped PROVE FillInv(chd[o], disk[n], n)'
    OBVIOUS
  <2>1. FillInv(x, f, n)
    BY <1>3
  <2>2. PICK k \in 0..HunkCount : GoodMap(f, x.rawmap, truth[n], k) /\ LastAtEnd(f, x.rawmap, k)
    BY <2>1, Zenon DEF FillInv
  <2>3. GoodMap(new, x.rawmap, truth[n], k)
    BY <1>5, <2>2, SMTT(30) DEF GoodMap, Entries, OwnBlocks, BlockEntry, ParentEntry, CodecName
  <2>4. Written(x) = k
    BY <2>2, WrittenIs
  <2>5. LastAtEnd(new, x.rawmap, k)
    <3>1. k = HunkCount \/ k = 0
      BY <1>2, <1>3, <2>4
    <3>2. \A g1 \in Hunks : ~(g1 < 1)
      BY DEF Hunks
    <3> QED
      BY <3>1, <3>2 DEF LastAtEnd, Precedes
  <2>6. TrueBlocks(new, x.rawmap, truth[n]) /\ (n \notin misled /\ ~UncompressedParents => TrueWindows(new, x.rawmap, truth[n]))
    BY <1>5, <2>1 DEF TrueBlocks, TrueWindows, FillInv
  <2>7. new.rawsha1 = Null
    BY <1>5, <2>1 DEF FillInv
  <2>8. /\ disk'[n] = new /\ truth'[n] = truth[n] /\ misled' = misled /\ chd'[o] = x
    BY <1>2, <1>4 DEF x
  <2> QED
    BY <2>3, <2>5, <2>6, <2>7, <2>8, Zenon DEF FillInv
<1>9. /\ chd' = [chd EXCEPT ![o] = chd'[o]] /\ chd'[o] = [chd[o] EXCEPT !.rawmap = chd'[o].rawmap]
      /\ truth' = [truth EXCEPT ![n] = truth'[n]] /\ disk' = [disk EXCEPT ![n] = disk'[n]]
      /\ misled' \subseteq Files /\ damaged' = damaged /\ misled \subseteq misled'
  <2>1. chd' = chd /\ truth' = truth /\ misled' = misled /\ damaged' = damaged
    BY <1>2
  <2>2. ObjectShape(chd[o]) /\ TypeInv
    BY Zenon DEF IInv, ObjectsInv
  <2>3. chd[o] = [chd[o] EXCEPT !.rawmap = chd[o].rawmap]
    BY <2>2 DEF ObjectShape
  <2> QED
    BY <1>2, <1>4, <2>1, <2>2, <2>3 DEF TypeInv
<1>10. /\ disk'[n].compression = disk[n].compression /\ disk'[n].unit = disk[n].unit /\ disk'[n].parentsha1 = disk[n].parentsha1
       /\ disk'[n].mapped = disk[n].mapped /\ disk'[n].map = disk[n].map /\ chd'[o].rawmap = chd[o].rawmap
  BY <1>2, <1>4, <1>5 DEF f
<1>11. /\ ~Compressed(disk[n].compression) => chd'[o].rawmap = disk'[n].map
       /\ Compressed(disk[n].compression) /\ disk'[n].mapped => chd'[o].rawmap = disk'[n].map.mapcrc
       /\ Compressed(disk[n].compression) /\ ~disk'[n].mapped => FillInv(chd[o], disk[n], n)'
  BY <1>3, <1>8, <1>10 DEF f, x
<1>12. Opened(o) /\ chd[o].fresh
  BY <1>2 DEF x
<1> QED
  BY <1>1, <1>7, <1>9, <1>10, <1>11, <1>12, WriterKeeps, Zenon

\* What an object knows is not in the blocks.
SameButBlocks(f, g) ==
  /\ g.version = f.version /\ g.signature = f.signature /\ g.sizeok = f.sizeok /\ g.compression = f.compression
  /\ g.unit = f.unit /\ g.map = f.map /\ g.mapped = f.mapped /\ g.end = f.end /\ g.sha1 = f.sha1 /\ g.rawsha1 = f.rawsha1
  /\ g.parentsha1 = f.parentsha1 /\ g.meta = f.meta

LEMMA ParseSame ==
  ASSUME NEW f, NEW g, SameButBlocks(f, g), Parse(f).error = "NONE"
  PROVE  Parse(g).error = "NONE" /\ g # NoFile
<1>1. f.signature /\ (f.version \in {3, 4} \/ f.version = 5)
  BY DEF Parse, Err
<1>2. g.signature /\ g.version = f.version
  BY <1>1 DEF SameButBlocks
<1>3. g # NoFile
  BY <1>1, <1>2 DEF NoFile
<1>4. CASE f.version \in {3, 4}
  <2>1. ParseOld(f).error = "NONE"
    BY <1>1, <1>4 DEF Parse
  <2>2. f.sizeok /\ f.compression \in 0..3
    BY <2>1 DEF ParseOld, Err
  <2>3. ParseOld(g).error = "NONE"
    BY <2>2 DEF ParseOld, Ok, SameButBlocks
  <2> QED
    BY <1>2, <1>3, <1>4, <2>3 DEF Parse
<1>5. CASE f.version = 5
  <2>1. ParseV5(f).error = "NONE"
    BY <1>1, <1>5 DEF Parse
  <2>2. f.sizeok
    BY <2>1 DEF ParseV5, Err
  <2>3. ParseV5(g).error = "NONE"
    BY <2>2 DEF ParseV5, Ok, SameButBlocks
  <2> QED
    BY <1>2, <1>3, <1>5, <2>3 DEF Parse
<1> QED
  BY <1>1, <1>4, <1>5

LEMMA DamageStays ==
  ASSUME IInv, NEW n \in Files, Damage(n), SameButBlocks(disk[n], disk'[n]),
         IF n \in DOMAIN OldFiles THEN OldInv(n)' ELSE NewInv(n)'
  PROVE  IInv'
<1>1. TypeInv /\ FileInv /\ ObjectsInv
  BY DEF IInv
<1>2. NoWriter /\ damaged = {} /\ damaged' = {n} /\ UNCHANGED <<chd, truth, misled>>
  BY DEF Damage
<1>3. /\ \A m \in Files \ {n} : disk'[m] = disk[m]
      /\ DOMAIN disk' = Files /\ disk' = [m \in Files |-> disk'[m]]
  BY <1>1 DEF Damage, TypeInv
<1>4. \A m \in Files : SameButBlocks(disk[m], disk'[m])
  <2>1. \A h : SameButBlocks(h, h)
    BY DEF SameButBlocks
  <2> QED
    BY <1>3, <2>1
<1>5. TypeInv'
  BY <1>1, <1>2, <1>3 DEF TypeInv
<1>6. FileInv'
  <2> SUFFICES ASSUME NEW m \in Files, m # n
               PROVE  (IF m \in DOMAIN OldFiles THEN OldInv(m) ELSE disk[m] = NoFile \/ NewInv(m))'
    BY Zenon DEF FileInv
  <2>1. IF m \in DOMAIN OldFiles THEN OldInv(m) ELSE disk[m] = NoFile \/ NewInv(m)
    BY <1>1, Zenon DEF FileInv
  <2>2. disk'[m] = disk[m] /\ truth'[m] = truth[m] /\ damaged \subseteq damaged' /\ misled \subseteq misled'
    BY <1>2, <1>3
  <2> QED
    BY <2>1, <2>2, NewStays, OldStays, Zenon
<1>7. ASSUME NEW o \in Objs, Opened(o) PROVE ObjectInv(o)'
  <2>1. ObjectInv(o) /\ chd'[o] = chd[o] /\ ~chd[o].fresh
    BY <1>1, <1>2, <1>7 DEF ObjectsInv, NoWriter
  <2>2. PICK m \in Files : m = chd[o].file
    BY <2>1 DEF ObjectInv
  <2> DEFINE x == chd[o]
             f == disk[m]
             g == disk'[m]
  <2>3. x.unit \in Nat \ {0} /\ HunkBytes % x.unit = 0 /\ KnowsFile(x, f) /\ KnowsParent(x, f)
    BY <2>1, <2>2, Zenon DEF ObjectInv
  <2>4. SameButBlocks(f, g)
    BY <1>4
  <2>5. Parse(f).error = "NONE"
    BY <2>3 DEF KnowsFile
  <2>6. Parse(g).error = "NONE" /\ g # NoFile
    BY <2>4, <2>5, ParseSame, Zenon
  <2>7. KnowsFile(x, g)
    <3> HIDE DEF x, f, g
    <3> QED
      BY <2>3, <2>4, <2>6 DEF KnowsFile, SameButBlocks, OldCodec
  <2>8. KnowsParent(chd[o], disk[chd[o].file])'
    <3>1. CASE x.parent = Nobody
      BY <2>1, <2>2, <2>3, <2>4, <3>1 DEF KnowsParent, SameButBlocks
    <3>2. CASE x.parent # Nobody
      <4>1. PICK p \in Objs : p = x.parent /\ p \in OpenObjs /\ Opened(p) /\ ~chd[p].fresh /\ ~x.missing
                              /\ Sha1(p) = f.parentsha1 /\ (f.parentsha1 # Null \/ UncompressedParents)
        BY <2>3, <3>2 DEF KnowsParent, OpenObjs
      <4>2. chd[p].file \in Files
        BY <4>1, ObjectFacts
      <4>3. disk'[chd[p].file].sha1 = disk[chd[p].file].sha1 /\ chd' = chd /\ g.parentsha1 = f.parentsha1
        BY <1>2, <1>4, <2>4, <4>2 DEF SameButBlocks
      <4>4. p \in OpenObjs' /\ Sha1(p)' = Sha1(p)
        BY <4>1, <4>3 DEF OpenObjs, Opened, Sha1
      <4> QED
        BY <2>2, <3>2, <4>1, <4>3, <4>4 DEF KnowsParent
    <3> QED
      BY <3>1, <3>2
  <2> QED
    BY <2>1, <2>2, <2>3, <2>6, <2>7, <2>8 DEF ObjectInv
<1>8. ObjectsInv'
  <2>1. chd' = chd
    BY <1>2
  <2>2. \A o \in Objs : ObjectShape(chd'[o]) /\ (Opened(o)' => ObjectInv(o)')
    BY <1>1, <1>7, <2>1 DEF ObjectsInv, Opened
  <2>3. \A m : Ranks(m)' = Ranks(m)
    BY <2>1 DEF Ranks, Opened
  <2>4. \E m \in Nat : Ranks(m)' # {}
    BY <1>1, <2>3 DEF ObjectsInv
  <2>5. OpenObjs' = OpenObjs
    BY <2>1 DEF OpenObjs, Opened
  <2>6. /\ \A o, p \in OpenObjs : chd[o].file = chd[p].file => o = p
        /\ \A o, p \in OpenObjs : chd[o].fresh /\ chd[p].fresh => o = p
    BY <1>1, Zenon DEF ObjectsInv
  <2> QED
    BY <2>1, <2>2, <2>4, <2>5, <2>6, Zenon DEF ObjectsInv
<1> QED
  BY <1>5, <1>6, <1>8 DEF IInv

LEMMA DamageKeeps ==
  ASSUME IInv, NEW n \in Files, Damage(n)
  PROVE  IInv'
<1> DEFINE f == disk[n]
           g == disk'[n]
           nb == g.blocks
<1>1. TypeInv /\ FileInv /\ ObjectsInv
  BY DEF IInv
<1>2. PICK b, c : c \in Contents /\ disk' = [disk EXCEPT ![n].blocks[b].data = c]
  <2>1. PICK c \in Contents : disk' = [disk EXCEPT ![n].blocks[Min(DOMAIN disk[n].blocks)].data = c]
    BY Zenon DEF Damage
  <2>2. PICK b : b = Min(DOMAIN disk[n].blocks)
    OBVIOUS
  <2> QED
    BY <2>1, <2>2, Zenon
<1>3. NoWriter /\ damaged = {} /\ f # NoFile /\ damaged' = {n} /\ UNCHANGED <<chd, truth, misled>>
  BY DEF Damage
<1>4. /\ g = [f EXCEPT !.blocks = [f.blocks EXCEPT ![b] = [f.blocks[b] EXCEPT !.data = c]]]
      /\ \A m \in Files \ {n} : disk'[m] = disk[m]
      /\ DOMAIN disk' = Files /\ disk' = [m \in Files |-> disk'[m]]
  BY <1>1, <1>2 DEF TypeInv
<1>5. CASE n \in DOMAIN OldFiles
  <2> DEFINE old == OldFiles[n].file
  <2>1. OldInv(n)
    BY <1>1, <1>5, Zenon DEF FileInv
  <2>2. OldFile(old, OldFiles[n].truth)
    BY <1>5, OldAssumption
  <2>3. /\ old = [version |-> old.version, signature |-> old.signature, sizeok |-> old.sizeok, compression |-> old.compression,
                  map |-> old.map, mapped |-> old.mapped, blocks |-> old.blocks, end |-> old.end, sha1 |-> old.sha1,
                  rawsha1 |-> old.rawsha1, parentsha1 |-> old.parentsha1, meta |-> old.meta]
        /\ f = [old EXCEPT !.blocks = f.blocks] /\ DOMAIN f.blocks = DOMAIN old.blocks /\ truth[n] = OldFiles[n].truth
        /\ \A i \in DOMAIN old.blocks :
             /\ f.blocks[i] = [codec |-> old.blocks[i].codec, data |-> f.blocks[i].data, len |-> old.blocks[i].len]
             /\ f.blocks[i].data \in Contents \cup {old.blocks[i].data}
    <3>1. old = [version |-> old.version, signature |-> old.signature, sizeok |-> old.sizeok, compression |-> old.compression,
                  map |-> old.map, mapped |-> old.mapped, blocks |-> old.blocks, end |-> old.end, sha1 |-> old.sha1,
                  rawsha1 |-> old.rawsha1, parentsha1 |-> old.parentsha1, meta |-> old.meta]
      BY <2>2, Zenon DEF OldFile
    <3> QED
      BY <2>1, <3>1, Zenon DEF OldInv
  <2> HIDE DEF old, f, g
  <2>4. /\ g = [old EXCEPT !.blocks = g.blocks] /\ g.blocks = [f.blocks EXCEPT ![b] = [f.blocks[b] EXCEPT !.data = c]]
        /\ SameButBlocks(f, g)
    BY <1>4, <2>3 DEF SameButBlocks
  <2>5. \A i \in DOMAIN old.blocks : g.blocks[i] = IF i = b THEN [f.blocks[b] EXCEPT !.data = c] ELSE f.blocks[i]
    BY <2>3, <2>4
  <2>6. \A i \in DOMAIN old.blocks :
             /\ g.blocks[i] = [codec |-> old.blocks[i].codec, data |-> g.blocks[i].data, len |-> old.blocks[i].len]
             /\ g.blocks[i].data \in Contents \cup {old.blocks[i].data}
    <3> SUFFICES ASSUME NEW i \in DOMAIN old.blocks
                 PROVE /\ g.blocks[i] = [codec |-> old.blocks[i].codec, data |-> g.blocks[i].data, len |-> old.blocks[i].len]
                       /\ g.blocks[i].data \in Contents \cup {old.blocks[i].data}
      OBVIOUS
    <3>1. /\ f.blocks[i] = [codec |-> old.blocks[i].codec, data |-> f.blocks[i].data, len |-> old.blocks[i].len]
          /\ f.blocks[i].data \in Contents \cup {old.blocks[i].data}
      BY <2>3
    <3>2. CASE i = b
      BY <1>2, <2>5, <3>1, <3>2
    <3>3. CASE i # b
      BY <2>5, <3>1, <3>3
    <3> QED
      BY <3>2, <3>3
  <2>7. DOMAIN g.blocks = DOMAIN old.blocks
    BY <2>3, <2>4
  <2>8. OldInv(n)'
    BY <1>3, <2>3, <2>4, <2>6, <2>7 DEF OldInv, old, g
  <2> QED
    BY <1>5, <2>4, <2>8, DamageStays DEF f, g
<1>6. CASE n \notin DOMAIN OldFiles
  <2>1. NewInv(n)
    BY <1>1, <1>3, <1>6, Zenon DEF FileInv
  <2>2. NewFile(f, truth[n])
    BY <2>1, Zenon DEF NewInv
  <2>3. /\ NewHeaderOf(f) /\ f.version = 5 /\ f.signature = TRUE /\ f.sizeok = TRUE
        /\ f.compression \in [1..4 -> KnownCodecs \cup {"none"}] /\ f.mapped \in BOOLEAN
        /\ f.unit \in Nat \ {0} /\ HunkBytes % f.unit = 0
        /\ f.end \in Nat /\ f.end >= HeaderBytes
        /\ f.blocks \in [DOMAIN f.blocks -> Blocks] /\ \A i \in DOMAIN f.blocks : i \in HeaderBytes..(f.end - 1)
        /\ truth[n] \in [Hunks -> HunkData]
    BY <2>2, Zenon DEF NewFile
  <2> HIDE DEF f, g
  <2>4. /\ NewHeaderOf(g) /\ g.blocks = [f.blocks EXCEPT ![b] = [f.blocks[b] EXCEPT !.data = c]]
        /\ SameButBlocks(f, g)
    BY <1>4, <2>3 DEF SameButBlocks, NewHeaderOf
  <2>5. /\ DOMAIN g.blocks = DOMAIN f.blocks
        /\ \A i \in DOMAIN f.blocks : g.blocks[i] = IF i = b THEN [f.blocks[b] EXCEPT !.data = c] ELSE f.blocks[i]
        /\ g.blocks = [i \in DOMAIN f.blocks |-> g.blocks[i]]
    BY <2>3, <2>4
  <2>6. \A i \in DOMAIN f.blocks : f.blocks[i] \in Blocks
    BY <2>3
  <2>7. \A i \in DOMAIN f.blocks : g.blocks[i] \in Blocks /\ g.blocks[i].codec = f.blocks[i].codec /\ g.blocks[i].len = f.blocks[i].len
    <3> SUFFICES ASSUME NEW i \in DOMAIN f.blocks
                 PROVE  g.blocks[i] \in Blocks /\ g.blocks[i].codec = f.blocks[i].codec /\ g.blocks[i].len = f.blocks[i].len
      OBVIOUS
    <3>1. f.blocks[i] \in Blocks
      BY <2>6
    <3>2. CASE i = b
      BY <1>2, <2>5, <3>1, <3>2 DEF Blocks
    <3>3. CASE i # b
      BY <2>5, <3>1, <3>3
    <3> QED
      BY <3>2, <3>3
  <2>8. g.blocks \in [DOMAIN g.blocks -> Blocks]
    BY <2>5, <2>7
  <2>9. NewFile(g, truth[n])
    <3>1. /\ g.version = 5 /\ g.signature = TRUE /\ g.sizeok = TRUE /\ g.compression = f.compression /\ g.mapped = f.mapped
          /\ g.unit = f.unit /\ g.end = f.end
      BY <2>3, <2>4 DEF SameButBlocks
    <3> QED
      BY <2>3, <2>4, <2>5, <2>8, <3>1, Zenon DEF NewFile
  <2>10. /\ ~Compressed(f.compression) => PlainFile(f, truth[n])
         /\ Compressed(f.compression) => PackedFile(f, truth[n])
         /\ Compressed(f.compression) /\ f.mapped /\ n \notin misled /\ ~UncompressedParents => TrueWindows(f, f.map.mapcrc, truth[n])
    BY <2>1, Zenon DEF NewInv, f
  <2>11. ~Compressed(f.compression) => PlainFile(g, truth[n])
    BY <2>4, <2>5, <2>10 DEF PlainFile, SameButBlocks
  <2>12. Compressed(f.compression) => PackedFile(g, truth[n])
    <3>1. \A r, k : GoodMap(f, r, truth[n], k) => GoodMap(g, r, truth[n], k)
      <4>1. \A e, d : BlockEntry(f, e, d) => BlockEntry(g, e, d)
        BY <2>4, <2>5, <2>7 DEF BlockEntry, CodecName, SameButBlocks
      <4>2. \A e : ParentEntry(f, e) => ParentEntry(g, e)
        BY <2>4 DEF ParentEntry, SameButBlocks
      <4>3. \A r, k : Entries(f, r, truth[n], k) => Entries(g, r, truth[n], k)
        BY <4>1, <4>2, Zenon DEF Entries
      <4>4. \A r : OwnBlocks(f, r) => OwnBlocks(g, r)
        BY <2>5 DEF OwnBlocks
      <4> QED
        BY <4>3, <4>4, Zenon DEF GoodMap
    <3>2. /\ g.rawsha1 = f.rawsha1 /\ g.sha1 = f.sha1 /\ g.mapped = f.mapped /\ g.map = f.map /\ g.unit = f.unit
          /\ \A raw : Overall(raw, g) = Overall(raw, f)
      BY <2>4 DEF SameButBlocks, Overall
    <3> QED
      BY <2>10, <3>1, <3>2, Zenon DEF PackedFile
  <2>13. Compressed(f.compression) /\ f.mapped /\ n \notin misled /\ ~UncompressedParents => TrueWindows(g, g.map.mapcrc, truth[n])
    BY <2>4, <2>10 DEF TrueWindows, SameButBlocks
  <2>14. g = disk'[n] /\ truth'[n] = truth[n] /\ misled' = misled /\ n \in damaged' /\ g.compression = f.compression /\ g.mapped = f.mapped
    BY <1>3, <2>4 DEF SameButBlocks, g
  <2>15. NewInv(n)'
    BY <2>9, <2>11, <2>12, <2>13, <2>14, Zenon DEF NewInv
  <2> QED
    BY <1>6, <2>4, <2>15, DamageStays DEF f, g
<1> QED
  BY <1>5, <1>6

LEMMA MaxOfTwo ==
  ASSUME NEW a \in Nat, NEW b \in Nat
  PROVE  Max({a, b}) \in {a, b} /\ Max({a, b}) >= a /\ Max({a, b}) >= b
<1>1. \E m \in {a, b} : \A y \in {a, b} : m >= y
  <2>1. a >= b => \A y \in {a, b} : a >= y
    OBVIOUS
  <2>2. ~(a >= b) => \A y \in {a, b} : b >= y
    OBVIOUS
  <2> QED
    BY <2>1, <2>2
<1> DEFINE T == {a, b}
<1>2. Max(T) = CHOOSE m \in T : \A y \in T : m >= y
  BY DEF Max
<1> HIDE DEF T
<1>3. Max(T) \in T /\ \A y \in T : Max(T) >= y
  BY <1>1, <1>2, Zenon DEF T
<1> QED
  BY <1>3 DEF T

\* The end of the file, rounded up to a whole hunk.
LEMMA RoundedUp ==
  ASSUME NEW e \in Nat
  PROVE  ((e + FileBytes - 1) \div FileBytes) * FileBytes \in Nat /\ ((e + FileBytes - 1) \div FileBytes) * FileBytes >= e
<1> DEFINE a == e + FileBytes - 1
           q == a \div FileBytes
           r == a % FileBytes
<1>1. FileBytes \in Nat \ {0}
  BY ConstFacts
<1>2. a \in Nat
  BY <1>1
<1>3. a = FileBytes * q + r /\ r \in Nat /\ r < FileBytes /\ q \in Nat
  <2> HIDE DEF a
  <2> QED
    BY <1>1, <1>2, DivMod
<1>4. a = e + FileBytes - 1
  OBVIOUS
<1> HIDE DEF a, q, r
<1>5. FileBytes * q \in Nat /\ q * FileBytes = FileBytes * q
  BY <1>1, <1>3
<1> DEFINE s == FileBytes * q
<1> HIDE DEF s
<1>6. s \in Nat /\ a = s + r
  BY <1>3, <1>5 DEF s
<1>7. s >= e
  BY <1>1, <1>3, <1>4, <1>6
<1> QED
  BY <1>5, <1>6, <1>7 DEF s, q, a

LEMMA WriteHunkKeeps ==
  ASSUME IInv, NEW o \in Objs, NEW h \in Hunks, NEW data \in Contents, WriteHunk(o, h, data)
  PROVE  IInv'
<1>1. PICK n \in Files : n = chd[o].file
  BY ObjectFacts DEF WriteHunk
<1> DEFINE x == chd[o]
           f == disk[n]
           end == ((f.end + FileBytes - 1) \div FileBytes) * FileBytes
           at == IF x.rawmap[h] # 0 THEN x.rawmap[h] ELSE end
           block == [codec |-> "raw", data |-> data, len |-> FileBytes]
           blocks == With(f.blocks, at, block)
           last == Max({f.end, at + FileBytes})
           new == [f EXCEPT !.map[h] = at, !.end = last, !.blocks = blocks]
           contents == [truth[n] EXCEPT ![h] = data]
<1>2. /\ Opened(o) /\ x.fresh /\ ~Compressed(x.compression)
      /\ chd' = [chd EXCEPT ![o].rawmap[h] = at] /\ disk' = [disk EXCEPT ![n] = new]
      /\ truth' = [truth EXCEPT ![n][h] = data] /\ UNCHANGED <<damaged, misled>>
  BY <1>1, Zenon DEF WriteHunk
<1>3. /\ n \in NewFiles /\ NewInv(n) /\ NewFile(f, truth[n]) /\ x.unit = f.unit /\ x.compression = f.compression
      /\ ~Compressed(f.compression) => x.rawmap = f.map
      /\ ObjectShape(x)
  BY <1>1, <1>2, WriterFacts
<1>4. /\ NewHeaderOf(f) /\ f.version = 5 /\ f.signature = TRUE /\ f.sizeok = TRUE
      /\ f.compression \in [1..4 -> KnownCodecs \cup {"none"}] /\ f.mapped \in BOOLEAN
      /\ f.unit \in Nat \ {0} /\ HunkBytes % f.unit = 0
      /\ f.end \in Nat /\ f.end >= HeaderBytes
      /\ f.blocks \in [DOMAIN f.blocks -> Blocks] /\ \A i \in DOMAIN f.blocks : i \in HeaderBytes..(f.end - 1)
      /\ truth[n] \in [Hunks -> HunkData]
  BY <1>3, Zenon DEF NewFile
<1>5. /\ PlainFile(f, truth[n]) /\ (n \notin damaged => PlainData(f, truth[n])) /\ ~Compressed(f.compression) /\ x.rawmap = f.map
  <2>1. ~Compressed(f.compression)
    BY <1>2, <1>3
  <2> QED
    BY <1>3, <2>1, Zenon DEF NewInv
<1>6. /\ f.mapped /\ f.sha1 = Null /\ f.map \in [Hunks -> Nat]
      /\ \A g \in Hunks :
           IF f.map[g] # 0 THEN f.map[g] \in DOMAIN f.blocks
           ELSE /\ f.parentsha1 = Null /\ ~UncompressedParents => truth[n][g] = Zero
                /\ HasContents(f.parentsha1) => truth[n][g] = ContentsOf(f.parentsha1)[g]
      /\ \A g, i \in Hunks : f.map[g] # 0 /\ f.map[g] = f.map[i] => g = i
  BY <1>5, Zenon DEF PlainFile
<1>7. chd'[o] = [x EXCEPT !.rawmap = [f.map EXCEPT ![h] = at]] /\ disk'[n] = new /\ truth'[n] = contents
      /\ chd' = [chd EXCEPT ![o] = chd'[o]] /\ disk' = [disk EXCEPT ![n] = disk'[n]] /\ truth' = [truth EXCEPT ![n] = truth'[n]]
  BY <1>2, <1>5 DEF IInv, TypeInv
<1>8. contents \in [Hunks -> HunkData] /\ \A g \in Hunks : contents[g] = IF g = h THEN data ELSE truth[n][g]
  BY <1>4, ConstFacts
<1>9. /\ at \in Nat /\ at >= HeaderBytes
      /\ \/ f.map[h] # 0 /\ at = f.map[h] /\ at \in DOMAIN f.blocks
         \/ f.map[h] = 0 /\ at >= f.end
  <2>1. end \in Nat /\ end >= f.end
    BY <1>4, RoundedUp
  <2> HIDE DEF end
  <2>2. HeaderBytes = 4 /\ at = (IF f.map[h] # 0 THEN f.map[h] ELSE end)
    BY <1>5 DEF HeaderBytes
  <2>3. CASE f.map[h] # 0
    <3>1. at = f.map[h] /\ at \in DOMAIN f.blocks
      BY <1>6, <2>2, <2>3
    <3> QED
      BY <1>4, <2>2, <2>3, <3>1
  <2>4. CASE f.map[h] = 0
    BY <1>4, <2>1, <2>2, <2>4
  <2> QED
    BY <2>3, <2>4
<1>10. last \in Nat /\ last >= f.end /\ last >= at + FileBytes /\ FileBytes \in Nat /\ FileBytes > 1
  <2> HIDE DEF at
  <2>1. FileBytes \in Nat /\ FileBytes > 1 /\ at + FileBytes \in Nat
    BY <1>9, ConstFacts
  <2>2. last \in {f.end, at + FileBytes} /\ last >= f.end /\ last >= at + FileBytes
    BY <1>4, <2>1, MaxOfTwo, Zenon
  <2> QED
    BY <1>4, <2>1, <2>2
<1>11. /\ DOMAIN blocks = {at} \cup DOMAIN f.blocks /\ blocks = [b \in DOMAIN blocks |-> blocks[b]]
       /\ blocks[at] = block /\ \A b \in DOMAIN f.blocks : b # at => blocks[b] = f.blocks[b]
  <2> HIDE DEF at, block, f
  <2> QED
    BY DEF With
<1> HIDE DEF contents, blocks, last, at
<1>12. block \in Blocks
  <2>1. FileBytes \in Nat
    BY <1>10
  <2>2. \A len \in Nat : [codec |-> "raw", data |-> data, len |-> len] \in Blocks
    BY DEF Blocks
  <2> QED
    BY <2>1, <2>2, Zenon
<1> HIDE DEF block
<1>13. \A b \in DOMAIN blocks : blocks[b] \in Blocks /\ b \in HeaderBytes..(last - 1)
  <2> SUFFICES ASSUME NEW b \in DOMAIN blocks PROVE blocks[b] \in Blocks /\ b \in HeaderBytes..(last - 1)
    OBVIOUS
  <2>1. CASE b = at
    BY <1>9, <1>10, <1>11, <1>12, <2>1 DEF HeaderBytes
  <2>2. CASE b # at
    <3>1. b \in DOMAIN f.blocks /\ blocks[b] = f.blocks[b]
      BY <1>11, <2>2
    <3> QED
      BY <1>4, <1>10, <3>1 DEF HeaderBytes
  <2> QED
    BY <2>1, <2>2
<1>14. blocks \in [DOMAIN blocks -> Blocks]
  BY <1>11, <1>13
<1> DEFINE map == [f.map EXCEPT ![h] = at]
           a == [f EXCEPT !.map = map]
           c == [a EXCEPT !.end = last]
<1>15. map \in [Hunks -> Nat] /\ \A g \in Hunks : map[g] = IF g = h THEN at ELSE f.map[g]
  BY <1>6, <1>9
<1>16. new = [c EXCEPT !.blocks = blocks]
  OBVIOUS
<1> HIDE DEF f, new, map
<1>17. /\ NewHeaderOf(new) /\ new.version = 5 /\ new.signature = TRUE /\ new.sizeok = TRUE /\ new.compression = f.compression
       /\ new.unit = f.unit /\ new.map = map /\ new.mapped = f.mapped /\ new.blocks = blocks /\ new.end = last
       /\ new.sha1 = f.sha1 /\ new.parentsha1 = f.parentsha1
  <2>1. /\ NewHeaderOf(a) /\ a.version = f.version /\ a.signature = f.signature /\ a.sizeok = f.sizeok
        /\ a.compression = f.compression /\ a.unit = f.unit /\ a.map = map /\ a.mapped = f.mapped
        /\ a.blocks = f.blocks /\ a.sha1 = f.sha1 /\ a.rawsha1 = f.rawsha1
        /\ a.parentsha1 = f.parentsha1 /\ a.meta = f.meta
    BY <1>4 DEF NewHeaderOf
  <2> HIDE DEF a
  <2>2. /\ NewHeaderOf(c) /\ c.version = a.version /\ c.signature = a.signature /\ c.sizeok = a.sizeok
        /\ c.compression = a.compression /\ c.unit = a.unit /\ c.map = a.map /\ c.mapped = a.mapped
        /\ c.end = last /\ c.sha1 = a.sha1 /\ c.rawsha1 = a.rawsha1
        /\ c.parentsha1 = a.parentsha1 /\ c.meta = a.meta
    BY <2>1 DEF NewHeaderOf
  <2> HIDE DEF c
  <2>3. /\ NewHeaderOf(new) /\ new.version = c.version /\ new.signature = c.signature /\ new.sizeok = c.sizeok
        /\ new.compression = c.compression /\ new.unit = c.unit /\ new.map = c.map /\ new.mapped = c.mapped
        /\ new.blocks = blocks /\ new.end = c.end /\ new.sha1 = c.sha1 /\ new.rawsha1 = c.rawsha1
        /\ new.parentsha1 = c.parentsha1 /\ new.meta = c.meta
    BY <1>16, <2>2 DEF NewHeaderOf
  <2> QED
    BY <1>4, <2>1, <2>2, <2>3
<1>18. NewFile(new, contents)
  <2>1. last >= HeaderBytes
    BY <1>4, <1>10 DEF HeaderBytes
  <2> QED
    BY <1>4, <1>8, <1>10, <1>13, <1>14, <1>17, <2>1, Zenon DEF NewFile
<1>19. PlainFile(new, contents)
  <2>1. \A g \in Hunks :
          IF map[g] # 0 THEN map[g] \in DOMAIN blocks
          ELSE /\ f.parentsha1 = Null /\ ~UncompressedParents => contents[g] = Zero
               /\ HasContents(f.parentsha1) => contents[g] = ContentsOf(f.parentsha1)[g]
    <3> SUFFICES ASSUME NEW g \in Hunks
                 PROVE  IF map[g] # 0 THEN map[g] \in DOMAIN blocks
                        ELSE /\ f.parentsha1 = Null /\ ~UncompressedParents => contents[g] = Zero
                             /\ HasContents(f.parentsha1) => contents[g] = ContentsOf(f.parentsha1)[g]
      OBVIOUS
    <3>1. CASE g = h
      <4>1. map[g] = at /\ at # 0 /\ at \in DOMAIN blocks
        BY <1>9, <1>11, <1>15, <3>1 DEF HeaderBytes
      <4> QED
        BY <4>1
    <3>2. CASE g # h
      <4>1. map[g] = f.map[g] /\ contents[g] = truth[n][g] /\ DOMAIN f.blocks \subseteq DOMAIN blocks
        BY <1>8, <1>11, <1>15, <3>2
      <4> QED
        BY <1>6, <4>1
    <3> QED
      BY <3>1, <3>2
  <2>2. \A g \in Hunks : g # h => map[g] # at
    <3> SUFFICES ASSUME NEW g \in Hunks, g # h, f.map[g] = at PROVE FALSE
      BY <1>15
    <3>1. f.map[g] # 0 /\ f.map[g] \in DOMAIN f.blocks
      BY <1>6, <1>9 DEF HeaderBytes
    <3>2. f.map[g] < f.end
      BY <1>4, <3>1 DEF HeaderBytes
    <3>3. f.map[h] # 0 /\ at = f.map[h]
      BY <1>4, <1>9, <3>2
    <3> QED
      BY <1>6, <3>1, <3>3
  <2>3. \A g, i \in Hunks : map[g] # 0 /\ map[g] = map[i] => g = i
    BY <1>6, <1>15, <2>2
  <2> QED
    BY <1>6, <1>15, <1>17, <2>1, <2>3, ZenonT(60) DEF PlainFile
<1>20. n \notin damaged => PlainData(new, contents)
  <2> SUFFICES ASSUME n \notin damaged, NEW g \in Hunks, map[g] # 0 PROVE blocks[map[g]].data = contents[g]
    BY <1>17 DEF PlainData
  <2>1. CASE g = h
    BY <1>8, <1>11, <1>15, <2>1 DEF block
  <2>2. CASE g # h
    <3>1. map[g] = f.map[g] /\ contents[g] = truth[n][g] /\ f.map[g] # 0 /\ f.map[g] \in DOMAIN f.blocks
      BY <1>6, <1>8, <1>15, <2>2
    <3>2. f.blocks[f.map[g]].data = truth[n][g]
      BY <1>5, <3>1 DEF PlainData
    <3>3. f.map[g] # at
      <4>1. f.map[g] < f.end /\ f.map[g] \in Nat
        BY <1>4, <1>6, <3>1 DEF HeaderBytes
      <4> QED
        BY <1>4, <1>6, <1>9, <2>2, <3>1, <4>1
    <3> QED
      BY <1>11, <3>1, <3>2, <3>3
  <2> QED
    BY <2>1, <2>2
<1>21. NewInv(n)'
  <2>1. disk'[n] = new /\ truth'[n] = contents /\ damaged' = damaged /\ ~Compressed(new.compression)
    BY <1>2, <1>5, <1>7, <1>17
  <2> QED
    BY <1>18, <1>19, <1>20, <2>1, Zenon DEF NewInv
<1>22. chd'[o] = [x EXCEPT !.rawmap = map]
  BY <1>7 DEF f, map
<1>23. chd'[o].rawmap = map /\ chd'[o] = [chd[o] EXCEPT !.rawmap = chd'[o].rawmap]
  <2>1. ObjectShape(x)
    BY <1>3
  <2> HIDE DEF x
  <2>2. [x EXCEPT !.rawmap = map].rawmap = map
    BY <2>1 DEF ObjectShape
  <2> QED
    BY <1>22, <2>2 DEF x
<1>24. /\ disk'[n].compression = disk[n].compression /\ disk'[n].unit = disk[n].unit /\ disk'[n].parentsha1 = disk[n].parentsha1
       /\ chd'[o].rawmap = disk'[n].map /\ ~Compressed(disk[n].compression)
  BY <1>5, <1>7, <1>17, <1>23 DEF f
<1>25. Opened(o) /\ chd[o].fresh /\ misled \subseteq misled' /\ misled' \subseteq Files /\ damaged' = damaged
  BY <1>2 DEF IInv, TypeInv
<1> QED
  BY <1>1, <1>7, <1>21, <1>23, <1>24, <1>25, WriterKeeps, Zenon

LEMMA FinalizeKeeps ==
  ASSUME IInv, NEW o \in Objs, NEW done \in 1..3, NEW beyond \in Beyond, Finalize(o, done, beyond)
  PROVE  IInv'
<1>1. PICK n \in Files : n = chd[o].file
  BY ObjectFacts DEF Finalize
<1> DEFINE x == chd[o]
           f == disk[n]
           contents == truth[n]
           uph == UnitsPerHunk(x)
           raw == [f EXCEPT !.rawsha1 = RawSha1(contents)]
           all == [raw EXCEPT !.sha1 = UpdatedHash(raw)]
           packed == CompressMap(x.rawmap, uph, beyond)
           final == [all EXCEPT !.map = packed, !.mapped = TRUE]
           g == disk'[n]
<1>2. /\ Opened(o) /\ x.fresh /\ Compressed(x.compression) /\ ~f.mapped /\ Written(x) = HunkCount
      /\ disk' = [disk EXCEPT ![n] = Finalized(f, contents, x.rawmap, uph, beyond, done)]
      /\ chd' = [chd EXCEPT ![o] = IF done < 3 THEN Closed ELSE x]
      /\ UNCHANGED <<truth, damaged, misled>>
  BY <1>1, Zenon DEF Finalize
<1>3. /\ n \in NewFiles /\ NewInv(n) /\ NewFile(f, contents) /\ x.unit = f.unit /\ x.compression = f.compression
      /\ Compressed(f.compression) /\ FillInv(x, f, n) /\ ObjectShape(x)
      /\ \A p \in Objs \ {o} : Opened(p) => chd[p].file # n /\ chd[p].parent # o
  BY <1>1, <1>2, WriterFacts
<1>4. /\ f.rawsha1 = Null /\ TrueBlocks(f, x.rawmap, contents)
      /\ n \notin misled /\ ~UncompressedParents => TrueWindows(f, x.rawmap, contents)
      /\ GoodMap(f, x.rawmap, contents, HunkCount)
  <2>1. PICK k \in 0..HunkCount : GoodMap(f, x.rawmap, contents, k)
    BY <1>3, Zenon DEF FillInv
  <2>2. k = HunkCount
    BY <1>2, <2>1, WrittenIs
  <2> QED
    BY <1>3, <2>1, <2>2, Zenon DEF FillInv
<1>5. /\ NewHeaderOf(f) /\ f.version = 5 /\ f.signature = TRUE /\ f.sizeok = TRUE
      /\ f.compression \in [1..4 -> KnownCodecs \cup {"none"}] /\ f.mapped \in BOOLEAN
      /\ f.unit \in Nat \ {0} /\ HunkBytes % f.unit = 0
      /\ f.end \in Nat /\ f.end >= HeaderBytes
      /\ f.blocks \in [DOMAIN f.blocks -> Blocks] /\ \A i \in DOMAIN f.blocks : i \in HeaderBytes..(f.end - 1)
      /\ contents \in [Hunks -> HunkData]
  BY <1>3, Zenon DEF NewFile
<1>6. g = IF done = 1 THEN raw ELSE IF done = 2 THEN all ELSE final
  <2>1. g = Finalized(f, contents, x.rawmap, uph, beyond, done)
    BY <1>2 DEF IInv, TypeInv
  <2>2. /\ ~(done < 1)
        /\ \/ done = 1 /\ done < 2 /\ done < 3
           \/ ~(done = 1) /\ done = 2 /\ ~(done < 2) /\ done < 3
           \/ ~(done = 1) /\ ~(done = 2) /\ ~(done < 2) /\ ~(done < 3)
    OBVIOUS
  <2>3. Finalized(f, contents, x.rawmap, uph, beyond, done) = IF done = 1 THEN raw ELSE IF done = 2 THEN all ELSE final
    BY <2>2, Zenon DEF Finalized
  <2> QED
    BY <2>1, <2>3
<1>7. packed.mapcrc = x.rawmap /\ uph = HunkBytes \div f.unit
  <2>1. packed.mapcrc = x.rawmap
    BY CompressedMap, Zenon
  <2> QED
    BY <1>3, <2>1 DEF UnitsPerHunk
<1> DEFINE sha == RawSha1(contents)
           overall == UpdatedHash(raw)
           mid == [all EXCEPT !.map = packed]
<1>8. final = [mid EXCEPT !.mapped = TRUE]
  OBVIOUS
<1> HIDE DEF f, g, packed
<1>9. /\ NewHeaderOf(raw) /\ raw.version = f.version /\ raw.signature = f.signature /\ raw.sizeok = f.sizeok
      /\ raw.compression = f.compression /\ raw.unit = f.unit /\ raw.map = f.map /\ raw.mapped = f.mapped
      /\ raw.blocks = f.blocks /\ raw.end = f.end /\ raw.sha1 = f.sha1 /\ raw.rawsha1 = sha
      /\ raw.parentsha1 = f.parentsha1 /\ raw.meta = f.meta
  <2> HIDE DEF sha
  <2>1. raw = [f EXCEPT !.rawsha1 = sha]
    BY DEF sha
  <2> HIDE DEF raw
  <2> QED
    BY <1>5, <2>1 DEF NewHeaderOf
<1> HIDE DEF raw
<1>10. /\ NewHeaderOf(all) /\ all.version = raw.version /\ all.signature = raw.signature /\ all.sizeok = raw.sizeok
       /\ all.compression = raw.compression /\ all.unit = raw.unit /\ all.map = raw.map /\ all.mapped = raw.mapped
       /\ all.blocks = raw.blocks /\ all.end = raw.end /\ all.sha1 = overall /\ all.rawsha1 = raw.rawsha1
       /\ all.parentsha1 = raw.parentsha1 /\ all.meta = raw.meta
  <2> HIDE DEF overall
  <2>1. all = [raw EXCEPT !.sha1 = overall]
    BY DEF overall
  <2> HIDE DEF all
  <2> QED
    BY <1>9, <2>1 DEF NewHeaderOf
<1> HIDE DEF all
<1>11. /\ NewHeaderOf(mid) /\ mid.version = all.version /\ mid.signature = all.signature /\ mid.sizeok = all.sizeok
       /\ mid.compression = all.compression /\ mid.unit = all.unit /\ mid.map = packed
       /\ mid.blocks = all.blocks /\ mid.end = all.end /\ mid.sha1 = all.sha1 /\ mid.rawsha1 = all.rawsha1
       /\ mid.parentsha1 = all.parentsha1 /\ mid.meta = all.meta
  BY <1>10 DEF NewHeaderOf
<1> HIDE DEF mid, final
<1>12. /\ NewHeaderOf(final) /\ final.version = mid.version /\ final.signature = mid.signature /\ final.sizeok = mid.sizeok
       /\ final.compression = mid.compression /\ final.unit = mid.unit /\ final.map = mid.map /\ final.mapped = TRUE
       /\ final.blocks = mid.blocks /\ final.end = mid.end /\ final.sha1 = mid.sha1 /\ final.rawsha1 = mid.rawsha1
       /\ final.parentsha1 = mid.parentsha1 /\ final.meta = mid.meta
  BY <1>8, <1>11 DEF NewHeaderOf
<1>13. overall = ComputeOverallSha1(5, sha, f.meta)
  <2> HIDE DEF sha
  <2> QED
    BY <1>3, <1>5, <1>9 DEF UpdatedHash
<1> HIDE DEF overall
<1>14. /\ NewHeaderOf(g) /\ g.version = 5 /\ g.signature = TRUE /\ g.sizeok = TRUE /\ g.compression = f.compression
       /\ g.unit = f.unit /\ g.blocks = f.blocks /\ g.end = f.end /\ g.parentsha1 = f.parentsha1 /\ g.meta = f.meta
       /\ g.rawsha1 = sha /\ (done # 3 => g.mapped = f.mapped) /\ (done = 3 => g.mapped = TRUE)
       /\ done = 1 => g.sha1 = f.sha1
       /\ done # 1 => g.sha1 = overall
       /\ done = 3 => g.map = packed
  <2>1. CASE done = 1
    <3>1. g = raw
      BY <1>6, <2>1
    <3> QED
      BY <1>2, <1>5, <1>9, <2>1, <3>1 DEF f
  <2>2. CASE done = 2
    <3>1. g = all
      BY <1>6, <2>2
    <3> QED
      BY <1>2, <1>5, <1>9, <1>10, <2>2, <3>1 DEF f
  <2>3. CASE done = 3
    <3>1. g = final
      BY <1>6, <2>3
    <3> QED
      BY <1>5, <1>9, <1>10, <1>11, <1>12, <2>3, <3>1
  <2>4. done = 1 \/ done = 2 \/ done = 3
    OBVIOUS
  <2> HIDE DEF sha
  <2> QED
    BY <2>1, <2>2, <2>3, <2>4, Zenon
<1>15. NewFile(g, contents) /\ (done # 3 => ~g.mapped)
  <2>1. g.mapped \in BOOLEAN /\ (done # 3 => ~g.mapped)
    BY <1>2, <1>5, <1>14 DEF f
  <2> QED
    BY <1>5, <1>14, <2>1, Zenon DEF NewFile
<1>16. GoodMap(g, x.rawmap, contents, HunkCount) /\ TrueBlocks(g, x.rawmap, contents)
       /\ (n \notin misled /\ ~UncompressedParents => TrueWindows(g, x.rawmap, contents))
  <2>1. \A e, d : BlockEntry(f, e, d) <=> BlockEntry(g, e, d)
    BY <1>14 DEF BlockEntry, CodecName
  <2>2. \A e : ParentEntry(f, e) <=> ParentEntry(g, e)
    BY <1>14 DEF ParentEntry
  <2>3. Entries(g, x.rawmap, contents, HunkCount)
    BY <1>4, <2>1, <2>2, Zenon DEF GoodMap, Entries
  <2>4. OwnBlocks(g, x.rawmap)
    BY <1>4, <1>14 DEF GoodMap, OwnBlocks
  <2>5. TrueBlocks(g, x.rawmap, contents) /\ (n \notin misled /\ ~UncompressedParents => TrueWindows(g, x.rawmap, contents))
    BY <1>4, <1>14 DEF TrueBlocks, TrueWindows
  <2> QED
    BY <1>4, <2>3, <2>4, <2>5, Zenon DEF GoodMap
<1>17. PackedFile(g, contents)
  <2>1. f.sha1 \in {Null, Overall(Null, f)}
    <3>1. PackedFile(f, contents)
      BY <1>3, Zenon DEF NewInv, f
    <3> QED
      BY <1>4, <3>1 DEF PackedFile, f
  <2>2. \A r : Overall(r, g) = Overall(r, f)
    BY <1>14 DEF Overall
  <2>3. g.sha1 \in {Null, Overall(Null, g), Overall(g.rawsha1, g)} /\ (done # 1 => g.sha1 = Overall(g.rawsha1, g))
    BY <1>13, <1>14, <2>1, <2>2 DEF Overall
  <2>4. g.mapped => /\ g.rawsha1 = RawSha1(contents) /\ g.sha1 = Overall(g.rawsha1, g)
                    /\ GoodMap(g, g.map.mapcrc, contents, HunkCount)
                    /\ \E b \in Beyond : g.map = CompressMap(g.map.mapcrc, HunkBytes \div g.unit, b)
    <3> SUFFICES ASSUME done = 3
                 PROVE  /\ g.rawsha1 = RawSha1(contents) /\ g.sha1 = Overall(g.rawsha1, g)
                        /\ GoodMap(g, g.map.mapcrc, contents, HunkCount)
                        /\ \E b \in Beyond : g.map = CompressMap(g.map.mapcrc, HunkBytes \div g.unit, b)
      BY <1>15
    <3>1. g.map = packed /\ g.map.mapcrc = x.rawmap /\ done # 1
      BY <1>7, <1>14
    <3>2. g.map = CompressMap(g.map.mapcrc, HunkBytes \div g.unit, beyond)
      BY <1>7, <1>14, <3>1 DEF packed
    <3> QED
      BY <1>14, <1>16, <2>3, <3>1, <3>2
  <2> QED
    BY <1>14, <2>3, <2>4, Zenon DEF PackedFile
<1>18. NewInv(n)'
  <2>1. disk'[n] = g /\ truth'[n] = contents /\ misled' = misled /\ damaged' = damaged /\ Compressed(g.compression)
    BY <1>2, <1>3, <1>14 DEF g
  <2>2. g.mapped => g.map.mapcrc = x.rawmap
    BY <1>7, <1>14, <1>15
  <2> QED
    BY <1>15, <1>16, <1>17, <2>1, <2>2, Zenon DEF NewInv
<1>19. /\ disk' = [disk EXCEPT ![n] = disk'[n]] /\ truth' = [truth EXCEPT ![n] = truth'[n]] /\ chd' = [chd EXCEPT ![o] = chd'[o]]
       /\ damaged' = damaged /\ misled \subseteq misled' /\ misled' \subseteq Files /\ truth'[n] \in [Hunks -> HunkData]
       /\ chd'[o] = IF done < 3 THEN Closed ELSE x
  BY <1>2, <1>5 DEF IInv, TypeInv
<1>20. CASE done < 3
  <2>1. ObjectShape(chd'[o]) /\ chd'[o].file = Nobody /\ chd'[o].parent # o /\ ~chd'[o].fresh
    BY <1>19, <1>20, ClosedShape, ChdAssumption
  <2>2. (IF n \in DOMAIN OldFiles THEN OldInv(n) ELSE disk[n] = NoFile \/ NewInv(n))'
    BY <1>3, <1>18 DEF NewFiles
  <2> QED
    BY <1>3, <1>19, <2>1, <2>2, StepKeeps, Zenon
<1>21. CASE ~(done < 3)
  <2>1. done = 3
    BY <1>21
  <2>2. chd'[o] = x
    BY <1>19, <2>1
  <2>3. chd'[o] = [chd[o] EXCEPT !.rawmap = chd'[o].rawmap]
    BY <1>3, <2>2 DEF ObjectShape
  <2>4. disk'[n].compression = disk[n].compression /\ disk'[n].unit = disk[n].unit /\ disk'[n].parentsha1 = disk[n].parentsha1
        /\ Compressed(disk[n].compression) /\ disk'[n].mapped /\ chd'[o].rawmap = disk'[n].map.mapcrc
    BY <1>3, <1>7, <1>14, <2>1, <2>2 DEF f, g
  <2>5. Opened(o) /\ chd[o].fresh
    BY <1>2
  <2> QED
    BY <1>1, <1>18, <1>19, <2>3, <2>4, <2>5, WriterKeeps, Zenon
<1> QED
  BY <1>20, <1>21

-----------------------------------------------------------------------------
(* One hunk more *)

LEMMA MinIn ==
  ASSUME NEW T \in SUBSET Nat, T # {}
  PROVE  Min(T) \in T
<1>1. \E k \in T : \A j \in T : k =< j
  BY LeastNat
<1>2. Min(T) = CHOOSE k \in T : \A j \in T : k =< j
  BY DEF Min
<1> QED
  BY <1>1, <1>2, Zenon

\* What appending a hunk does to the file.
Appended(f, g, e, data) ==
  /\ g.compression = f.compression /\ g.unit = f.unit /\ g.parentsha1 = f.parentsha1
  /\ \/ /\ BlockEntry(g, e, data) /\ e.offset = f.end /\ g.blocks[f.end].data = data
        /\ DOMAIN g.blocks = {f.end} \cup DOMAIN f.blocks /\ \A b \in DOMAIN f.blocks : g.blocks[b] = f.blocks[b]
        /\ g.end = f.end + e.length
     \/ (e.comp = SELF \/ e.comp = PARENT) /\ g.blocks = f.blocks /\ g.end = f.end

LEMMA EntryComps ==
  ASSUME NEW f, NEW g, NEW rawmap, NEW e, NEW contents, NEW h, NEW data
  PROVE  /\ BlockEntry(f, e, data) => Stored(e) /\ e.comp # SELF /\ e.comp # PARENT /\ e.comp # Unwritten
         /\ SelfEntry(rawmap, e, contents, h) => e.comp = SELF /\ ~Stored(e)
         /\ ParentEntry(f, e) => e.comp = PARENT /\ ~Stored(e)
         /\ e.comp = Unwritten \/ e.comp = SELF \/ e.comp = PARENT => ~Stored(e)
<1>1. \A c, l, i, crc : Entry(c, l, i, crc).comp = c
  BY DEF Entry
<1>2. /\ Stored(e) => e.comp # SELF /\ e.comp # PARENT /\ e.comp # Unwritten
  BY CompFacts DEF Stored
<1>3. BlockEntry(f, e, data) => Stored(e)
  BY DEF BlockEntry
<1>4. SelfEntry(rawmap, e, contents, h) => e.comp = SELF
  BY <1>1 DEF SelfEntry
<1>5. ParentEntry(f, e) => e.comp = PARENT
  BY <1>1 DEF ParentEntry
<1> QED
  BY <1>2, <1>3, <1>4, <1>5

\* A map, and contents, that differ in one hunk.
Grown(rawmap, contents, map, held, h) ==
  /\ map = [i \in Hunks |-> map[i]]
  /\ \A i \in Hunks : i # h => map[i] = rawmap[i] /\ held[i] = contents[i]

LEMMA GrownMap ==
  ASSUME NEW f, NEW g, NEW rawmap, NEW contents, NEW map, NEW held, NEW k \in 0..(HunkCount - 1),
         GoodMap(f, rawmap, contents, k), LastAtEnd(f, rawmap, k),
         f.end \in Nat, \A b \in DOMAIN f.blocks : b \in Nat /\ b < f.end,
         Grown(rawmap, contents, map, held, k + 1), Appended(f, g, map[k + 1], held[k + 1]),
         map[k + 1].comp = SELF => SelfEntry(rawmap, map[k + 1], held, k + 1),
         map[k + 1].comp = PARENT => ParentEntry(f, map[k + 1])
  PROVE  GoodMap(g, map, held, k + 1) /\ LastAtEnd(g, map, k + 1)
<1> DEFINE h == k + 1
           e == map[h]
           data == held[h]
<1>0. /\ h \in Hunks /\ h = k + 1 /\ e = map[h] /\ data = held[h] /\ Appended(f, g, e, data)
      /\ map = [i \in Hunks |-> map[i]]
      /\ \A i \in Hunks : i # h => map[i] = rawmap[i] /\ held[i] = contents[i]
      /\ e.comp = SELF => SelfEntry(rawmap, e, held, h)
      /\ e.comp = PARENT => ParentEntry(f, e)
  BY ConstFacts DEF Grown, Hunks
<1> SUFFICES GoodMap(g, map, held, h) /\ LastAtEnd(g, map, h)
  OBVIOUS
<1> HIDE DEF h, e, data
<1> USE <1>0
<1>1. /\ HunkCount \in Nat \ {0} /\ k \in Nat /\ h \in Nat /\ h <= HunkCount /\ \A i \in Hunks : i \in Nat /\ i >= 1 /\ i <= HunkCount
      /\ \A i \in Nat : i >= 1 /\ i <= HunkCount => i \in Hunks
  BY ConstFacts DEF Hunks
<1>2. Entries(f, rawmap, contents, k) /\ OwnBlocks(f, rawmap) /\ InOrder(rawmap)
  BY DEF GoodMap
<1>3. /\ \A i \in Hunks : i > k => rawmap[i].comp = Unwritten /\ ~Stored(rawmap[i])
      /\ \A i \in Hunks : i <= k => \/ BlockEntry(f, rawmap[i], contents[i])
                                    \/ SelfEntry(rawmap, rawmap[i], contents, i)
                                    \/ ParentEntry(f, rawmap[i])
  <2>1. \A i \in Hunks : i > k => rawmap[i].comp = Unwritten
    BY <1>2 DEF Entries
  <2>2. \A i \in Hunks : ~(i > k) => \/ BlockEntry(f, rawmap[i], contents[i])
                                    \/ SelfEntry(rawmap, rawmap[i], contents, i)
                                    \/ ParentEntry(f, rawmap[i])
    BY <1>2 DEF Entries
  <2>3. \A i \in Hunks : i <= k => ~(i > k)
    BY <1>1
  <2>4. \A i \in Hunks : rawmap[i].comp = Unwritten => ~Stored(rawmap[i])
    BY EntryComps
  <2> QED
    BY <2>1, <2>2, <2>3, <2>4
<1>4. /\ DOMAIN f.blocks \subseteq DOMAIN g.blocks /\ \A b \in DOMAIN f.blocks : g.blocks[b] = f.blocks[b]
      /\ g.compression = f.compression /\ g.unit = f.unit /\ g.parentsha1 = f.parentsha1
  BY DEF Appended
<1>5. /\ Stored(e) \/ e.comp = SELF \/ e.comp = PARENT
      /\ Stored(e) => /\ BlockEntry(g, e, data) /\ e.offset = f.end /\ g.end = f.end + e.length
                      /\ DOMAIN g.blocks = {f.end} \cup DOMAIN f.blocks
      /\ ~Stored(e) => g.blocks = f.blocks /\ g.end = f.end
  BY EntryComps DEF Appended
<1>6. Entries(g, map, held, h)
  <2> SUFFICES ASSUME NEW i \in Hunks
               PROVE  IF i > h THEN map[i].comp = Unwritten
                      ELSE \/ BlockEntry(g, map[i], held[i]) \/ SelfEntry(map, map[i], held, i) \/ ParentEntry(g, map[i])
    BY DEF Entries
  <2>1. CASE i > h
    BY <1>1, <1>3, <2>1
  <2>2. CASE i = h
    <3>1. CASE Stored(e)
      BY <1>5, <2>2, <3>1, <1>1
    <3>2. CASE e.comp = SELF
      <4>1. e = Entry(SELF, 0, e.offset, 0) /\ e.offset \in 0..(h - 2) /\ Stored(rawmap[e.offset + 1]) /\ held[e.offset + 1] = held[h]
        BY <3>2 DEF SelfEntry
      <4>2. e.offset + 1 \in Hunks /\ e.offset + 1 # h
        BY <1>1, <4>1
      <4>3. Stored(map[e.offset + 1])
        BY <4>1, <4>2
      <4> QED
        BY <1>1, <2>2, <4>1, <4>3 DEF SelfEntry
    <3>3. CASE e.comp = PARENT
      BY <1>1, <1>4, <2>2, <3>3 DEF ParentEntry
    <3> QED
      BY <1>5, <3>1, <3>2, <3>3
  <2>3. CASE i < h
    <3>1. i <= k /\ i # h /\ map[i] = rawmap[i] /\ held[i] = contents[i] /\ ~(i > h)
      BY <1>1, <2>3
    <3>2. CASE BlockEntry(f, rawmap[i], contents[i])
      <4>1. BlockEntry(g, rawmap[i], contents[i])
        BY <1>4, <3>2 DEF BlockEntry, CodecName
      <4> QED
        BY <3>1, <4>1
    <3>3. CASE SelfEntry(rawmap, rawmap[i], contents, i)
      <4> DEFINE d == rawmap[i]
      <4>1. d = Entry(SELF, 0, d.offset, 0) /\ d.offset \in 0..(i - 2) /\ Stored(rawmap[d.offset + 1]) /\ contents[d.offset + 1] = contents[i]
        BY <3>3 DEF SelfEntry
      <4>2. d.offset + 1 \in Hunks /\ d.offset + 1 # h
        BY <1>1, <2>3, <4>1
      <4>3. Stored(map[d.offset + 1]) /\ held[d.offset + 1] = held[i]
        BY <3>1, <4>1, <4>2
      <4>4. SelfEntry(map, d, held, i)
        <5> HIDE DEF d
        <5> QED
          BY <4>1, <4>3, Zenon DEF SelfEntry
      <4> QED
        BY <3>1, <4>4
    <3>4. CASE ParentEntry(f, rawmap[i])
      <4>1. ParentEntry(g, rawmap[i])
        BY <1>4, <3>4 DEF ParentEntry
      <4> QED
        BY <3>1, <4>1
    <3> QED
      BY <1>3, <3>1, <3>2, <3>3, <3>4
  <2> QED
    BY <1>1, <2>1, <2>2, <2>3
<1>7. \A i \in Hunks : i # h => (Stored(map[i]) <=> Stored(rawmap[i])) /\ map[i].offset = rawmap[i].offset /\ map[i].length = rawmap[i].length
  OBVIOUS
<1>8. ~Stored(rawmap[h]) /\ \A i \in Hunks : i > h => ~Stored(map[i])
  BY <1>1, <1>3, <1>7
<1>9. \A i \in Hunks : Stored(rawmap[i]) => rawmap[i].offset \in DOMAIN f.blocks /\ rawmap[i].offset # f.end
  BY <1>2 DEF OwnBlocks
<1>10. OwnBlocks(g, map)
  <2>1. DOMAIN f.blocks = {rawmap[i].offset : i \in {j \in Hunks : Stored(rawmap[j])}}
    BY <1>2 DEF OwnBlocks
  <2>2. \A i, j \in Hunks : Stored(rawmap[i]) /\ Stored(rawmap[j]) /\ rawmap[i].offset = rawmap[j].offset => i = j
    BY <1>2 DEF OwnBlocks
  <2>3. CASE Stored(e)
    <3>1. DOMAIN g.blocks = {map[i].offset : i \in {j \in Hunks : Stored(map[j])}}
      <4>1. ASSUME NEW b \in DOMAIN g.blocks PROVE \E i \in Hunks : Stored(map[i]) /\ b = map[i].offset
        <5>1. CASE b = f.end
          BY <1>5, <2>3, <5>1
        <5>2. CASE b # f.end
          <6>1. PICK i \in Hunks : Stored(rawmap[i]) /\ b = rawmap[i].offset
            BY <1>5, <2>1, <2>3, <5>2
          <6> QED
            BY <1>7, <1>8, <6>1
        <5> QED
          BY <5>1, <5>2
      <4>2. ASSUME NEW i \in Hunks, Stored(map[i]) PROVE map[i].offset \in DOMAIN g.blocks
        <5>1. CASE i = h
          BY <1>5, <2>3, <5>1
        <5>2. CASE i # h
          BY <1>4, <1>7, <1>9, <4>2, <5>2
        <5> QED
          BY <5>1, <5>2
      <4> QED
        BY <4>1, <4>2
    <3>2. \A i, j \in Hunks : Stored(map[i]) /\ Stored(map[j]) /\ map[i].offset = map[j].offset => i = j
      BY <1>5, <1>7, <1>9, <2>2, <2>3
    <3> QED
      BY <3>1, <3>2 DEF OwnBlocks
  <2>4. CASE ~Stored(e)
    <3>1. \A i \in Hunks : Stored(map[i]) <=> i # h /\ Stored(rawmap[i])
      BY <1>7, <2>4
    <3>2. DOMAIN g.blocks = {map[i].offset : i \in {j \in Hunks : Stored(map[j])}}
      <4>1. \A i \in Hunks : Stored(map[i]) => map[i].offset \in DOMAIN g.blocks
        BY <1>5, <1>7, <1>9, <2>4, <3>1
      <4>2. \A b \in DOMAIN g.blocks : \E i \in Hunks : Stored(map[i]) /\ b = map[i].offset
        <5> SUFFICES ASSUME NEW b \in DOMAIN g.blocks PROVE \E i \in Hunks : Stored(map[i]) /\ b = map[i].offset
          OBVIOUS
        <5>1. PICK i \in Hunks : Stored(rawmap[i]) /\ b = rawmap[i].offset
          BY <1>5, <2>1, <2>4
        <5> QED
          BY <1>7, <1>8, <3>1, <5>1
      <4> QED
        BY <4>1, <4>2
    <3>3. \A i, j \in Hunks : Stored(map[i]) /\ Stored(map[j]) /\ map[i].offset = map[j].offset => i = j
      BY <1>7, <2>2, <3>1
    <3> QED
      BY <3>2, <3>3 DEF OwnBlocks
  <2> QED
    BY <2>3, <2>4
<1>11. \A i, j \in Hunks : j <= h /\ Precedes(map, i, j) => Precedes(rawmap, i, j)
  <2> SUFFICES ASSUME NEW i \in Hunks, NEW j \in Hunks, j <= h, Precedes(map, i, j) PROVE Precedes(rawmap, i, j)
    OBVIOUS
  <2>1. i < j /\ Stored(map[i]) /\ \A m \in (i + 1)..(j - 1) : ~Stored(map[m])
    BY DEF Precedes
  <2>2. Stored(rawmap[i])
    BY <1>1, <1>7, <2>1
  <2>3. ASSUME NEW m \in (i + 1)..(j - 1) PROVE ~Stored(rawmap[m])
    <3>1. m \in Hunks /\ m # h
      BY <1>1
    <3> QED
      BY <1>7, <2>1, <3>1
  <2> QED
    BY <2>1, <2>2, <2>3 DEF Precedes
<1>12. InOrder(map)
  <2> SUFFICES ASSUME NEW i \in Hunks, NEW j \in Hunks, Precedes(map, i, j), Stored(map[j])
               PROVE  map[j].offset = map[i].offset + map[i].length
    BY DEF InOrder
  <2>1. i < j /\ j <= h
    BY <1>1, <1>8 DEF Precedes
  <2>2. Precedes(rawmap, i, j) /\ i # h
    BY <1>1, <1>11, <2>1
  <2>3. CASE j = h
    <3>1. k # HunkCount
      BY <1>1
    <3>2. f.end = rawmap[i].offset + rawmap[i].length
      BY <2>2, <2>3, <3>1 DEF LastAtEnd
    <3> QED
      BY <1>5, <1>7, <2>2, <2>3, <3>2
  <2>4. CASE j # h
    <3>1. rawmap[j].offset = rawmap[i].offset + rawmap[i].length
      BY <1>2, <1>7, <2>2, <2>4 DEF InOrder
    <3> QED
      BY <1>7, <2>2, <2>4, <3>1
  <2> QED
    BY <2>3, <2>4
<1>13. LastAtEnd(g, map, h)
  <2> SUFFICES ASSUME h # HunkCount, NEW i \in Hunks, Precedes(map, i, h + 1)
               PROVE  g.end = map[i].offset + map[i].length
    BY DEF LastAtEnd
  <2>1. i < h + 1 /\ Stored(map[i]) /\ \A m \in (i + 1)..((h + 1) - 1) : ~Stored(map[m])
    BY DEF Precedes
  <2>2. CASE i = h
    BY <1>5, <2>1, <2>2
  <2>3. CASE i # h
    <3>1. i < h /\ h \in (i + 1)..((h + 1) - 1)
      BY <1>1, <2>1, <2>3
    <3>2. ~Stored(e)
      BY <2>1, <3>1
    <3>3. Precedes(map, i, h)
      <4>1. \A m \in (i + 1)..(h - 1) : m \in (i + 1)..((h + 1) - 1)
        BY <1>1
      <4> QED
        BY <2>1, <3>1, <4>1 DEF Precedes
    <3>4. Precedes(rawmap, i, k + 1) /\ k # HunkCount
      BY <1>1, <1>11, <3>3
    <3>5. f.end = rawmap[i].offset + rawmap[i].length
      BY <3>4 DEF LastAtEnd
    <3> QED
      BY <1>5, <1>7, <2>3, <3>2, <3>5
  <2> QED
    BY <2>2, <2>3
<1> QED
  BY <1>6, <1>10, <1>12, <1>13 DEF GoodMap

\* What is read from a parent nobody can misread is what its hash was computed from.
LEMMA AppendedWindow ==
  ASSUME IInv, ~UncompressedParents, NEW o \in Objs, Opened(o), Trusted(o), chd[o].parent # Nobody,
         \A g \in Hunks : ReadHunk(chd[o].parent, g).error = "NONE", NEW u
  PROVE  LET sha == disk[chd[o].file].parentsha1 IN
         HasContents(sha) /\ ParentWindow(o, u) = WindowOf(ContentsOf(sha), u * chd[o].unit)
<1> DEFINE p == chd[o].parent
           sha == disk[chd[o].file].parentsha1
           held == truth[chd[p].file]
<1>1. p \in Objs /\ Opened(p) /\ Trusted(p)
  BY ParentThere, TrustedFacts
<1>2. \A g \in Hunks : ReadHunk(p, g).data = held[g]
  BY <1>1, ReadBackHolds DEF ReadBack, OpenObjs
<1>3. 1 \in Hunks /\ 1 \in Nat
  BY ConstFacts DEF Hunks
<1>4. HasContents(sha)
  <2> SUFFICES ASSUME ~HasContents(sha) PROVE FALSE
    OBVIOUS
  <2>1. ReadStep(Reads, p, 1) = Err("INVALID_DATA")
    BY <1>3, ParentContents
  <2>2. <<p, 1>> \in Pairs
    BY <1>1, <1>3 DEF Pairs
  <2>3. Reads[<<p, 1>>] = ReadStep(Reads, p, 1)
    BY <2>2, ReadUnfolds
  <2>4. ReadHunk(p, 1) = Err("INVALID_DATA")
    BY <2>1, <2>3 DEF ReadHunk
  <2>5. ReadHunk(p, 1).error = "NONE"
    BY <1>3
  <2> QED
    BY <2>4, <2>5 DEF Err
<1>5. ContentsOf(sha) = held /\ held \in [Hunks -> HunkData]
  BY <1>4, ParentContents
<1>6. [g \in Hunks |-> ReadHunk(p, g).data] = ContentsOf(sha)
  BY <1>2, <1>5
<1> QED
  BY <1>4, <1>6 DEF ParentWindow

\* A hunk that is appended is a copy of one before, or of the parent's, or a block of its own.
LEMMA AppendedEntry ==
  ASSUME IInv, NEW o \in Objs, Opened(o), chd[o].fresh, NEW data \in Contents,
         NEW k \in 0..(HunkCount - 1), GoodMap(disk[chd[o].file], chd[o].rawmap, truth[chd[o].file], k),
         NEW h \in Hunks, h = k + 1, NEW held, held[h] = data,
         \A i \in Hunks : i # h => held[i] = truth[chd[o].file][i]
  PROVE  LET x == chd[o] f == disk[x.file] codec == Best[data] e == StoredHunk(o, data, codec) IN
         \/ e.comp = SELF /\ SelfEntry(x.rawmap, e, held, h)
         \/ /\ e.comp = PARENT /\ ParentEntry(f, e) /\ x.parent # Nobody /\ ParentWindow(o, e.offset) = data
         \/ e = Entry(IF codec = -1 THEN NONE ELSE codec, IF codec = -1 THEN FileBytes ELSE FileBytes - 1, f.end, CrcOf(data))
<1> DEFINE x == chd[o]
           f == disk[x.file]
           codec == Best[data]
           e == StoredHunk(o, data, codec)
           self == SelfHunk(o, data)
           match == ParentMatch(o, data)
<1>1. /\ x.unit = f.unit /\ NewFile(f, truth[x.file])
  BY WriterFacts
<1>2. /\ \A c, l, i, crc : Entry(c, l, i, crc).comp = c /\ Entry(c, l, i, crc).offset = i
  BY DEF Entry
<1>3. e = IF self # {} THEN Entry(SELF, 0, Min(self) - 1, 0)
          ELSE IF match # {} THEN Entry(PARENT, 0, Min(match), 0)
          ELSE Entry(IF codec = -1 THEN NONE ELSE codec, IF codec = -1 THEN FileBytes ELSE FileBytes - 1, f.end, CrcOf(data))
  BY Zenon DEF StoredHunk
<1>4. HunkCount \in Nat \ {0} /\ k \in Nat /\ Hunks \subseteq Nat
  BY ConstFacts DEF Hunks
<1>5. CASE self # {}
  <2> DEFINE j == Min(self)
  <2>1. self \in SUBSET Nat
    BY <1>4 DEF SelfHunk
  <2>2. j \in self
    BY <1>5, <2>1, MinIn
  <2> HIDE DEF j, self, e, f, codec
  <2>3. j \in Hunks /\ Stored(x.rawmap[j]) /\ truth[x.file][j] = data
    BY <2>2 DEF SelfHunk, Stored, self
  <2>4. ~(j > k)
    <3> SUFFICES ASSUME j > k PROVE FALSE
      OBVIOUS
    <3>1. x.rawmap[j].comp = Unwritten
      BY <2>3 DEF GoodMap, Entries
    <3> QED
      BY <2>3, <3>1, EntryComps
  <2>5. e = Entry(SELF, 0, j - 1, 0)
    BY <1>3, <1>5 DEF j
  <2>6. e.comp = SELF /\ e.offset = j - 1 /\ e = Entry(SELF, 0, e.offset, 0)
    BY <1>2, <2>5
  <2>7. e.offset \in 0..(h - 2) /\ e.offset + 1 = j /\ j # h
    BY <1>4, <2>3, <2>4, <2>6 DEF Hunks
  <2>8. SelfEntry(x.rawmap, e, held, h)
    BY <2>3, <2>6, <2>7 DEF SelfEntry
  <2> QED
    BY <2>6, <2>8 DEF e, codec
<1>6. CASE self = {} /\ match # {}
  <2> DEFINE u == Min(match)
  <2>1. x.parent # Nobody /\ match = {i \in ParentUnits(o) : ParentWindow(o, i) = data}
    BY <1>6, Zenon DEF ParentMatch
  <2>2. ParentUnits(o) = 0..((HunkCount - 1) * (HunkBytes \div f.unit))
    BY <1>1 DEF ParentUnits, UnitsPerHunk
  <2>3. match \in SUBSET Nat
    BY <2>1, <2>2
  <2>4. u \in match
    BY <1>6, <2>3, MinIn
  <2>5. f.parentsha1 # Null \/ UncompressedParents
    BY <2>1, ParentThere
  <2> HIDE DEF u, match, self, e, f, codec
  <2>6. e = Entry(PARENT, 0, u, 0)
    BY <1>3, <1>6 DEF u
  <2>7. e.comp = PARENT /\ e.offset = u /\ e = Entry(PARENT, 0, e.offset, 0)
    BY <1>2, <2>6
  <2>8. u \in 0..((HunkCount - 1) * (HunkBytes \div f.unit)) /\ ParentWindow(o, u) = data
    BY <2>1, <2>2, <2>4
  <2>9. ParentEntry(f, e)
    BY <2>5, <2>7, <2>8 DEF ParentEntry
  <2> QED
    BY <2>1, <2>7, <2>8, <2>9 DEF e, codec, f
<1>7. CASE self = {} /\ match = {}
  <2> HIDE DEF self, match, e, codec
  <2> QED
    BY <1>3, <1>7 DEF e, codec
<1> QED
  BY <1>5, <1>6, <1>7

LEMMA AppendHunkKeeps ==
  ASSUME IInv, NEW o \in Objs, NEW data \in Contents, AppendHunk(o, data)
  PROVE  IInv'
<1>1. PICK n \in Files : n = chd[o].file
  BY ObjectFacts DEF AppendHunk
<1> DEFINE x == chd[o]
           f == disk[n]
           codec == Best[data]
           h == Written(x) + 1
           e == StoredHunk(o, data, codec)
           name == IF codec = -1 THEN "raw" ELSE x.compression[codec + 1]
           block == [codec |-> name, data |-> data, len |-> e.length]
           blocks == With(f.blocks, e.offset, block)
           a == [f EXCEPT !.blocks = blocks]
           end == f.end + e.length
           big == [a EXCEPT !.end = end]
           held == [truth[n] EXCEPT ![h] = data]
           map == [x.rawmap EXCEPT ![h] = e]
           g == disk'[n]
<1>2. /\ Opened(o) /\ x.fresh /\ x.version = 5 /\ Compressed(x.compression) /\ ~f.mapped /\ h <= HunkCount
      /\ codec # -1 => x.compression[codec + 1] # "none"
      /\ x.parent # Nobody => \A i \in Hunks : ReadHunk(x.parent, i).error = "NONE"
      /\ chd' = [chd EXCEPT ![o].rawmap[h] = e] /\ truth' = [truth EXCEPT ![n][h] = data]
      /\ disk' = IF e.comp > NONE THEN disk ELSE [disk EXCEPT ![n] = big]
      /\ misled' = IF Trusted(o) THEN misled ELSE misled \cup {n}
      /\ damaged' = damaged
  <2>1. [disk EXCEPT ![n].blocks = With(@, e.offset, block), ![n].end = @ + e.length] = [disk EXCEPT ![n] = big]
    BY DEF IInv, TypeInv
  <2> QED
    BY <1>1, <2>1, Zenon DEF AppendHunk
<1>3. /\ n \in NewFiles /\ NewInv(n) /\ NewFile(f, truth[n]) /\ x.unit = f.unit /\ x.compression = f.compression
      /\ Compressed(f.compression) /\ FillInv(x, f, n) /\ ObjectShape(x)
  BY <1>1, <1>2, WriterFacts
<1>4. /\ NewHeaderOf(f) /\ f.version = 5 /\ f.signature = TRUE /\ f.sizeok = TRUE
      /\ f.compression \in [1..4 -> KnownCodecs \cup {"none"}] /\ f.mapped \in BOOLEAN
      /\ f.unit \in Nat \ {0} /\ HunkBytes % f.unit = 0
      /\ f.end \in Nat /\ f.end >= HeaderBytes
      /\ f.blocks \in [DOMAIN f.blocks -> Blocks] /\ \A i \in DOMAIN f.blocks : i \in HeaderBytes..(f.end - 1)
      /\ truth[n] \in [Hunks -> HunkData]
  BY <1>3, Zenon DEF NewFile
<1>5. /\ f.rawsha1 = Null /\ TrueBlocks(f, x.rawmap, truth[n])
      /\ n \notin misled /\ ~UncompressedParents => TrueWindows(f, x.rawmap, truth[n])
  BY <1>3, Zenon DEF FillInv
<1>6. PICK k \in 0..HunkCount : GoodMap(f, x.rawmap, truth[n], k) /\ LastAtEnd(f, x.rawmap, k)
  BY <1>3, Zenon DEF FillInv
<1>7. Written(x) = k
  BY <1>6, WrittenIs
<1>8. k \in 0..(HunkCount - 1) /\ h = k + 1 /\ h \in Hunks /\ HunkCount \in Nat \ {0}
  BY <1>2, <1>7, ConstFacts DEF Hunks
<1>9. x.rawmap = [i \in Hunks |-> x.rawmap[i]]
  BY <1>6, Zenon DEF GoodMap
<1> HIDE DEF h
<1>10. /\ held \in [Hunks -> HunkData] /\ held[h] = data /\ \A i \in Hunks : i # h => held[i] = truth[n][i]
       /\ map = [i \in Hunks |-> map[i]] /\ map[h] = e /\ \A i \in Hunks : i # h => map[i] = x.rawmap[i]
  <2>1. held \in [Hunks -> HunkData] /\ held[h] = data /\ \A i \in Hunks : i # h => held[i] = truth[n][i]
    BY <1>4, <1>8, ConstFacts
  <2> HIDE DEF e, x
  <2>2. map = [i \in Hunks |-> IF i = h THEN e ELSE x.rawmap[i]]
    BY <1>9
  <2> HIDE DEF map
  <2>3. map = [i \in Hunks |-> map[i]] /\ map[h] = e /\ \A i \in Hunks : i # h => map[i] = x.rawmap[i]
    BY <1>8, <2>2
  <2> QED
    BY <2>1, <2>3
<1>11. /\ chd'[o] = [x EXCEPT !.rawmap = map] /\ truth'[n] = held /\ g = (IF e.comp > NONE THEN f ELSE big)
       /\ chd' = [chd EXCEPT ![o] = chd'[o]] /\ disk' = [disk EXCEPT ![n] = disk'[n]] /\ truth' = [truth EXCEPT ![n] = truth'[n]]
  BY <1>2 DEF IInv, TypeInv
<1> HIDE DEF held, map
<1>12. \/ e.comp = SELF /\ SelfEntry(x.rawmap, e, held, h)
       \/ /\ e.comp = PARENT /\ ParentEntry(f, e) /\ x.parent # Nobody /\ ParentWindow(o, e.offset) = data
       \/ e = Entry(IF codec = -1 THEN NONE ELSE codec, IF codec = -1 THEN FileBytes ELSE FileBytes - 1, f.end, CrcOf(data))
  BY <1>1, <1>2, <1>6, <1>8, <1>10, AppendedEntry, SMTT(30)
<1>13. /\ codec \in {-1, 0, 1} /\ FileBytes \in Nat /\ FileBytes > 1
  BY ChdAssumption, ConstFacts
<1> HIDE DEF e, f, g, big, codec
<1>14. /\ Appended(f, g, e, data) /\ NewHeaderOf(g) /\ g.version = f.version /\ g.signature = f.signature /\ g.sizeok = f.sizeok
       /\ g.compression = f.compression /\ g.unit = f.unit /\ g.mapped = f.mapped /\ g.end \in Nat /\ g.end >= HeaderBytes
       /\ g.blocks \in [DOMAIN g.blocks -> Blocks] /\ \A b \in DOMAIN g.blocks : b \in HeaderBytes..(g.end - 1)
       /\ g.sha1 = f.sha1 /\ g.rawsha1 = f.rawsha1 /\ g.parentsha1 = f.parentsha1 /\ g.meta = f.meta
       /\ e.comp = SELF => SelfEntry(x.rawmap, e, held, h)
       /\ e.comp = PARENT => ParentEntry(f, e) /\ x.parent # Nobody /\ ParentWindow(o, e.offset) = data
  <2>1. CASE e.comp = SELF \/ e.comp = PARENT
    <3>1. e.comp > NONE
      BY <2>1, CompFacts
    <3>2. g = f
      BY <1>11, <3>1
    <3>3. Appended(f, g, e, data)
      BY <2>1, <3>2 DEF Appended
    <3>4. e # Entry(IF codec = -1 THEN NONE ELSE codec, IF codec = -1 THEN FileBytes ELSE FileBytes - 1, f.end, CrcOf(data))
      <4> SUFFICES ASSUME e.comp = IF codec = -1 THEN NONE ELSE codec PROVE FALSE
        BY DEF Entry
      <4> QED
        BY <1>13, <2>1, CompFacts
    <3>5. /\ e.comp = SELF => SelfEntry(x.rawmap, e, held, h)
          /\ e.comp = PARENT => ParentEntry(f, e) /\ x.parent # Nobody /\ ParentWindow(o, e.offset) = data
      BY <1>12, <3>4, CompFacts
    <3> QED
      BY <1>4, <3>2, <3>3, <3>5
  <2>2. CASE ~(e.comp = SELF \/ e.comp = PARENT)
    <3>1. e = Entry(IF codec = -1 THEN NONE ELSE codec, IF codec = -1 THEN FileBytes ELSE FileBytes - 1, f.end, CrcOf(data))
      BY <1>12, <2>2
    <3>2. /\ e.comp = (IF codec = -1 THEN NONE ELSE codec) /\ e.length = (IF codec = -1 THEN FileBytes ELSE FileBytes - 1)
          /\ e.offset = f.end /\ e.crc = CrcOf(data) /\ e = Entry(e.comp, e.length, e.offset, e.crc)
      BY <3>1 DEF Entry
    <3>3. Stored(e) /\ ~(e.comp > NONE) /\ (e.comp = NONE <=> codec = -1)
      BY <1>13, <3>2, CompFacts DEF Stored
    <3>4. g = big
      BY <1>11, <3>3
    <3>5. e.length \in Nat /\ e.length > 0 /\ end \in Nat /\ end > f.end
      BY <1>4, <1>13, <3>2
    <3> HIDE DEF name
    <3>6. name = CodecName(f, e.comp) /\ name \in KnownCodecs \cup {"none", "raw"}
      <4>1. CASE codec = -1
        BY <3>3, <4>1 DEF CodecName, name
      <4>2. CASE codec # -1
        <5>1. e.comp = codec /\ e.comp # NONE /\ codec + 1 \in 1..4
          BY <1>13, <3>2, <3>3, <4>2
        <5>2. name = f.compression[codec + 1]
          BY <1>3, <4>2 DEF name, f
        <5>3. f.compression[codec + 1] \in KnownCodecs \cup {"none"}
          BY <1>4, <5>1, Zenon
        <5> QED
          BY <5>1, <5>2, <5>3 DEF CodecName
      <4> QED
        BY <4>1, <4>2
    <3>7. block \in Blocks
      <4>1. \A c \in KnownCodecs \cup {"none", "raw"}, len \in Nat : [codec |-> c, data |-> data, len |-> len] \in Blocks
        BY DEF Blocks
      <4> QED
        BY <3>5, <3>6, <4>1, Zenon
    <3>8. block.codec = name /\ block.data = data /\ block.len = e.length
      OBVIOUS
    <3> HIDE DEF block
    <3>9. /\ DOMAIN blocks = {f.end} \cup DOMAIN f.blocks /\ blocks = [b \in DOMAIN blocks |-> blocks[b]]
          /\ blocks[f.end] = block /\ \A b \in DOMAIN f.blocks : b # f.end => blocks[b] = f.blocks[b]
      BY <3>2 DEF With
    <3>10. big = [a EXCEPT !.end = end]
      BY DEF big
    <3> HIDE DEF blocks, end
    <3>11. f.end \notin DOMAIN f.blocks
      BY <1>4 DEF HeaderBytes
    <3>12. \A b \in DOMAIN blocks : blocks[b] \in Blocks /\ b \in HeaderBytes..(end - 1)
      <4> SUFFICES ASSUME NEW b \in DOMAIN blocks PROVE blocks[b] \in Blocks /\ b \in HeaderBytes..(end - 1)
        OBVIOUS
      <4>1. CASE b = f.end
        BY <1>4, <3>5, <3>7, <3>9, <4>1 DEF HeaderBytes
      <4>2. CASE b # f.end
        <5>1. b \in DOMAIN f.blocks /\ blocks[b] = f.blocks[b]
          BY <3>9, <4>2
        <5> QED
          BY <1>4, <3>5, <5>1 DEF HeaderBytes
      <4> QED
        BY <4>1, <4>2
    <3>13. blocks \in [DOMAIN blocks -> Blocks]
      BY <3>9, <3>12
    <3>14. /\ NewHeaderOf(a) /\ a.version = f.version /\ a.signature = f.signature /\ a.sizeok = f.sizeok
           /\ a.compression = f.compression /\ a.unit = f.unit /\ a.map = f.map /\ a.mapped = f.mapped
           /\ a.blocks = blocks /\ a.sha1 = f.sha1 /\ a.rawsha1 = f.rawsha1
           /\ a.parentsha1 = f.parentsha1 /\ a.meta = f.meta
      BY <1>4 DEF NewHeaderOf
    <3> HIDE DEF a
    <3>15. /\ NewHeaderOf(big) /\ big.version = a.version /\ big.signature = a.signature /\ big.sizeok = a.sizeok
           /\ big.compression = a.compression /\ big.unit = a.unit /\ big.map = a.map /\ big.mapped = a.mapped
           /\ big.blocks = a.blocks /\ big.end = end /\ big.sha1 = a.sha1 /\ big.rawsha1 = a.rawsha1
           /\ big.parentsha1 = a.parentsha1 /\ big.meta = a.meta
      BY <3>10, <3>14 DEF NewHeaderOf
    <3>16. /\ NewHeaderOf(g) /\ g.version = f.version /\ g.signature = f.signature /\ g.sizeok = f.sizeok
           /\ g.compression = f.compression /\ g.unit = f.unit /\ g.mapped = f.mapped
           /\ g.blocks = blocks /\ g.end = end /\ g.sha1 = f.sha1 /\ g.rawsha1 = f.rawsha1
           /\ g.parentsha1 = f.parentsha1 /\ g.meta = f.meta
      BY <3>4, <3>14, <3>15
    <3>17. BlockEntry(g, e, data)
      <4>1. e.offset \in DOMAIN g.blocks /\ g.blocks[e.offset].len = e.length
        BY <3>2, <3>8, <3>9, <3>16
      <4>2. g.blocks[e.offset].codec = CodecName(g, e.comp)
        BY <3>2, <3>6, <3>8, <3>9, <3>16 DEF CodecName
      <4>3. e.length = (IF e.comp = NONE THEN FileBytes ELSE FileBytes - 1)
        BY <3>2, <3>3
      <4> QED
        BY <3>2, <3>3, <4>1, <4>2, <4>3, Zenon DEF BlockEntry
    <3>18. Appended(f, g, e, data)
      <4>1. /\ e.offset = f.end /\ g.blocks[f.end].data = data
            /\ DOMAIN g.blocks = {f.end} \cup DOMAIN f.blocks /\ g.end = f.end + e.length
        BY <3>2, <3>8, <3>9, <3>16 DEF end
      <4>2. \A b \in DOMAIN f.blocks : g.blocks[b] = f.blocks[b]
        BY <3>9, <3>11, <3>16
      <4> QED
        BY <3>16, <3>17, <4>1, <4>2, Zenon DEF Appended
    <3>19. g.end >= HeaderBytes /\ g.end \in Nat
      BY <1>4, <3>5, <3>16 DEF HeaderBytes
    <3> QED
      BY <2>2, <3>12, <3>13, <3>16, <3>18, <3>19
  <2> QED
    BY <2>1, <2>2
<1>15. GoodMap(g, map, held, h) /\ LastAtEnd(g, map, h)
  <2>1. \A b \in DOMAIN f.blocks : b \in Nat /\ b < f.end
    BY <1>4 DEF HeaderBytes
  <2>2. GoodMap(f, x.rawmap, truth[n], k) /\ LastAtEnd(f, x.rawmap, k) /\ f.end \in Nat
    BY <1>4, <1>6 DEF f
  <2> DEFINE rawmap == x.rawmap
             contents == truth[n]
  <2>3. Grown(rawmap, contents, map, held, k + 1)
    BY <1>8, <1>10 DEF Grown
  <2>4. /\ GoodMap(f, rawmap, contents, k) /\ LastAtEnd(f, rawmap, k) /\ Appended(f, g, map[k + 1], held[k + 1])
        /\ map[k + 1].comp = SELF => SelfEntry(rawmap, map[k + 1], held, k + 1)
        /\ map[k + 1].comp = PARENT => ParentEntry(f, map[k + 1])
    BY <1>8, <1>10, <1>14, <2>2
  <2>5. k \in 0..(HunkCount - 1)
    BY <1>8
  <2> HIDE DEF x, rawmap, contents
  <2>6. GoodMap(g, map, held, k + 1) /\ LastAtEnd(g, map, k + 1)
    BY <2>1, <2>2, <2>3, <2>4, <2>5, GrownMap, Zenon
  <2> QED
    BY <1>8, <2>6
<1>16. NewInv(n)'
  <2>1. NewFile(g, held)
    BY <1>4, <1>10, <1>14, Zenon DEF NewFile
  <2>2. PackedFile(f, truth[n])
    BY <1>3, Zenon DEF NewInv, f
  <2>3. PackedFile(g, held)
    <3>1. g.sha1 \in {Null, Overall(Null, g), Overall(g.rawsha1, g)}
      BY <1>14, <2>2 DEF PackedFile, Overall
    <3>2. g.rawsha1 \in {Null, RawSha1(held)} /\ ~g.mapped
      BY <1>2, <1>5, <1>14 DEF f
    <3> QED
      BY <3>1, <3>2, Zenon DEF PackedFile
  <2>4. disk'[n] = g /\ truth'[n] = held /\ Compressed(g.compression) /\ ~g.mapped
    BY <1>2, <1>3, <1>11, <1>14 DEF g, f
  <2> QED
    BY <2>1, <2>3, <2>4, Zenon DEF NewInv
<1>17. TrueBlocks(g, map, held)
  <2> SUFFICES ASSUME NEW i \in Hunks, Stored(map[i]) PROVE g.blocks[map[i].offset].data = held[i]
    BY DEF TrueBlocks
  <2>1. CASE i = h
    <3>1. Stored(e) /\ map[i] = e /\ held[i] = data
      BY <1>10, <2>1
    <3>2. e.comp # SELF /\ e.comp # PARENT
      BY <3>1, EntryComps
    <3>3. e.offset = f.end /\ g.blocks[f.end].data = data
      BY <1>14, <3>2 DEF Appended
    <3> QED
      BY <3>1, <3>3
  <2>2. CASE i # h
    <3>1. map[i] = x.rawmap[i] /\ held[i] = truth[n][i] /\ Stored(x.rawmap[i])
      BY <1>10, <2>2
    <3>2. f.blocks[x.rawmap[i].offset].data = truth[n][i]
      BY <1>5, <3>1 DEF TrueBlocks, f
    <3>3. x.rawmap[i].offset \in DOMAIN f.blocks
      BY <1>6, <3>1 DEF GoodMap, OwnBlocks, f
    <3>4. \A b \in DOMAIN f.blocks : g.blocks[b] = f.blocks[b]
      BY <1>14 DEF Appended
    <3> QED
      BY <3>1, <3>2, <3>3, <3>4
  <2> QED
    BY <2>1, <2>2
<1>18. n \notin misled' /\ ~UncompressedParents => TrueWindows(g, map, held)
  <2> SUFFICES ASSUME n \notin misled', ~UncompressedParents, NEW i \in Hunks, map[i].comp = PARENT
               PROVE  HasContents(g.parentsha1) /\ held[i] = WindowOf(ContentsOf(g.parentsha1), map[i].offset * g.unit)
    BY Zenon DEF TrueWindows
  <2>1. Trusted(o) /\ n \notin misled
    BY <1>2
  <2>2. CASE i = h
    <3>1. map[i] = e /\ held[i] = data /\ e.comp = PARENT
      BY <1>10, <2>2
    <3>2. x.parent # Nobody /\ ParentWindow(o, e.offset) = data
      BY <1>14, <3>1
    <3>3. HasContents(f.parentsha1) /\ ParentWindow(o, e.offset) = WindowOf(ContentsOf(f.parentsha1), e.offset * x.unit)
      BY <1>1, <1>2, <2>1, <3>2, AppendedWindow DEF f
    <3>4. x.unit = g.unit /\ f.parentsha1 = g.parentsha1
      BY <1>3, <1>14 DEF f
    <3> HIDE DEF x
    <3> QED
      BY <3>1, <3>2, <3>3, <3>4
  <2>3. CASE i # h
    <3>1. map[i] = x.rawmap[i] /\ held[i] = truth[n][i] /\ x.rawmap[i].comp = PARENT
      BY <1>10, <2>3
    <3>2. HasContents(f.parentsha1) /\ truth[n][i] = WindowOf(ContentsOf(f.parentsha1), x.rawmap[i].offset * f.unit)
      BY <1>5, <2>1, <3>1 DEF TrueWindows, f
    <3>3. f.unit = g.unit /\ f.parentsha1 = g.parentsha1
      BY <1>14
    <3> HIDE DEF x
    <3> QED
      BY <3>1, <3>2, <3>3
  <2> QED
    BY <2>2, <2>3
<1>19. chd'[o].rawmap = map /\ chd'[o] = [chd[o] EXCEPT !.rawmap = chd'[o].rawmap]
  <2>1. ObjectShape(x) /\ chd'[o] = [x EXCEPT !.rawmap = map]
    BY <1>3, <1>11
  <2> HIDE DEF x
  <2>2. [x EXCEPT !.rawmap = map].rawmap = map
    BY <2>1 DEF ObjectShape
  <2> QED
    BY <2>1, <2>2 DEF x
<1>20. FillInv(chd[o], disk[n], n)'
  <2>1. disk'[n] = g /\ truth'[n] = held /\ g.rawsha1 = Null /\ h \in 0..HunkCount
    BY <1>5, <1>8, <1>11, <1>14 DEF g
  <2> QED
    BY <1>15, <1>17, <1>18, <1>19, <2>1, Zenon DEF FillInv
<1>21. /\ disk'[n].compression = disk[n].compression /\ disk'[n].unit = disk[n].unit /\ disk'[n].parentsha1 = disk[n].parentsha1
       /\ Compressed(disk[n].compression) /\ ~disk'[n].mapped
  BY <1>2, <1>3, <1>14 DEF f, g
<1>22. Opened(o) /\ chd[o].fresh /\ misled \subseteq misled' /\ misled' \subseteq Files /\ damaged' = damaged
  BY <1>2 DEF IInv, TypeInv
<1> HIDE DEF x
<1> QED
  BY <1>1, <1>11, <1>16, <1>19, <1>20, <1>21, <1>22, WriterKeeps, Zenon

LEMMA StutterKeeps ==
  ASSUME IInv, UNCHANGED vars
  PROVE  IInv'
<1>1. chd' = chd /\ disk' = disk /\ truth' = truth /\ damaged' = damaged /\ misled' = misled
  BY DEF vars
<1>2. TypeInv /\ FileInv /\ ObjectsInv
  BY DEF IInv
<1>3. TypeInv'
  BY <1>1, <1>2 DEF TypeInv
<1>4. FileInv'
  <2>1. \A n : (NewInv(n) => NewInv(n)') /\ (OldInv(n) => OldInv(n)')
    BY <1>1, NewStays, OldStays
  <2> QED
    BY <1>1, <1>2, <2>1 DEF FileInv
<1>5. ObjectsInv'
  <2>1. \A o : (ObjectInv(o) => ObjectInv(o)') /\ (Opened(o) <=> Opened(o)')
    BY <1>1, ObjectStays DEF Opened
  <2>2. OpenObjs' = OpenObjs /\ \A m : Ranks(m)' = Ranks(m)
    BY <1>1 DEF OpenObjs, Ranks, Opened
  <2> QED
    BY <1>1, <1>2, <2>1, <2>2 DEF ObjectsInv
<1> QED
  BY <1>3, <1>4, <1>5 DEF IInv

\* There is nothing where a file of an earlier version was not, and no object has it.
LEMMA NothingThere ==
  ASSUME IInv, NEW n \in Files, disk[n] = NoFile
  PROVE  n \in NewFiles /\ \A p \in Objs : Opened(p) => chd[p].file # n
<1>1. ASSUME n \in DOMAIN OldFiles PROVE FALSE
  <2> DEFINE old == OldFiles[n].file
             f == disk[n]
  <2>1. OldInv(n) /\ OldFile(old, OldFiles[n].truth)
    BY <1>1, OldAssumption, Zenon DEF IInv, FileInv
  <2>2. old = [version |-> old.version, signature |-> old.signature, sizeok |-> old.sizeok, compression |-> old.compression,
               map |-> old.map, mapped |-> old.mapped, blocks |-> old.blocks, end |-> old.end, sha1 |-> old.sha1,
               rawsha1 |-> old.rawsha1, parentsha1 |-> old.parentsha1, meta |-> old.meta]
    BY <2>1, Zenon DEF OldFile
  <2>3. f = [old EXCEPT !.blocks = f.blocks]
    BY <2>1, Zenon DEF OldInv
  <2>4. "meta" \in DOMAIN old
    <3> HIDE DEF old
    <3> QED
      BY <2>2
  <2>5. "meta" \in DOMAIN f
    BY <2>3, <2>4
  <2>6. "meta" \notin DOMAIN NoFile
    BY DEF NoFile
  <2> QED
    BY <2>5, <2>6
<1>2. \A p \in Objs : Opened(p) => disk[chd[p].file] # NoFile
  BY DEF IInv, ObjectsInv, ObjectInv
<1> QED
  BY <1>1, <1>2 DEF NewFiles

LEMMA EmptyBlocks == DOMAIN <<>> = {} /\ <<>> \in [DOMAIN <<>> -> Blocks]
OBVIOUS

\* A map with nothing in it yet.
LEMMA EmptyMap ==
  ASSUME NEW f, f.blocks = <<>>, NEW rawmap, rawmap = [h \in Hunks |-> Entry(Unwritten, 0, 0, 0)], NEW contents
  PROVE  /\ GoodMap(f, rawmap, contents, 0) /\ LastAtEnd(f, rawmap, 0)
         /\ TrueBlocks(f, rawmap, contents) /\ TrueWindows(f, rawmap, contents)
         /\ \A h \in Hunks : rawmap[h].comp = Unwritten
<1>1. \A h \in Hunks : rawmap[h].comp = Unwritten /\ rawmap[h].comp # PARENT /\ ~Stored(rawmap[h])
  BY CompFacts DEF Entry, Stored
<1>2. Entries(f, rawmap, contents, 0)
  <2>1. \A h \in Hunks : h > 0
    BY ConstFacts DEF Hunks
  <2> QED
    BY <1>1, <2>1 DEF Entries
<1>3. OwnBlocks(f, rawmap)
  BY <1>1, EmptyBlocks DEF OwnBlocks
<1>4. \A g, h \in Hunks : ~Precedes(rawmap, g, h) /\ ~Precedes(rawmap, g, 0 + 1)
  BY <1>1 DEF Precedes
<1>5. InOrder(rawmap) /\ LastAtEnd(f, rawmap, 0)
  BY <1>4 DEF InOrder, LastAtEnd
<1>6. TrueBlocks(f, rawmap, contents) /\ TrueWindows(f, rawmap, contents)
  BY <1>1 DEF TrueBlocks, TrueWindows
<1>7. rawmap = [h \in Hunks |-> rawmap[h]]
  OBVIOUS
<1> QED
  BY <1>1, <1>2, <1>3, <1>5, <1>6, <1>7 DEF GoodMap

\* An object has all its fields.
ObjectRecord(x) ==
  x = [file |-> x.file, parent |-> x.parent, missing |-> x.missing, version |-> x.version, writes |-> x.writes,
       compression |-> x.compression, unit |-> x.unit, rawmap |-> x.rawmap, fresh |-> x.fresh]

\* The header and the object that create makes.
Created(f, x, n, compression, unit, parent) ==
  /\ HunkBytes % unit = 0 /\ (parent # Nobody => chd[parent].unit = unit)
  /\ NewHeaderOf(f) /\ f.version = 5 /\ f.signature = TRUE /\ f.sizeok = TRUE /\ f.compression = compression /\ f.unit = unit
  /\ f.compression \in [1..4 -> KnownCodecs \cup {"none"}]
  /\ f.map = (IF Compressed(compression) THEN <<>> ELSE [h \in Hunks |-> 0]) /\ f.mapped \in BOOLEAN /\ (f.mapped <=> ~Compressed(compression))
  /\ f.blocks = <<>> /\ f.end = HeaderBytes /\ f.sha1 = Null /\ f.rawsha1 = Null
  /\ f.parentsha1 = (IF parent = Nobody THEN Null ELSE Sha1(parent)) /\ f.meta = <<>>
  /\ ObjectShape(x) \/ n = Nobody
  /\ x.file = n /\ x.parent = parent /\ x.missing = FALSE /\ x.version = 5 /\ x.compression = compression
  /\ x.unit = unit /\ x.fresh = TRUE
  /\ x.rawmap = IF Compressed(compression) THEN [h \in Hunks |-> Entry(Unwritten, 0, 0, 0)] ELSE [h \in Hunks |-> 0]

LEMMA CreatedFacts ==
  ASSUME NEW compression \in [1..4 -> STRING], NEW unit \in Nat \ {0}, NEW parent, NEW n,
         CreateError(compression, unit, parent) = "NONE"
  PROVE  LET f == NewHeader(compression, unit, parent)
             y == LoadMap(f, ParseV5(f).data).data
             x == [y EXCEPT !.file = n, !.parent = parent, !.writes = TRUE, !.fresh = TRUE]
         IN  Created(f, x, n, compression, unit, parent)
<1> DEFINE f == NewHeader(compression, unit, parent)
           p == ParseV5(f).data
           l == LoadMap(f, p)
           y == l.data
           x == [y EXCEPT !.file = n, !.parent = parent, !.writes = TRUE, !.fresh = TRUE]
           unwritten == [h \in Hunks |-> Entry(Unwritten, 0, 0, 0)]
           zeros == [h \in Hunks |-> 0]
           map == IF Compressed(compression) THEN <<>> ELSE zeros
           mapped == ~Compressed(compression)
           sha == IF parent = Nobody THEN Null ELSE Sha1(parent)
<1> SUFFICES Created(f, x, n, compression, unit, parent)
  OBVIOUS
<1>1. /\ HunkBytes % unit = 0 /\ (parent # Nobody => chd[parent].unit = unit)
      /\ \A k \in 1..4 : compression[k] \in KnownCodecs \cup {"none"}
  <2> DEFINE none == {k \in DOMAIN compression : compression[k] = "none"}
             bad == {k \in DOMAIN compression : compression[k] # "none"
                       /\ (compression[k] \notin KnownCodecs \/ \E j \in none : j < k)}
             late == \E j \in none : j < Min(bad)
  <2>1. CreateError(compression, unit, parent) =
          IF HunkBytes % unit # 0 THEN "invalid_argument"
          ELSE IF parent # Nobody /\ chd[parent].unit # unit THEN "invalid_argument"
          ELSE IF bad = {} THEN "NONE"
          ELSE IF late THEN "invalid_argument" ELSE "UNKNOWN_COMPRESSION"
    BY Zenon DEF CreateError
  <2> HIDE DEF bad, late
  <2>2. HunkBytes % unit = 0 /\ (parent # Nobody => chd[parent].unit = unit) /\ bad = {}
    BY <2>1
  <2> QED
    BY <2>2 DEF bad
<1> HIDE DEF zeros, unwritten
<1>2. f = [version |-> 5, signature |-> TRUE, sizeok |-> TRUE, compression |-> compression, unit |-> unit,
           map |-> map, mapped |-> mapped, blocks |-> <<>>, end |-> HeaderBytes, sha1 |-> Null, rawsha1 |-> Null,
           parentsha1 |-> sha, meta |-> <<>>]
  BY Zenon DEF NewHeader, zeros
<1> HIDE DEF f, map, mapped, sha
<1>3. /\ f.version = 5 /\ f.signature = TRUE /\ f.sizeok = TRUE /\ f.compression = compression /\ f.unit = unit
      /\ f.map = map /\ f.mapped = mapped /\ f.blocks = <<>> /\ f.end = HeaderBytes /\ f.sha1 = Null /\ f.rawsha1 = Null
      /\ f.parentsha1 = sha /\ f.meta = <<>>
  BY <1>2
<1>4. NewHeaderOf(f)
  BY <1>2, <1>3 DEF NewHeaderOf
<1>5. f.compression \in [1..4 -> KnownCodecs \cup {"none"}]
  BY <1>1, <1>3
<1> DEFINE yes == TRUE
           a == [Closed EXCEPT !.unit = unit]
           b == [a EXCEPT !.compression = compression]
<1>6. p = [b EXCEPT !.writes = mapped] /\ mapped = f.mapped
  BY <1>3 DEF ParseV5, Ok, mapped
<1> HIDE DEF mapped, p
<1>7. ObjectRecord(p) /\ p.version = 5 /\ p.compression = compression /\ p.unit = unit /\ p.missing = FALSE
  <2>1. ObjectRecord(Closed) /\ Closed.version = 5 /\ Closed.missing = FALSE
    BY DEF Closed, ObjectRecord
  <2> HIDE DEF a, b
  <2>2. ObjectRecord(a) /\ a.version = 5 /\ a.missing = FALSE /\ a.unit = unit
    BY <2>1 DEF ObjectRecord, a
  <2>3. ObjectRecord(b) /\ b.version = 5 /\ b.missing = FALSE /\ b.unit = unit /\ b.compression = compression
    BY <2>2 DEF ObjectRecord, b
  <2> QED
    BY <1>6, <2>3 DEF ObjectRecord
<1> DEFINE rawmap == IF Compressed(compression) THEN unwritten ELSE zeros
<1>8. l = Ok([p EXCEPT !.rawmap = rawmap])
  <2>1. ~\E k \in DOMAIN p.compression : p.compression[k] \notin KnownCodecs \cup {"none"}
    BY <1>1, <1>7
  <2>2. ~(p.version < 5)
    BY <1>7
  <2> HIDE DEF p
  <2>3. CASE Compressed(compression)
    <3>1. ~f.mapped /\ Compressed(p.compression)
      BY <1>3, <1>7, <2>3 DEF mapped
    <3>2. l = Ok([p EXCEPT !.rawmap = unwritten])
      BY <2>1, <2>2, <3>1, Zenon DEF LoadMap, unwritten
    <3> QED
      BY <2>3, <3>2
  <2>4. CASE ~Compressed(compression)
    <3>1. ~Compressed(p.compression) /\ f.map = zeros
      BY <1>3, <1>7, <2>4 DEF map
    <3>2. l = Ok([p EXCEPT !.rawmap = f.map])
      BY <2>1, <2>2, <3>1, Zenon DEF LoadMap
    <3> QED
      BY <2>4, <3>1, <3>2
  <2> QED
    BY <2>3, <2>4
<1> HIDE DEF rawmap, l
<1>9. y = [p EXCEPT !.rawmap = rawmap]
  BY <1>8 DEF Ok
<1> HIDE DEF y, p
<1> DEFINE c == [y EXCEPT !.file = n]
           d == [c EXCEPT !.parent = parent]
           e == [d EXCEPT !.writes = yes]
<1>10. x = [e EXCEPT !.fresh = yes] /\ yes = TRUE
  OBVIOUS
<1> HIDE DEF x, c, d, e, yes
<1>11. /\ ObjectRecord(x) /\ x.file = n /\ x.parent = parent /\ x.missing = FALSE /\ x.version = 5 /\ x.compression = compression
       /\ x.unit = unit /\ x.fresh = TRUE /\ x.rawmap = rawmap
  <2>1. /\ ObjectRecord(y) /\ y.missing = FALSE /\ y.version = 5 /\ y.compression = compression /\ y.unit = unit
        /\ y.rawmap = rawmap
    BY <1>7, <1>9 DEF ObjectRecord
  <2>2. /\ ObjectRecord(c) /\ c.missing = FALSE /\ c.version = 5 /\ c.compression = compression /\ c.unit = unit
        /\ c.rawmap = rawmap /\ c.file = n
    BY <2>1 DEF ObjectRecord, c
  <2>3. /\ ObjectRecord(d) /\ d.missing = FALSE /\ d.version = 5 /\ d.compression = compression /\ d.unit = unit
        /\ d.rawmap = rawmap /\ d.file = n /\ d.parent = parent
    BY <2>2 DEF ObjectRecord, d
  <2>4. /\ ObjectRecord(e) /\ e.missing = FALSE /\ e.version = 5 /\ e.compression = compression /\ e.unit = unit
        /\ e.rawmap = rawmap /\ e.file = n /\ e.parent = parent
    BY <2>3 DEF ObjectRecord, e
  <2> QED
    BY <1>10, <2>4 DEF ObjectRecord
<1>12. ObjectShape(x) \/ n = Nobody
  <2>1. x.fresh \in BOOLEAN /\ x.missing \in BOOLEAN
    BY <1>11
  <2> QED
    BY <1>11, <2>1, Zenon DEF ObjectShape, ObjectRecord
<1>13. /\ f.map = (IF Compressed(compression) THEN <<>> ELSE [h \in Hunks |-> 0])
       /\ f.parentsha1 = IF parent = Nobody THEN Null ELSE Sha1(parent)
  BY <1>3, Zenon DEF map, sha, zeros
<1>15. f.mapped \in BOOLEAN /\ (f.mapped <=> ~Compressed(compression))
  <2>1. Compressed(compression) \in BOOLEAN
    BY DEF Compressed
  <2> QED
    BY <1>3, <2>1, Zenon DEF mapped
<1>14. x.rawmap = IF Compressed(compression) THEN [h \in Hunks |-> Entry(Unwritten, 0, 0, 0)] ELSE [h \in Hunks |-> 0]
  BY <1>11, Zenon DEF rawmap, unwritten, zeros
<1> QED
  BY <1>1, <1>3, <1>4, <1>5, <1>11, <1>12, <1>13, <1>14, <1>15 DEF Created

LEMMA CreateKeeps ==
  ASSUME IInv, NEW o \in Objs, NEW n \in Uses[o], NEW compression \in Compressions[o], NEW unit \in Units,
         NEW parent \in Objs \cup {Nobody}, Create(o, n, compression, unit, parent)
  PROVE  IInv'
<1> DEFINE f == NewHeader(compression, unit, parent)
           x == [LoadMap(f, ParseV5(f).data).data EXCEPT !.file = n, !.parent = parent, !.writes = TRUE, !.fresh = TRUE]
           held == IF parent = Nobody THEN [h \in Hunks |-> Zero] ELSE truth[chd[parent].file]
<1>1. /\ ~Opened(o) /\ disk[n] = NoFile /\ NoWriter
      /\ parent \in (IF o \in Roots THEN {Nobody} ELSE Parents \ {Nobody, o})
      /\ parent # Nobody => (UncompressedParents \/ Sha1(parent) # Null)
      /\ IF CreateError(compression, unit, parent) # "NONE"
         THEN UNCHANGED <<disk, chd, truth>>
         ELSE disk' = [disk EXCEPT ![n] = f] /\ chd' = [chd EXCEPT ![o] = x] /\ truth' = [truth EXCEPT ![n] = held]
      /\ damaged' = damaged /\ misled' = misled
  BY Zenon DEF Create
<1>2. n \in Files /\ compression \in [1..4 -> STRING] /\ unit \in Nat \ {0} /\ n # Nobody /\ o # Nobody
  BY ChdAssumption
<1>3. CASE CreateError(compression, unit, parent) # "NONE"
  <2>1. UNCHANGED vars
    BY <1>1, <1>3 DEF vars
  <2> QED
    BY <2>1, StutterKeeps
<1>4. CASE CreateError(compression, unit, parent) = "NONE"
  <2>1. /\ HunkBytes % unit = 0 /\ (parent # Nobody => chd[parent].unit = unit)
        /\ NewHeaderOf(f) /\ f.version = 5 /\ f.signature = TRUE /\ f.sizeok = TRUE /\ f.compression = compression /\ f.unit = unit
        /\ f.compression \in [1..4 -> KnownCodecs \cup {"none"}]
        /\ f.map = (IF Compressed(compression) THEN <<>> ELSE [h \in Hunks |-> 0])
        /\ f.mapped \in BOOLEAN /\ (f.mapped <=> ~Compressed(compression))
        /\ f.blocks = <<>> /\ f.end = HeaderBytes /\ f.sha1 = Null /\ f.rawsha1 = Null
        /\ f.parentsha1 = (IF parent = Nobody THEN Null ELSE Sha1(parent)) /\ f.meta = <<>>
        /\ ObjectShape(x) \/ n = Nobody
        /\ x.file = n /\ x.parent = parent /\ x.missing = FALSE /\ x.version = 5 /\ x.compression = compression
        /\ x.unit = unit /\ x.fresh = TRUE
        /\ x.rawmap = IF Compressed(compression) THEN [h \in Hunks |-> Entry(Unwritten, 0, 0, 0)] ELSE [h \in Hunks |-> 0]
    <3>1. Created(f, x, n, compression, unit, parent)
      BY <1>2, <1>4, CreatedFacts, Zenon
    <3> HIDE DEF f, x
    <3> QED
      BY <3>1 DEF Created
  <2>2. n \in NewFiles /\ \A p \in Objs : Opened(p) => chd[p].file # n
    BY <1>1, <1>2, NothingThere
  <2>3. ASSUME parent # Nobody
        PROVE  /\ parent \in Objs /\ parent # o /\ Opened(parent) /\ ~chd[parent].fresh
               /\ chd[parent].file \in Files /\ chd[parent].file # n
               /\ truth[chd[parent].file] \in [Hunks -> HunkData]
               /\ HasContents(Sha1(parent)) => ContentsOf(Sha1(parent)) = truth[chd[parent].file]
    <3>1. parent \in Objs /\ parent # o /\ Opened(parent) /\ ~chd[parent].fresh
      BY <1>1, <2>3 DEF Parents, NoWriter
    <3>2. chd[parent].file \in Files /\ truth[chd[parent].file] \in [Hunks -> HunkData]
      BY <3>1, ObjectFacts
    <3> QED
      BY <2>2, <3>1, <3>2, ParentFacts
  <2>4. held \in [Hunks -> HunkData]
    BY <2>3, ConstFacts
  <2>5. /\ disk' = [disk EXCEPT ![n] = f] /\ chd' = [chd EXCEPT ![o] = x] /\ truth' = [truth EXCEPT ![n] = held]
        /\ disk'[n] = f /\ chd'[o] = x /\ truth'[n] = held
    BY <1>1, <1>2, <1>4 DEF IInv, TypeInv
  <2>6. /\ f.parentsha1 = Null /\ ~UncompressedParents => held = [h \in Hunks |-> Zero]
        /\ HasContents(f.parentsha1) => held = ContentsOf(f.parentsha1)
    <3>1. CASE parent = Nobody
      BY <2>1, <3>1, HashFacts
    <3>2. CASE parent # Nobody
      BY <1>1, <2>1, <2>3, <3>2
    <3> QED
      BY <3>1, <3>2
  <2> HIDE DEF f, x, held
  <2>7. NewFile(f, held)
    <3>1. f.end \in Nat /\ f.end >= HeaderBytes
      BY <2>1 DEF HeaderBytes
    <3>2. f.blocks \in [DOMAIN f.blocks -> Blocks] /\ \A b \in DOMAIN f.blocks : b \in HeaderBytes..(f.end - 1)
      <4>1. f.blocks = <<>>
        BY <2>1
      <4>2. f.blocks \in [DOMAIN f.blocks -> Blocks] /\ DOMAIN f.blocks = {}
        BY <4>1, EmptyBlocks, Zenon
      <4> QED
        BY <4>2
    <3>3. f.unit \in Nat \ {0} /\ HunkBytes % f.unit = 0
      BY <1>2, <2>1
    <3> QED
      BY <2>1, <2>4, <3>1, <3>2, <3>3, Zenon DEF NewFile
  <2>8. f # NoFile /\ Parse(f).error = "NONE"
    BY <2>7, NewParses, Zenon
  <2>9. ~Compressed(f.compression) => PlainFile(f, held) /\ PlainData(f, held)
    <3> SUFFICES ASSUME ~Compressed(f.compression) PROVE PlainFile(f, held) /\ PlainData(f, held)
      OBVIOUS
    <3>1. f.map = [h \in Hunks |-> 0] /\ f.mapped
      BY <2>1
    <3>2. f.map \in [Hunks -> Nat] /\ \A h \in Hunks : f.map[h] = 0
      BY <3>1
    <3>3. f.sha1 = Null
      BY <2>1
    <3>4. \A h \in Hunks : /\ f.parentsha1 = Null /\ ~UncompressedParents => held[h] = Zero
                           /\ HasContents(f.parentsha1) => held[h] = ContentsOf(f.parentsha1)[h]
      BY <2>6
    <3> QED
      BY <3>1, <3>2, <3>3, <3>4 DEF PlainFile, PlainData
  <2>10. Compressed(f.compression) => PackedFile(f, held) /\ ~f.mapped
    <3>1. f.rawsha1 \in {Null, RawSha1(held)} /\ f.sha1 \in {Null, Overall(Null, f), Overall(f.rawsha1, f)}
      BY <2>1
    <3>2. Compressed(f.compression) => ~f.mapped
      BY <2>1
    <3> QED
      BY <3>1, <3>2, Zenon DEF PackedFile
  <2>11. NewInv(n)'
    BY <2>5, <2>7, <2>9, <2>10, Zenon DEF NewInv
  <2>12. KnowsFile(x, f)
    <3>1. /\ ~Compressed(f.compression) => x.rawmap = f.map
          /\ Compressed(f.compression) => ~f.mapped
      BY <2>1
    <3>2. x.version = f.version /\ f.version = 5 /\ x.unit = f.unit /\ x.compression = f.compression /\ x.fresh
      BY <2>1
    <3> QED
      BY <2>8, <3>1, <3>2, Zenon DEF KnowsFile
  <2>13. KnowsParent(chd[o], disk[n])'
    <3>1. chd'[o].parent = parent /\ chd'[o].missing = FALSE
          /\ disk'[n].parentsha1 = (IF parent = Nobody THEN Null ELSE Sha1(parent))
      BY <2>1, <2>5
    <3>2. CASE parent = Nobody
      BY <3>1, <3>2 DEF KnowsParent
    <3>3. CASE parent # Nobody
      <4>1. chd'[parent] = chd[parent] /\ disk'[chd[parent].file] = disk[chd[parent].file]
        BY <1>2, <2>3, <2>5, <3>3 DEF IInv, TypeInv
      <4>2. parent \in OpenObjs' /\ Sha1(parent)' = Sha1(parent) /\ ~chd'[parent].fresh
        BY <2>3, <3>3, <4>1 DEF OpenObjs, Opened, Sha1
      <4>3. Sha1(parent) # Null \/ UncompressedParents
        BY <1>1, <3>3
      <4> QED
        BY <3>1, <3>3, <4>2, <4>3 DEF KnowsParent
    <3> QED
      BY <3>2, <3>3
  <2>14. (Compressed(disk[n].compression) => FillInv(chd[o], disk[n], n))'
    <3> SUFFICES ASSUME Compressed(f.compression)
                 PROVE  FillInv(chd[o], disk[n], n)'
      BY <2>5
    <3>1. x.rawmap = [h \in Hunks |-> Entry(Unwritten, 0, 0, 0)] /\ f.blocks = <<>> /\ f.rawsha1 = Null
      BY <2>1
    <3> DEFINE rawmap == x.rawmap
    <3>2. rawmap = [h \in Hunks |-> Entry(Unwritten, 0, 0, 0)]
      BY <3>1
    <3> HIDE DEF rawmap
    <3>3. /\ GoodMap(f, rawmap, held, 0) /\ LastAtEnd(f, rawmap, 0)
          /\ TrueBlocks(f, rawmap, held) /\ TrueWindows(f, rawmap, held)
      BY <3>1, <3>2, EmptyMap
    <3>4. 0 \in 0..HunkCount
      BY ConstFacts
    <3>5. /\ GoodMap(f, x.rawmap, held, 0) /\ LastAtEnd(f, x.rawmap, 0)
          /\ TrueBlocks(f, x.rawmap, held) /\ TrueWindows(f, x.rawmap, held)
      BY <3>3 DEF rawmap
    <3> QED
      BY <2>5, <3>1, <3>4, <3>5, Zenon DEF FillInv
  <2>15. ObjectInv(o)' /\ chd'[o].file = n
    <3>1. chd'[o].file = n /\ chd'[o].unit \in Nat \ {0} /\ HunkBytes % chd'[o].unit = 0 /\ disk'[n] # NoFile
      BY <1>2, <2>1, <2>5, <2>8
    <3>2. KnowsFile(chd[o], disk[n])'
      BY <2>5, <2>12
    <3> QED
      BY <1>2, <2>13, <2>14, <3>1, <3>2 DEF ObjectInv
  <2>16. (IF n \in DOMAIN OldFiles THEN OldInv(n) ELSE disk[n] = NoFile \/ NewInv(n))'
    BY <2>2, <2>11 DEF NewFiles
  <2>17. ObjectShape(chd'[o]) /\ chd'[o].parent # o
    <3>1. parent # o
      BY <1>2, <2>3
    <3> QED
      BY <1>2, <2>1, <2>5, <3>1
  <2>18. \A p \in Objs \ {o} : Opened(p) => chd[p].file # n /\ chd[p].parent # o
    <3>1. \A p \in Objs : Opened(p) /\ chd[p].parent # Nobody => Opened(chd[p].parent)
      BY ParentThere
    <3> QED
      BY <1>1, <1>2, <2>2, <3>1
  <2>19. /\ chd' = [chd EXCEPT ![o] = chd'[o]] /\ disk' = [disk EXCEPT ![n] = disk'[n]] /\ truth' = [truth EXCEPT ![n] = truth'[n]]
         /\ truth'[n] \in [Hunks -> HunkData] /\ damaged' = damaged /\ misled \subseteq misled' /\ misled' \subseteq Files
    BY <1>1, <2>4, <2>5 DEF IInv, TypeInv
  <2>20. chd'[o].file # Nobody => chd'[o].file = n /\ ObjectInv(o)'
    BY <2>15
  <2>21. chd'[o].fresh => NoWriter \/ chd[o].fresh
    BY <1>1
  <2> QED
    BY <1>2, <2>16, <2>17, <2>18, <2>19, <2>20, <2>21, StepKeeps, Zenon
<1> QED
  BY <1>3, <1>4

\* The header as it was read.
LEMMA ParsedFacts ==
  ASSUME NEW f, Parse(f).error = "NONE"
  PROVE  LET x == Parse(f).data IN
         /\ ObjectRecord(x) /\ x.parent = Nobody /\ x.missing = FALSE /\ x.version = f.version
         /\ f.version = 5 => x.unit = f.unit /\ x.compression = f.compression /\ (x.writes => ~Compressed(f.compression))
         /\ f.version # 5 => /\ f.version \in {3, 4} /\ x.unit = GuessUnitbytes(f.meta) /\ x.compression[1] = OldCodec(f)
<1> DEFINE x == Parse(f).data
           writes == ~Compressed(f.compression)
           list == <<OldCodec(f), "none", "none", "none">>
           version == f.version
           a == [Closed EXCEPT !.version = version]
           b == [a EXCEPT !.unit = GuessUnitbytes(f.meta)]
           c == [Closed EXCEPT !.unit = f.unit]
           d == [c EXCEPT !.compression = f.compression]
<1>1. ObjectRecord(Closed) /\ Closed.parent = Nobody /\ Closed.missing = FALSE /\ Closed.version = 5
  BY DEF Closed, ObjectRecord
<1>2. CASE f.version \in {3, 4}
  <2>1. Parse(f) = ParseOld(f)
    BY <1>2 DEF Parse, Err
  <2>2. ParseOld(f) = Ok([Closed EXCEPT !.version = version, !.unit = GuessUnitbytes(f.meta), !.compression = list])
    <3>1. f.sizeok /\ f.compression \in 0..3
      BY <2>1 DEF ParseOld, Err
    <3> QED
      BY <3>1, Zenon DEF ParseOld
  <2>3. x = [b EXCEPT !.compression = list]
    BY <2>1, <2>2 DEF Ok
  <2>4. list[1] = OldCodec(f)
    OBVIOUS
  <2> HIDE DEF x, list, a, b, version
  <2>5. ObjectRecord(a) /\ a.parent = Nobody /\ a.missing = FALSE /\ a.version = version
    BY <1>1 DEF ObjectRecord, a
  <2>6. ObjectRecord(b) /\ b.parent = Nobody /\ b.missing = FALSE /\ b.version = version /\ b.unit = GuessUnitbytes(f.meta)
    BY <2>5 DEF ObjectRecord, b
  <2>7. ObjectRecord(x) /\ x.parent = Nobody /\ x.missing = FALSE /\ x.version = version /\ x.unit = GuessUnitbytes(f.meta)
        /\ x.compression = list
    BY <2>3, <2>6 DEF ObjectRecord
  <2> QED
    BY <1>2, <2>4, <2>7 DEF x, version
<1>3. CASE f.version \notin {3, 4}
  <2>1. f.version = 5 /\ Parse(f) = ParseV5(f)
    BY <1>3 DEF Parse, Err
  <2>2. ParseV5(f) = Ok([Closed EXCEPT !.unit = f.unit, !.compression = f.compression, !.writes = writes])
    <3>1. f.sizeok
      BY <2>1 DEF ParseV5, Err
    <3> QED
      BY <3>1, Zenon DEF ParseV5
  <2>3. x = [d EXCEPT !.writes = writes]
    BY <2>1, <2>2 DEF Ok
  <2> HIDE DEF x, c, d, writes
  <2>4. ObjectRecord(c) /\ c.parent = Nobody /\ c.missing = FALSE /\ c.version = 5 /\ c.unit = f.unit
    BY <1>1 DEF ObjectRecord, c
  <2>5. ObjectRecord(d) /\ d.parent = Nobody /\ d.missing = FALSE /\ d.version = 5 /\ d.unit = f.unit /\ d.compression = f.compression
    BY <2>4 DEF ObjectRecord, d
  <2>6. ObjectRecord(x) /\ x.parent = Nobody /\ x.missing = FALSE /\ x.version = 5 /\ x.unit = f.unit
        /\ x.compression = f.compression /\ x.writes = writes
    BY <2>3, <2>5 DEF ObjectRecord
  <2>7. x.writes => ~Compressed(f.compression)
    BY <2>6 DEF writes
  <2> QED
    BY <1>3, <2>1, <2>6, <2>7 DEF x
<1> QED
  BY <1>2, <1>3

\* What the steps of open_common find, and leave in the object.
NoError(r) == r.error = "NONE"
Parsed(x) == ObjectRecord(x) /\ x.parent = Nobody /\ x.missing = FALSE
Linked(f, x, y, parent) ==
  /\ ObjectRecord(y) /\ y.version = x.version /\ y.unit = x.unit /\ y.compression = x.compression
  /\ y.parent = parent /\ y.missing \in BOOLEAN
  /\ parent = Nobody => (y.missing <=> f.parentsha1 # Null)
  /\ parent # Nobody => ~y.missing /\ Sha1(parent) = f.parentsha1 /\ f.parentsha1 # Null
Loaded(f, x, y) ==
  /\ ObjectRecord(y) /\ y.version = x.version /\ y.unit = x.unit /\ y.compression = x.compression
  /\ y.parent = x.parent /\ y.missing = x.missing
  /\ x.version < 5 \/ ~Compressed(x.compression) => y.rawmap = f.map
  /\ ~(x.version < 5) /\ Compressed(x.compression) /\ ~f.mapped => y.rawmap = [h \in Hunks |-> Entry(Unwritten, 0, 0, 0)]
  /\ ~(x.version < 5) /\ Compressed(x.compression) /\ f.mapped => y.rawmap = f.map.mapcrc

\* The object with its parent.
LEMMA LinkedFacts ==
  ASSUME NEW f, NEW x, Parsed(x), NEW parent, NoError(WithParent(f, x, parent))
  PROVE  Linked(f, x, WithParent(f, x, parent).data, parent)
<1> DEFINE y == WithParent(f, x, parent).data
           yes == TRUE
<1>0. ObjectRecord(x) /\ x.parent = Nobody /\ x.missing = FALSE /\ WithParent(f, x, parent).error = "NONE"
  BY DEF Parsed, NoError
<1> SUFFICES /\ ObjectRecord(y) /\ y.version = x.version /\ y.unit = x.unit /\ y.compression = x.compression
             /\ y.parent = parent /\ y.missing \in BOOLEAN
             /\ parent = Nobody => (y.missing <=> f.parentsha1 # Null)
             /\ parent # Nobody => ~y.missing /\ Sha1(parent) = f.parentsha1 /\ f.parentsha1 # Null
  BY Zenon DEF Linked
<1>1. CASE f.parentsha1 # Null /\ parent = Nobody
  <2>1. y = [x EXCEPT !.missing = yes]
    BY <1>0, <1>1 DEF WithParent, Ok
  <2>2. yes
    OBVIOUS
  <2> HIDE DEF y, yes
  <2>3. /\ ObjectRecord(y) /\ y.version = x.version /\ y.unit = x.unit /\ y.compression = x.compression
        /\ y.parent = x.parent /\ y.missing = yes
    BY <1>0, <2>1 DEF ObjectRecord
  <2>4. yes \in BOOLEAN
    BY DEF yes
  <2> QED
    BY <1>0, <1>1, <2>2, <2>3, <2>4 DEF y
<1>2. CASE f.parentsha1 # Null /\ parent # Nobody
  <2>1. y = [x EXCEPT !.parent = parent] /\ Sha1(parent) = f.parentsha1
    BY <1>0, <1>2 DEF WithParent, Ok, Err
  <2> HIDE DEF y
  <2>2. /\ ObjectRecord(y) /\ y.version = x.version /\ y.unit = x.unit /\ y.compression = x.compression
        /\ y.parent = parent /\ y.missing = FALSE
    BY <1>0, <2>1 DEF ObjectRecord
  <2> QED
    BY <1>2, <2>1, <2>2 DEF y
<1>3. CASE ~(f.parentsha1 # Null)
  <2>1. y = x /\ parent = Nobody
    BY <1>0, <1>3 DEF WithParent, Ok, Err
  <2> QED
    BY <1>0, <1>3, <2>1
<1> QED
  BY <1>1, <1>2, <1>3

\* The object with its map.
LEMMA LoadedFacts ==
  ASSUME NEW f, NEW x, ObjectRecord(x), NoError(LoadMap(f, x))
  PROVE  Loaded(f, x, LoadMap(f, x).data)
<1> DEFINE y == LoadMap(f, x).data
           unwritten == [h \in Hunks |-> Entry(Unwritten, 0, 0, 0)]
           d == DecompressMap(f.map, HunkCount, FileBytes, UnitsPerHunk(x))
<1>0. LoadMap(f, x).error = "NONE"
  BY DEF NoError
<1> SUFFICES /\ ObjectRecord(y) /\ y.version = x.version /\ y.unit = x.unit /\ y.compression = x.compression
             /\ y.parent = x.parent /\ y.missing = x.missing
             /\ x.version < 5 \/ ~Compressed(x.compression) => y.rawmap = f.map
             /\ ~(x.version < 5) /\ Compressed(x.compression) /\ ~f.mapped => y.rawmap = unwritten
             /\ ~(x.version < 5) /\ Compressed(x.compression) /\ f.mapped => y.rawmap = f.map.mapcrc
  BY Zenon DEF Loaded
<1>1. LoadMap(f, x) =
        IF \E k \in DOMAIN x.compression : x.compression[k] \notin KnownCodecs \cup {"none"} THEN Err("UNKNOWN_COMPRESSION")
        ELSE IF x.version < 5 \/ ~Compressed(x.compression) THEN Ok([x EXCEPT !.rawmap = f.map])
        ELSE IF ~f.mapped THEN Ok([x EXCEPT !.rawmap = unwritten])
        ELSE IF d.error # "NONE" THEN Err(d.error) ELSE Ok([x EXCEPT !.rawmap = d.rawmap])
  BY Zenon DEF LoadMap
<1>2. ASSUME d.error = "NONE" PROVE d.rawmap = f.map.mapcrc
  BY <1>2, DecompressedMap
<1> HIDE DEF d, unwritten
<1>3. ASSUME NEW map, LoadMap(f, x) = Ok([x EXCEPT !.rawmap = map])
      PROVE  /\ ObjectRecord(y) /\ y.version = x.version /\ y.unit = x.unit /\ y.compression = x.compression
             /\ y.parent = x.parent /\ y.missing = x.missing /\ y.rawmap = map
  <2>1. y = [x EXCEPT !.rawmap = map]
    BY <1>3 DEF Ok
  <2> HIDE DEF y
  <2> QED
    BY <2>1 DEF ObjectRecord
<1>4. \A e : Err(e).error = e
  BY DEF Err
<1>5. LoadMap(f, x) # Err("UNKNOWN_COMPRESSION") /\ (d.error # "NONE" => LoadMap(f, x) # Err(d.error))
  BY <1>0, <1>4
<1>6. CASE x.version < 5 \/ ~Compressed(x.compression)
  <2>1. LoadMap(f, x) = Ok([x EXCEPT !.rawmap = f.map])
    BY <1>1, <1>5, <1>6, Zenon
  <2> HIDE DEF y
  <2> QED
    BY <1>3, <1>6, <2>1 DEF y
<1>7. CASE ~(x.version < 5) /\ Compressed(x.compression) /\ ~f.mapped
  <2>1. LoadMap(f, x) = Ok([x EXCEPT !.rawmap = unwritten])
    BY <1>1, <1>5, <1>7, Zenon
  <2> HIDE DEF y
  <2> QED
    BY <1>3, <1>7, <2>1 DEF y
<1>8. CASE ~(x.version < 5) /\ Compressed(x.compression) /\ f.mapped
  <2>1. LoadMap(f, x) = Ok([x EXCEPT !.rawmap = d.rawmap]) /\ d.error = "NONE"
    BY <1>1, <1>5, <1>8, Zenon
  <2> HIDE DEF y
  <2> QED
    BY <1>2, <1>3, <1>8, <2>1 DEF y
<1> QED
  BY <1>6, <1>7, <1>8

\* The steps of open_common.
LEMMA OpenSteps ==
  ASSUME NEW f, NEW writeable, NEW parent, OpenCommon(f, writeable, parent).error = "NONE"
  PROVE  /\ Parse(f).error = "NONE" /\ (writeable => ~(f.version < 5) /\ Parse(f).data.writes)
         /\ WithParent(f, Parse(f).data, parent).error = "NONE"
         /\ LoadMap(f, WithParent(f, Parse(f).data, parent).data).error = "NONE"
         /\ OpenCommon(f, writeable, parent) = LoadMap(f, WithParent(f, Parse(f).data, parent).data)
<1> DEFINE p == Parse(f)
           bad == writeable /\ (f.version < 5 \/ ~p.data.writes)
           w == IF p.error # "NONE" THEN p ELSE IF bad THEN Err("FILE_NOT_WRITEABLE") ELSE Ok(p.data)
           l == IF w.error # "NONE" THEN w ELSE WithParent(f, w.data, parent)
           m == IF l.error # "NONE" THEN l ELSE LoadMap(f, l.data)
<1>1. OpenCommon(f, writeable, parent) = m
  BY Zenon DEF OpenCommon, Then
<1> HIDE DEF p, bad
<1>2. Err("FILE_NOT_WRITEABLE").error # "NONE" /\ Ok(p.data).error = "NONE" /\ Ok(p.data).data = p.data
  BY DEF Err, Ok
<1>3. l.error = "NONE" /\ m = LoadMap(f, l.data)
  BY <1>1
<1>4. w.error = "NONE" /\ l = WithParent(f, w.data, parent)
  BY <1>3
<1>5. p.error = "NONE" /\ ~bad /\ w.data = p.data
  BY <1>2, <1>4
<1> HIDE DEF w, l, m
<1> QED
  BY <1>1, <1>3, <1>4, <1>5 DEF p, bad

\* An object that was opened knows its file and its parent.
LEMMA OpenedFacts ==
  ASSUME NEW f, NEW writeable, NEW parent, OpenCommon(f, writeable, parent).error = "NONE"
  PROVE  LET x == OpenCommon(f, writeable, parent).data IN
         /\ ObjectRecord(x) /\ Parse(f).error = "NONE" /\ x.version = f.version /\ x.parent = parent /\ x.missing \in BOOLEAN
         /\ f.version = 5 => /\ x.unit = f.unit /\ x.compression = f.compression
                             /\ ~Compressed(f.compression) => x.rawmap = f.map
                             /\ Compressed(f.compression) /\ f.mapped => x.rawmap = f.map.mapcrc
                             /\ Compressed(f.compression) /\ ~f.mapped => \A h \in Hunks : x.rawmap[h].comp = Unwritten
                             /\ writeable => ~Compressed(f.compression)
         /\ f.version # 5 => /\ ~writeable /\ x.unit = GuessUnitbytes(f.meta) /\ x.compression[1] = OldCodec(f) /\ x.rawmap = f.map
         /\ parent = Nobody => (x.missing <=> f.parentsha1 # Null)
         /\ parent # Nobody => ~x.missing /\ Sha1(parent) = f.parentsha1 /\ f.parentsha1 # Null
<1> DEFINE p == Parse(f).data
           y == WithParent(f, p, parent).data
           x == OpenCommon(f, writeable, parent).data
<1>1. /\ Parse(f).error = "NONE" /\ (writeable => ~(f.version < 5) /\ p.writes)
      /\ WithParent(f, p, parent).error = "NONE" /\ LoadMap(f, y).error = "NONE" /\ x = LoadMap(f, y).data
  <2>1. /\ Parse(f).error = "NONE" /\ (writeable => ~(f.version < 5) /\ Parse(f).data.writes)
        /\ WithParent(f, Parse(f).data, parent).error = "NONE"
        /\ LoadMap(f, WithParent(f, Parse(f).data, parent).data).error = "NONE"
        /\ OpenCommon(f, writeable, parent) = LoadMap(f, WithParent(f, Parse(f).data, parent).data)
    BY OpenSteps, Zenon
  <2> QED
    BY <2>1, Zenon
<1>2. /\ ObjectRecord(p) /\ p.parent = Nobody /\ p.missing = FALSE /\ p.version = f.version
      /\ f.version = 5 => p.unit = f.unit /\ p.compression = f.compression /\ (p.writes => ~Compressed(f.compression))
      /\ f.version # 5 => /\ f.version \in {3, 4} /\ p.unit = GuessUnitbytes(f.meta) /\ p.compression[1] = OldCodec(f)
  BY <1>1, ParsedFacts
<1> HIDE DEF p
<1>3. /\ ObjectRecord(y) /\ y.version = p.version /\ y.unit = p.unit /\ y.compression = p.compression
      /\ y.parent = parent /\ y.missing \in BOOLEAN
      /\ parent = Nobody => (y.missing <=> f.parentsha1 # Null)
      /\ parent # Nobody => ~y.missing /\ Sha1(parent) = f.parentsha1 /\ f.parentsha1 # Null
  <2>1. Parsed(p) /\ NoError(WithParent(f, p, parent))
    BY <1>1, <1>2 DEF Parsed, NoError
  <2>2. Linked(f, p, y, parent)
    BY <2>1, LinkedFacts
  <2> HIDE DEF y
  <2> QED
    BY <2>2, Zenon DEF Linked
<1> HIDE DEF y, x
<1>4. /\ ObjectRecord(x) /\ x.version = y.version /\ x.unit = y.unit /\ x.compression = y.compression
      /\ x.parent = y.parent /\ x.missing = y.missing
      /\ y.version < 5 \/ ~Compressed(y.compression) => x.rawmap = f.map
      /\ ~(y.version < 5) /\ Compressed(y.compression) /\ ~f.mapped => x.rawmap = [h \in Hunks |-> Entry(Unwritten, 0, 0, 0)]
      /\ ~(y.version < 5) /\ Compressed(y.compression) /\ f.mapped => x.rawmap = f.map.mapcrc
  <2>1. ObjectRecord(y) /\ NoError(LoadMap(f, y))
    BY <1>1, <1>3, Zenon DEF NoError
  <2>2. Loaded(f, y, LoadMap(f, y).data)
    BY <2>1, LoadedFacts
  <2>3. Loaded(f, y, x)
    BY <1>1, <2>2, Zenon
  <2> QED
    BY <2>3, Zenon DEF Loaded
<1>5. CASE f.version = 5
  <2>1. ~(y.version < 5) /\ y.compression = f.compression
    BY <1>2, <1>3, <1>5
  <2>2. ASSUME Compressed(f.compression), ~f.mapped, NEW h \in Hunks PROVE x.rawmap[h].comp = Unwritten
    <3>1. x.rawmap[h] = Entry(Unwritten, 0, 0, 0)
      BY <1>4, <2>1, <2>2
    <3> QED
      BY <3>1 DEF Entry
  <2> QED
    BY <1>1, <1>2, <1>3, <1>4, <1>5, <2>1, <2>2 DEF x
<1>6. CASE f.version # 5
  <2>1. y.version < 5 /\ f.version < 5
    BY <1>2, <1>3, <1>6
  <2> QED
    BY <1>1, <1>2, <1>3, <1>4, <1>6, <2>1 DEF x
<1> QED
  BY <1>5, <1>6

LEMMA OpenKeeps ==
  ASSUME IInv, NEW o \in Objs, NEW n \in Uses[o], NEW writeable \in BOOLEAN, NEW parent \in Objs \cup {Nobody},
         Open(o, n, writeable, parent)
  PROVE  IInv'
<1> DEFINE f == disk[n]
           r == OpenCommon(f, writeable, parent)
           y == r.data
           x == [y EXCEPT !.file = n, !.fresh = writeable]
           a == [y EXCEPT !.file = n]
<1>1. /\ ~Opened(o) /\ ~InUse(n) /\ f # NoFile /\ NoWriter /\ parent \in Parents \ {o}
      /\ chd' = [chd EXCEPT ![o] = IF r.error = "NONE" THEN x ELSE Closed]
      /\ UNCHANGED <<disk, truth, damaged, misled>>
  BY Zenon DEF Open
<1>2. n \in Files /\ n # Nobody /\ o # Nobody
  BY ChdAssumption
<1>3. /\ chd'[o] = (IF r.error = "NONE" THEN x ELSE Closed) /\ truth'[n] \in [Hunks -> HunkData]
      /\ chd' = [chd EXCEPT ![o] = chd'[o]] /\ disk' = [disk EXCEPT ![n] = disk'[n]] /\ truth' = [truth EXCEPT ![n] = truth'[n]]
      /\ damaged' = damaged /\ misled \subseteq misled' /\ misled' \subseteq Files
  BY <1>1, <1>2 DEF IInv, TypeInv
<1>4. IF n \in DOMAIN OldFiles THEN OldInv(n) ELSE disk[n] = NoFile \/ NewInv(n)
  BY <1>2, Zenon DEF IInv, FileInv
<1>5. (IF n \in DOMAIN OldFiles THEN OldInv(n) ELSE disk[n] = NoFile \/ NewInv(n))'
  <2>1. \A i : (OldInv(i) => OldInv(i)') /\ (NewInv(i) => NewInv(i)')
    BY <1>1, OldStays, NewStays
  <2> QED
    BY <1>1, <1>4, <2>1
<1>6. \A p \in Objs \ {o} : Opened(p) => chd[p].file # n /\ chd[p].parent # o
  <2>1. \A p \in Objs : Opened(p) /\ chd[p].parent # Nobody => Opened(chd[p].parent)
    BY ParentThere
  <2> QED
    BY <1>1, <1>2, <2>1 DEF InUse
<1>7. CASE r.error # "NONE"
  <2>1. ObjectShape(chd'[o]) /\ chd'[o].file = Nobody /\ chd'[o].parent # o /\ ~chd'[o].fresh
    BY <1>2, <1>3, <1>7, ClosedShape
  <2> QED
    BY <1>2, <1>3, <1>5, <1>6, <2>1, StepKeeps, Zenon
<1>8. CASE r.error = "NONE"
  <2>1. /\ ObjectRecord(y) /\ Parse(f).error = "NONE" /\ y.version = f.version /\ y.parent = parent /\ y.missing \in BOOLEAN
        /\ f.version = 5 => /\ y.unit = f.unit /\ y.compression = f.compression
                            /\ ~Compressed(f.compression) => y.rawmap = f.map
                            /\ Compressed(f.compression) /\ f.mapped => y.rawmap = f.map.mapcrc
                            /\ Compressed(f.compression) /\ ~f.mapped => \A h \in Hunks : y.rawmap[h].comp = Unwritten
                            /\ writeable => ~Compressed(f.compression)
        /\ f.version # 5 => /\ ~writeable /\ y.unit = GuessUnitbytes(f.meta) /\ y.compression[1] = OldCodec(f) /\ y.rawmap = f.map
        /\ parent = Nobody => (y.missing <=> f.parentsha1 # Null)
        /\ parent # Nobody => ~y.missing /\ Sha1(parent) = f.parentsha1 /\ f.parentsha1 # Null
    BY <1>8, OpenedFacts
  <2>2. x = [a EXCEPT !.fresh = writeable]
    OBVIOUS
  <2>3. chd'[o] = x
    BY <1>3, <1>8
  <2> HIDE DEF r, x, y, a, f
  <2>4. /\ ObjectRecord(x) /\ x.file = n /\ x.fresh = writeable /\ x.version = y.version /\ x.parent = parent
        /\ x.missing = y.missing /\ x.unit = y.unit /\ x.compression = y.compression /\ x.rawmap = y.rawmap
    <3>1. /\ ObjectRecord(a) /\ a.file = n /\ a.version = y.version /\ a.parent = parent
          /\ a.missing = y.missing /\ a.unit = y.unit /\ a.compression = y.compression /\ a.rawmap = y.rawmap
      BY <2>1 DEF ObjectRecord, a
    <3> QED
      BY <2>2, <3>1 DEF ObjectRecord
  <2>5. ObjectShape(x)
    <3>1. x.file # Nobody /\ x.fresh \in BOOLEAN /\ x.missing \in BOOLEAN
      BY <1>2, <2>1, <2>4
    <3> QED
      BY <2>4, <3>1, Zenon DEF ObjectShape, ObjectRecord
  <2>6. KnowsFile(x, f)
    <3>1. x.version = f.version /\ Parse(f).error = "NONE"
      BY <2>1, <2>4
    <3>2. f.version # 5 => ~x.fresh /\ x.compression[1] = OldCodec(f) /\ x.rawmap = f.map
      BY <2>1, <2>4
    <3>3. f.version = 5 => /\ x.unit = f.unit /\ x.compression = f.compression
                           /\ ~Compressed(f.compression) => x.rawmap = f.map
                           /\ Compressed(f.compression) /\ f.mapped => x.rawmap = f.map.mapcrc
                           /\ Compressed(f.compression) /\ ~f.mapped /\ ~x.fresh => \A h \in Hunks : x.rawmap[h].comp = Unwritten
      BY <2>1, <2>4
    <3> QED
      BY <3>1, <3>2, <3>3, Zenon DEF KnowsFile
  <2>7. x.unit \in Nat \ {0} /\ HunkBytes % x.unit = 0 /\ (x.fresh => ~Compressed(f.compression))
    <3>1. CASE n \in DOMAIN OldFiles
      <4>1. f.version \in {3, 4} /\ GuessUnitbytes(f.meta) \in Nat \ {0} /\ HunkBytes % GuessUnitbytes(f.meta) = 0
        BY <1>4, <2>1, <3>1, OldFacts, Zenon DEF f
      <4> QED
        BY <2>1, <2>4, <4>1
    <3>2. CASE n \notin DOMAIN OldFiles
      <4>1. NewInv(n)
        BY <1>1, <1>4, <3>2 DEF f
      <4>2. f.version = 5 /\ f.unit \in Nat \ {0} /\ HunkBytes % f.unit = 0
        BY <4>1, Zenon DEF NewInv, NewFile, f
      <4> QED
        BY <2>1, <2>4, <4>2
    <3> QED
      BY <3>1, <3>2
  <2>8. KnowsParent(chd[o], disk[n])'
    <3>1. chd'[o].parent = parent /\ chd'[o].missing = y.missing /\ disk'[n].parentsha1 = f.parentsha1
      BY <1>1, <2>3, <2>4 DEF f
    <3>2. CASE parent = Nobody
      BY <2>1, <3>1, <3>2 DEF KnowsParent
    <3>3. CASE parent # Nobody
      <4>1. parent \in Objs /\ parent # o /\ Opened(parent) /\ ~chd[parent].fresh
        BY <1>1, <3>3 DEF Parents, NoWriter
      <4>2. chd'[parent] = chd[parent] /\ disk'[chd[parent].file] = disk[chd[parent].file]
        BY <1>1, <4>1 DEF IInv, TypeInv
      <4>3. parent \in OpenObjs' /\ Sha1(parent)' = Sha1(parent) /\ ~chd'[parent].fresh
        BY <4>1, <4>2 DEF OpenObjs, Opened, Sha1
      <4> QED
        BY <2>1, <3>1, <3>3, <4>3 DEF KnowsParent
    <3> QED
      BY <3>2, <3>3
  <2>9. ObjectInv(o)' /\ chd'[o].file = n
    <3>1. chd'[o].file = n /\ chd'[o].unit \in Nat \ {0} /\ HunkBytes % chd'[o].unit = 0 /\ disk'[n] = f /\ f # NoFile
      BY <1>1, <2>3, <2>4, <2>7 DEF f
    <3>2. KnowsFile(chd[o], disk[n])'
      BY <2>3, <2>6, <3>1
    <3>3. chd'[o].fresh => ~Compressed(disk'[n].compression)
      BY <2>3, <2>7, <3>1
    <3> QED
      BY <1>2, <2>8, <3>1, <3>2, <3>3 DEF ObjectInv
  <2>10. ObjectShape(chd'[o]) /\ chd'[o].parent # o
    BY <1>1, <1>2, <2>3, <2>4, <2>5
  <2>11. chd'[o].file # Nobody => chd'[o].file = n /\ ObjectInv(o)'
    BY <2>9
  <2>12. chd'[o].fresh => NoWriter \/ chd[o].fresh
    BY <1>1
  <2> QED
    BY <1>2, <1>3, <1>5, <1>6, <2>10, <2>11, <2>12, StepKeeps, Zenon
<1> QED
  BY <1>7, <1>8

-----------------------------------------------------------------------------
(* Finished files can be opened *)

\* A file of the current version opens, with its parent or without one, if its map loads.
LEMMA NewOpens ==
  ASSUME NEW f, NEW contents, NewFile(f, contents),
         Compressed(f.compression) => f.mapped,
         Compressed(f.compression) => NoError(DecompressMap(f.map, HunkCount, FileBytes, HunkBytes \div f.unit))
  PROVE  NoError(OpenCommon(f, FALSE, Nobody))
<1> DEFINE p == Parse(f).data
           y == WithParent(f, p, Nobody).data
<1>1. f.version = 5 /\ Parse(f).error = "NONE"
  BY NewParses
<1>2. /\ ObjectRecord(p) /\ p.parent = Nobody /\ p.missing = FALSE /\ p.version = f.version
      /\ f.version = 5 => p.unit = f.unit /\ p.compression = f.compression
  BY <1>1, ParsedFacts
<1>3. NoError(WithParent(f, p, Nobody))
  BY DEF WithParent, Ok, NoError
<1> HIDE DEF p
<1>4. Linked(f, p, y, Nobody)
  <2>1. Parsed(p)
    BY <1>2 DEF Parsed
  <2> QED
    BY <1>3, <2>1, LinkedFacts
<1> HIDE DEF y
<1>5. y.version = 5 /\ y.unit = f.unit /\ y.compression = f.compression
  BY <1>1, <1>2, <1>4 DEF Linked
<1>6. NoError(LoadMap(f, y))
  <2> DEFINE d == DecompressMap(f.map, HunkCount, FileBytes, UnitsPerHunk(y))
             list == y.compression
  <2>1. ~(\E k \in DOMAIN list : list[k] \notin KnownCodecs \cup {"none"})
    BY <1>5 DEF NewFile
  <2>2. ~(y.version < 5)
    BY <1>5
  <2>3. Compressed(list) => f.mapped /\ d.error = "NONE"
    BY <1>5 DEF UnitsPerHunk, NoError
  <2>4. LoadMap(f, y) =
          IF \E k \in DOMAIN list : list[k] \notin KnownCodecs \cup {"none"} THEN Err("UNKNOWN_COMPRESSION")
          ELSE IF y.version < 5 \/ ~Compressed(list) THEN Ok([y EXCEPT !.rawmap = f.map])
          ELSE IF ~f.mapped THEN Ok([y EXCEPT !.rawmap = [h \in Hunks |-> Entry(Unwritten, 0, 0, 0)]])
          ELSE IF d.error # "NONE" THEN Err(d.error) ELSE Ok([y EXCEPT !.rawmap = d.rawmap])
    BY Zenon DEF LoadMap
  <2>5. \A z : NoError(Ok(z))
    BY DEF NoError, Ok
  <2> HIDE DEF d, list
  <2>6. CASE ~Compressed(list)
    <3>1. LoadMap(f, y) = Ok([y EXCEPT !.rawmap = f.map])
      BY <2>1, <2>4, <2>6, Zenon
    <3> QED
      BY <2>5, <3>1, Zenon
  <2>7. CASE Compressed(list)
    <3>1. LoadMap(f, y) = Ok([y EXCEPT !.rawmap = d.rawmap])
      BY <2>1, <2>2, <2>3, <2>4, <2>7, Zenon
    <3> QED
      BY <2>5, <3>1, Zenon
  <2> QED
    BY <2>6, <2>7
<1> DEFINE bad == FALSE /\ (f.version < 5 \/ ~p.writes)
           w == IF Parse(f).error # "NONE" THEN Parse(f) ELSE IF bad THEN Err("FILE_NOT_WRITEABLE") ELSE Ok(Parse(f).data)
           l == IF w.error # "NONE" THEN w ELSE WithParent(f, w.data, Nobody)
           m == IF l.error # "NONE" THEN l ELSE LoadMap(f, l.data)
<1>7. OpenCommon(f, FALSE, Nobody) = m
  BY Zenon DEF OpenCommon, Then, p
<1>8. w.error = "NONE" /\ w.data = p
  BY <1>1 DEF Ok, p
<1> HIDE DEF w
<1>9. l = WithParent(f, p, Nobody) /\ l.error = "NONE" /\ l.data = y
  BY <1>3, <1>8 DEF NoError, y
<1> HIDE DEF l
<1>10. m = LoadMap(f, y)
  BY <1>9
<1> QED
  BY <1>6, <1>7, <1>10 DEF NoError

\* The map of a finished file is one of those that come back.
LEMMA MapFinished ==
  ASSUME NEW f, NEW contents, NewFile(f, contents), Compressed(f.compression), f.mapped, PackedFile(f, contents)
  PROVE  LET rawmap == f.map.mapcrc IN
         rawmap \in [Hunks -> MapEntries(Nat)] /\ FinishedMap(rawmap, HunkBytes \div f.unit)
<1> DEFINE rawmap == f.map.mapcrc
           uph == HunkBytes \div f.unit
<1>1. GoodMap(f, rawmap, contents, HunkCount)
  BY DEF PackedFile
<1> HIDE DEF rawmap, uph
<1>2. InOrder(rawmap) /\ rawmap = [h \in Hunks |-> rawmap[h]] /\ Entries(f, rawmap, contents, HunkCount)
  BY <1>1 DEF GoodMap
<1>3. HunkCount \in Nat /\ FileBytes \in Nat /\ FileBytes > 1 /\ f.end \in Nat /\ HeaderBytes \in Nat
  BY ConstFacts DEF NewFile, HeaderBytes
<1>4. ASSUME NEW h \in Hunks
      PROVE  LET e == rawmap[h] IN
             /\ e \in MapEntries(Nat)
             /\ \/ e.comp \in 0..3 /\ e.length = FileBytes - 1
                \/ e.comp = NONE /\ e.length = FileBytes
                \/ e.comp = SELF /\ e.length = 0 /\ e.crc = 0 /\ e.offset \in 0..(h - 2)
                \/ e.comp = PARENT /\ e.length = 0 /\ e.crc = 0 /\ e.offset \in 0..((HunkCount - 1) * uph)
  <2> DEFINE e == rawmap[h]
  <2>1. BlockEntry(f, e, contents[h]) \/ SelfEntry(rawmap, e, contents, h) \/ ParentEntry(f, e)
    <3>1. ~(h > HunkCount)
      BY <1>3 DEF Hunks
    <3> QED
      BY <1>2, <3>1 DEF Entries
  <2> HIDE DEF e
  <2>2. CASE BlockEntry(f, e, contents[h])
    <3>1. /\ e = Entry(e.comp, e.length, e.offset, e.crc) /\ e.comp \in 0..NONE /\ e.offset \in DOMAIN f.blocks
          /\ e.length = (IF e.comp = NONE THEN FileBytes ELSE FileBytes - 1) /\ e.crc \in {CrcOf(d) : d \in Contents}
      BY <2>2 DEF BlockEntry, Stored
    <3>2. e.offset \in Nat
      <4>1. e.offset \in HeaderBytes..(f.end - 1)
        BY <3>1 DEF NewFile
      <4> QED
        BY <1>3, <4>1
    <3>3. e.comp \in 0..PARENT /\ (e.comp \in 0..3 \/ e.comp = NONE) /\ ~(NONE \in 0..3)
      BY <3>1, CompFacts
    <3>4. e \in MapEntries(Nat)
      BY <3>1, <3>2, <3>3, Zenon DEF MapEntries, Entry
    <3> QED
      BY <3>1, <3>3, <3>4 DEF e
  <2>3. CASE SelfEntry(rawmap, e, contents, h)
    <3>1. e = Entry(SELF, 0, e.offset, 0) /\ e.offset \in 0..(h - 2)
      BY <2>3 DEF SelfEntry
    <3>2. e.offset \in Nat /\ SELF \in 0..PARENT
      BY <3>1, CompFacts DEF Hunks
    <3>3. e.comp = SELF /\ e.length = 0 /\ e.crc = 0
      BY <3>1 DEF Entry
    <3>4. e \in MapEntries(Nat)
      BY <3>1, <3>2 DEF MapEntries, Entry
    <3> QED
      BY <3>1, <3>3, <3>4 DEF e
  <2>4. CASE ParentEntry(f, e)
    <3>1. e = Entry(PARENT, 0, e.offset, 0) /\ e.offset \in 0..((HunkCount - 1) * uph)
      BY <2>4 DEF ParentEntry, uph
    <3>2. e.offset \in Nat /\ PARENT \in 0..PARENT
      BY <3>1, CompFacts
    <3>3. e.comp = PARENT /\ e.length = 0 /\ e.crc = 0
      BY <3>1 DEF Entry
    <3>4. e \in MapEntries(Nat)
      BY <3>1, <3>2 DEF MapEntries, Entry
    <3> QED
      BY <3>1, <3>3, <3>4 DEF e
  <2> QED
    BY <2>1, <2>2, <2>3, <2>4
<1>5. rawmap \in [Hunks -> MapEntries(Nat)]
  BY <1>2, <1>4, Zenon
<1>6. FinishedMap(rawmap, uph)
  BY <1>2, <1>4, Zenon DEF FinishedMap
<1> QED
  BY <1>5, <1>6 DEF rawmap, uph

\* Every finished file opens if finished maps come back, which is what compress_v5_map
\* and decompress_v5_map are for.
LEMMA FinishedOpensHolds ==
  ASSUME IInv, MapsComeBack(Nat)
  PROVE  FinishedOpens
<1> SUFFICES ASSUME NEW n \in NewFiles, disk[n] # NoFile, disk[n].mapped,
                    Compressed(disk[n].compression) => ~disk[n].map.overflow
             PROVE  OpenCommon(disk[n], FALSE, Nobody).error = "NONE"
  BY DEF FinishedOpens, NewFiles
<1> DEFINE f == disk[n]
           d == DecompressMap(f.map, HunkCount, FileBytes, HunkBytes \div f.unit)
<1>1. NewFile(f, truth[n]) /\ (Compressed(f.compression) => PackedFile(f, truth[n]))
  <2>1. NewInv(n)
    BY DEF IInv, FileInv, NewFiles
  <2> QED
    BY <2>1 DEF NewInv
<1> HIDE DEF f
<1>2. ASSUME Compressed(f.compression) PROVE NoError(d)
  <2> DEFINE rawmap == f.map.mapcrc
             uph == HunkBytes \div f.unit
  <2>1. rawmap \in [Hunks -> MapEntries(Nat)] /\ FinishedMap(rawmap, uph)
    BY <1>1, <1>2, MapFinished DEF f
  <2>2. PICK b \in Beyond : f.map = CompressMap(rawmap, uph, b)
    BY <1>1, <1>2 DEF PackedFile, f
  <2>3. f.unit \in 1..HunkBytes /\ HunkBytes % f.unit = 0
    <3>1. f.unit \in Nat \ {0} /\ HunkBytes % f.unit = 0
      BY <1>1 DEF NewFile
    <3> QED
      BY <3>1, ConstFacts, UnitsInHunks
  <2>4. ~f.map.overflow
    BY <1>2 DEF f
  <2> HIDE DEF rawmap, uph, d
  <2>5. DecompressMap(CompressMap(rawmap, uph, b), HunkCount, FileBytes, uph).error = "NONE"
    BY <2>1, <2>2, <2>3, <2>4, Zenon DEF MapsComeBack, uph
  <2> QED
    BY <2>2, <2>5 DEF NoError, d, uph
<1>3. Compressed(f.compression) => f.mapped
  BY DEF f
<1>4. NoError(OpenCommon(f, FALSE, Nobody))
  BY <1>1, <1>2, <1>3, NewOpens
<1> QED
  BY <1>4 DEF NoError, f

-----------------------------------------------------------------------------
(* Every reachable state *)

LEMMA NextKeeps ==
  ASSUME IInv, [Next]_vars
  PROVE  IInv'
<1>1. ASSUME NEW o \in Objs, NEW p \in Objs \cup {Nobody}, NEW n \in Uses[o], NEW c \in Compressions[o], NEW u \in Units,
             Create(o, n, c, u, p)
      PROVE  IInv'
  BY <1>1, CreateKeeps
<1>2. ASSUME NEW o \in Objs, NEW p \in Objs \cup {Nobody}, NEW n \in Uses[o], NEW w \in BOOLEAN, Open(o, n, w, p)
      PROVE  IInv'
  BY <1>2, OpenKeeps
<1>3. ASSUME NEW o \in Objs, Close(o)
      PROVE  IInv'
  BY <1>3, CloseKeeps
<1>4. ASSUME NEW o \in Objs, NEW d \in Contents, AppendHunk(o, d)
      PROVE  IInv'
  BY <1>4, AppendHunkKeeps
<1>5. ASSUME NEW o \in Objs, NEW done \in 1..3, NEW b \in Beyond, Finalize(o, done, b)
      PROVE  IInv'
  BY <1>5, FinalizeKeeps
<1>6. ASSUME NEW o \in Objs, NEW h \in Hunks, NEW d \in Contents, WriteHunk(o, h, d)
      PROVE  IInv'
  BY <1>6, WriteHunkKeeps
<1>7. ASSUME NEW o \in Objs, NEW tag \in Tags[o], WriteMetadata(o, tag)
      PROVE  IInv'
  BY <1>7, WriteMetadataKeeps
<1>8. ASSUME NEW n \in Fragile, Damage(n)
      PROVE  IInv'
  <2>1. n \in Files
    BY ChdAssumption, Zenon
  <2> QED
    BY <1>8, <2>1, DamageKeeps
<1>9. CASE UNCHANGED vars
  BY <1>9, StutterKeeps
<1> QED
  BY <1>1, <1>2, <1>3, <1>4, <1>5, <1>6, <1>7, <1>8, <1>9, Zenon DEF Next

\* The inductive invariant holds in every state that creating, filling, finishing,
\* opening and reading files, and damage to them, can reach.
THEOREM ChdInvariant == Spec => []IInv
<1>1. Init => IInv
  BY InitHolds
<1>2. IInv /\ [Next]_vars => IInv'
  BY NextKeeps
<1> QED
  BY <1>1, <1>2, PTL DEF Spec

\* Hunks come back: what read_hunk returns is what was stored, through copies, parents of
\* the same units, differences and old versions, also when a block is damaged; a finished
\* file opens, and all of its hunks can be read.  Uncompressed files are no parents (their
\* differences name none), and maps come back.
THEOREM HunksComeBack ==
  ASSUME ~UncompressedParents, MapsComeBack(Nat)
  PROVE  Spec => []HunksReadBack
<1>1. IInv => HunksReadBack
  BY ReadBackHolds, FinishedReadsHolds, FinishedOpensHolds DEF HunksReadBack
<1> QED
  BY <1>1, ChdInvariant, PTL

\* Whatever the order of filling, of metadata and of the writes at the end, a file that
\* was finished has the hashes of its data, and hunk_info accounts for all of its blocks.
THEOREM FilesDescribeThemselves == Spec => []FileDescribesItself
<1>1. IInv => FileDescribesItself
  BY HashesTrueHolds, InfoAccountsHolds DEF FileDescribesItself
<1> QED
  BY <1>1, ChdInvariant, PTL

\* The ways around read_hunk agree with it: a difference inherits what its parent held
\* when it was made, and codec_process_hunk hands out what read_hunk decodes.
THEOREM OtherWaysAgree ==
  ASSUME ~UncompressedParents
  PROVE  Spec => []WaysAgree
<1>1. IInv => WaysAgree
  BY InheritsHolds, ProcessMatchesReadHolds DEF WaysAgree
<1> QED
  BY <1>1, ChdInvariant, PTL
=============================================================================
