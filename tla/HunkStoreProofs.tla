--------------------------- MODULE HunkStoreProofs ---------------------------
(***************************************************************************)
(* Proofs about the uncompressed hunk store of lib/util/chd.cpp, for any   *)
(* hunk size, hunk count, contents, parent, metadata sizes and pattern of  *)
(* I/O failures.                                                           *)
(***************************************************************************)
EXTENDS HunkStore, TLAPS

\* Header, map and metadata lie inside the file.
OtherInFile == \A u \in other : u \in Nat /\ u < fileLen

StoreTyped ==
  /\ rawmap \in [Hunks -> 0..MaxBlocks]
  /\ diskmap \in [Hunks -> 0..MaxBlocks]
  /\ disk \in [Blocks -> Contents]
  /\ fileLen \in Nat

CacheTyped == cachehunk \in Hunks \cup {NoHunk} /\ cache \in Contents

StoreInv == StoreTyped /\ MapsAgree /\ OtherInFile /\ NoAliasing
IInv == StoreInv /\ CacheTyped

-----------------------------------------------------------------------------
(* Arithmetic of blocks *)

LEMMA Sizes == /\ UnitsPerHunk \in Nat /\ UnitsPerHunk > 0 /\ MaxBlocks \in Nat
               /\ HunkCount \in Nat /\ HeaderUnits \in Nat /\ HeaderUnits > 0
BY SizeAssumption, FileAssumption

\* file_append rounds up: the block it returns starts at or after the end of file.
LEMMA RoundsUp ==
  ASSUME NEW n \in Nat, NEW k \in Nat, k > 0
  PROVE  /\ (n + k - 1) \div k \in Nat
         /\ ((n + k - 1) \div k) * k >= n
<1> DEFINE q == (n + k - 1) \div k
<1>1. /\ q \in Int
      /\ n + k - 1 = k * q + ((n + k - 1) % k)
      /\ (n + k - 1) % k \in 0..(k - 1)
  OBVIOUS
<1>2. q * k = k * q
  BY <1>1
<1>3. q \in Nat
  BY <1>1
<1> HIDE DEF q
<1>4. q * k >= n
  BY <1>1, <1>2
<1> QED
  BY <1>3, <1>4 DEF q

LEMMA NextBlock ==
  ASSUME NEW b \in Nat, NEW k \in Nat
  PROVE  (b + 1) * k = b * k + k /\ b * k \in Nat
OBVIOUS

LEMMA AppendBlockFacts ==
  ASSUME StoreTyped
  PROVE  /\ AppendBlock \in Nat
         /\ AppendBlock * UnitsPerHunk >= fileLen
         /\ AppendBlock * UnitsPerHunk \in Nat
         /\ (AppendBlock + 1) * UnitsPerHunk = AppendBlock * UnitsPerHunk + UnitsPerHunk
<1>1. fileLen \in Nat
  BY DEF StoreTyped
<1>2. AppendBlock \in Nat /\ AppendBlock * UnitsPerHunk >= fileLen
  BY <1>1, Sizes, RoundsUp DEF AppendBlock
<1> QED
  BY <1>2, Sizes, NextBlock

\* Blocks are whole numbers of units of the file.
LEMMA RawmapFacts ==
  ASSUME StoreTyped, NEW h \in Hunks
  PROVE  /\ rawmap[h] \in Nat
         /\ rawmap[h] * UnitsPerHunk \in Nat
         /\ (rawmap[h] + 1) * UnitsPerHunk = rawmap[h] * UnitsPerHunk + UnitsPerHunk
<1>1. rawmap[h] \in Nat
  BY Sizes DEF StoreTyped
<1> QED
  BY <1>1, Sizes, NextBlock

-----------------------------------------------------------------------------
(* The store *)

\* A file that only grows, and takes only new units for other things, keeps every
\* block where it was.
LEMMA GrowInv ==
  ASSUME StoreInv, UNCHANGED <<rawmap, diskmap>>, disk' \in [Blocks -> Contents],
         fileLen' \in Nat, fileLen' >= fileLen,
         \A u \in other' : u \in other \/ (u \in Nat /\ fileLen <= u /\ u < fileLen')
  PROVE  StoreInv'
<1>1. StoreTyped' /\ MapsAgree'
  BY DEF StoreInv, StoreTyped, MapsAgree
<1>2. fileLen \in Nat
  BY DEF StoreInv, StoreTyped
<1>3. OtherInFile'
  BY <1>2 DEF StoreInv, OtherInFile
<1>4. NoAliasing'
  <2> SUFFICES ASSUME NEW h \in Hunks, rawmap[h] # 0
               PROVE  /\ (rawmap[h] + 1) * UnitsPerHunk <= fileLen'
                      /\ BlockUnits(rawmap[h]) \cap other' = {}
                      /\ \A g \in Hunks : rawmap[g] = rawmap[h] => g = h
    BY DEF NoAliasing, BlockUnits
  <2>1. /\ (rawmap[h] + 1) * UnitsPerHunk <= fileLen
        /\ BlockUnits(rawmap[h]) \cap other = {}
        /\ \A g \in Hunks : rawmap[g] = rawmap[h] => g = h
    BY DEF StoreInv, NoAliasing
  <2>2. /\ rawmap[h] * UnitsPerHunk \in Nat
        /\ (rawmap[h] + 1) * UnitsPerHunk = rawmap[h] * UnitsPerHunk + UnitsPerHunk
    BY RawmapFacts DEF StoreInv
  <2>3. (rawmap[h] + 1) * UnitsPerHunk <= fileLen'
    BY <1>2, <2>1, <2>2, Sizes
  <2>4. ASSUME NEW u \in BlockUnits(rawmap[h]) PROVE u < fileLen /\ u \in Int
    <3> DEFINE top == (rawmap[h] + 1) * UnitsPerHunk
    <3>1. u \in Int /\ u <= top - 1
      BY <2>2, Sizes DEF BlockUnits
    <3>2. top \in Nat /\ top <= fileLen
      BY <2>1, <2>2, Sizes
    <3> HIDE DEF top
    <3> QED
      BY <1>2, <3>1, <3>2
  <2>5. BlockUnits(rawmap[h]) \cap other' = {}
    BY <1>2, <2>1, <2>4
  <2> QED
    BY <2>1, <2>3, <2>5
<1> QED
  BY <1>1, <1>3, <1>4 DEF StoreInv

\* A block appended to the file is clear of everything that was there.
LEMMA AppendInv ==
  ASSUME StoreInv, NEW h \in Hunks, NEW buf \in Contents, rawmap[h] = 0,
         AppendBlock <= MaxBlocks,
         disk' = [disk EXCEPT ![AppendBlock] = buf],
         fileLen' = (AppendBlock + 1) * UnitsPerHunk,
         rawmap' = [rawmap EXCEPT ![h] = AppendBlock],
         \/ diskmap' = [diskmap EXCEPT ![h] = AppendBlock]
         \/ diskmap' = diskmap,
         UNCHANGED other
  PROVE  StoreInv'
<1> DEFINE B == AppendBlock
           U == UnitsPerHunk
<1>1. /\ B \in Nat /\ B * U >= fileLen /\ B * U \in Nat
      /\ (B + 1) * U = B * U + U /\ U \in Nat /\ U > 0 /\ fileLen \in Nat
  BY AppendBlockFacts, Sizes DEF StoreInv, StoreTyped
<1>2. B \in 0..MaxBlocks
  BY <1>1, Sizes
<1>3. StoreTyped'
  <2>1. fileLen' \in Nat
    BY <1>1
  <2>2. disk' \in [Blocks -> Contents]
    BY DEF StoreInv, StoreTyped
  <2>3. rawmap' \in [Hunks -> 0..MaxBlocks]
    BY <1>2 DEF StoreInv, StoreTyped
  <2>4. diskmap' \in [Hunks -> 0..MaxBlocks]
    BY <1>2 DEF StoreInv, StoreTyped
  <2> QED
    BY <2>1, <2>2, <2>3, <2>4 DEF StoreTyped
<1>4. /\ rawmap'[h] = B
      /\ \A g \in Hunks \ {h} : rawmap'[g] = rawmap[g]
      /\ \A g \in Hunks \ {h} : diskmap'[g] = diskmap[g]
      /\ diskmap'[h] \in {0, B}
  BY DEF StoreInv, StoreTyped, MapsAgree
<1>5. MapsAgree'
  BY <1>4 DEF StoreInv, MapsAgree
<1>6. fileLen' \in Nat /\ fileLen' = B * U + U /\ fileLen < fileLen'
  BY <1>1
<1>7. OtherInFile'
  BY <1>1, <1>6 DEF StoreInv, OtherInFile
<1>8. ASSUME NEW g \in Hunks, g # h, rawmap[g] # 0
      PROVE  /\ rawmap[g] # B
             /\ (rawmap[g] + 1) * U <= fileLen'
             /\ BlockUnits(rawmap[g]) \cap other = {}
  <2>1. (rawmap[g] + 1) * U <= fileLen /\ BlockUnits(rawmap[g]) \cap other = {}
    BY <1>8 DEF StoreInv, NoAliasing
  <2>2. (rawmap[g] + 1) * U \in Nat
    <3>1. /\ rawmap[g] * U \in Nat
          /\ (rawmap[g] + 1) * U = rawmap[g] * U + U
      BY RawmapFacts DEF StoreInv
    <3> QED
      BY <1>1, <3>1
  <2>3. ASSUME rawmap[g] = B PROVE FALSE
    <3>1. (B + 1) * U <= fileLen
      BY <2>1, <2>3
    <3> HIDE DEF B, U
    <3> QED
      BY <1>1, <3>1
  <2>4. (rawmap[g] + 1) * U <= fileLen'
    <3> DEFINE top == (rawmap[g] + 1) * U
    <3>1. top \in Nat /\ top <= fileLen
      BY <2>1, <2>2
    <3> HIDE DEF top
    <3>2. top <= fileLen'
      BY <1>1, <1>6, <3>1
    <3> QED
      BY <3>2 DEF top
  <2> QED
    BY <2>1, <2>3, <2>4
<1>9. BlockUnits(B) \cap other = {}
  <2>1. ASSUME NEW u \in BlockUnits(B) PROVE u >= B * U /\ u \in Int
    BY <1>1 DEF BlockUnits
  <2> HIDE DEF B, U
  <2>2. ASSUME NEW u \in BlockUnits(B), u \in other PROVE FALSE
    BY <1>1, <2>1, <2>2 DEF StoreInv, OtherInFile
  <2> QED
    BY <2>2
<1>10. NoAliasing'
  <2> SUFFICES ASSUME NEW g \in Hunks, rawmap'[g] # 0
               PROVE  /\ (rawmap'[g] + 1) * U <= fileLen'
                      /\ BlockUnits(rawmap'[g]) \cap other = {}
                      /\ \A k \in Hunks : rawmap'[k] = rawmap'[g] => k = g
    BY DEF NoAliasing, BlockUnits
  <2>1. CASE g = h
    <3>1. rawmap'[g] = B
      BY <1>4, <2>1
    <3>2. ASSUME NEW k \in Hunks, rawmap'[k] = B PROVE k = g
      BY <1>4, <1>8, <2>1, <3>1, <3>2
    <3>3. (B + 1) * U <= fileLen'
      BY <1>1, <1>6
    <3> QED
      BY <1>9, <3>1, <3>2, <3>3
  <2>2. CASE g # h
    <3>1. rawmap'[g] = rawmap[g] /\ rawmap[g] # 0
      BY <1>4, <2>2
    <3>2. ASSUME NEW k \in Hunks, rawmap'[k] = rawmap'[g] PROVE k = g
      <4>1. CASE k = h
        BY <1>4, <1>8, <2>2, <3>1, <3>2, <4>1
      <4>2. CASE k # h
        BY <1>4, <2>2, <3>1, <3>2, <4>2 DEF StoreInv, NoAliasing
      <4> QED
        BY <4>1, <4>2
    <3> QED
      BY <1>8, <2>2, <3>1, <3>2
  <2> QED
    BY <2>1, <2>2
<1> QED
  BY <1>3, <1>5, <1>7, <1>10 DEF StoreInv

\* Every outcome of write_hunk.
LEMMA StoreHunkInv ==
  ASSUME StoreInv, NEW h \in Hunks, NEW buf \in Contents, UNCHANGED other,
         \/ SkipZeros(h, buf) \/ Allocate(h, buf)
         \/ Overwrite(h, buf) \/ StoreFails(h, buf)
  PROVE  StoreInv'
<1>1. fileLen \in Nat /\ disk \in [Blocks -> Contents] /\ rawmap[h] \in 0..MaxBlocks
  BY DEF StoreInv, StoreTyped
<1>2. CASE SkipZeros(h, buf)
  <2>1. UNCHANGED <<rawmap, diskmap, disk, fileLen>>
    BY <1>2 DEF SkipZeros, storeVars
  <2> QED
    BY <1>1, <2>1, GrowInv
<1>3. CASE Allocate(h, buf)
  BY <1>3, AppendInv DEF Allocate
<1>4. CASE Overwrite(h, buf)
  <2>1. disk' \in [Blocks -> Contents]
    BY <1>1, <1>4 DEF Overwrite
  <2> QED
    BY <1>1, <1>4, <2>1, GrowInv DEF Overwrite
<1>5. CASE AppendFails(h, buf)
  <2>1. (AppendBlock + 1) * UnitsPerHunk \in Nat
    BY AppendBlockFacts, Sizes DEF StoreInv
  <2>2. fileLen' \in Nat /\ fileLen' >= fileLen
    BY <1>1, <1>5, <2>1 DEF AppendFails
  <2> QED
    BY <1>1, <1>5, <2>2, GrowInv DEF AppendFails
<1>6. CASE MapWriteFails(h, buf)
  BY <1>6, AppendInv DEF MapWriteFails
<1>7. CASE OverwriteFails(h, buf)
  <2>1. rawmap[h] \in Blocks
    BY <1>1, <1>7, Sizes DEF OverwriteFails, Blocks
  <2>2. PICK n \in Units :
          disk' = [disk EXCEPT ![rawmap[h]] = Merge(@, 0, n - 1, buf)]
    BY <1>7 DEF OverwriteFails
  <2>3. Merge(disk[rawmap[h]], 0, n - 1, buf) \in Contents
    BY <1>1, <2>1 DEF Merge, Contents
  <2>4. disk' \in [Blocks -> Contents]
    BY <1>1, <2>1, <2>2, <2>3
  <2> QED
    BY <1>1, <1>7, <2>4, GrowInv DEF OverwriteFails
<1> QED
  BY <1>2, <1>3, <1>4, <1>5, <1>6, <1>7 DEF StoreFails

-----------------------------------------------------------------------------
(* The cache, and every call *)

LEMMA FileHunkType ==
  ASSUME StoreTyped, NEW h \in Hunks
  PROVE  FileHunk(h) \in Contents
<1>1. CASE rawmap[h] # 0
  <2>1. rawmap[h] \in Blocks
    BY <1>1, Sizes DEF StoreTyped, Blocks
  <2> QED
    BY <1>1, <2>1 DEF StoreTyped, FileHunk
<1>2. CASE rawmap[h] = 0 /\ Parent # NoParent
  BY <1>2, ParentAssumption DEF FileHunk
<1>3. CASE rawmap[h] = 0 /\ Parent = NoParent
  BY <1>3, ValsAssumption DEF FileHunk, ZeroHunk, Contents
<1> QED
  BY <1>1, <1>2, <1>3

LEMMA CachedType ==
  ASSUME IInv, NEW h \in Hunks
  PROVE  Cached(h) \in Contents
BY FileHunkType DEF IInv, StoreInv, CacheTyped, Cached

LEMMA MergeType ==
  ASSUME NEW old \in Contents, NEW buf \in Contents, NEW lo, NEW hi
  PROVE  Merge(old, lo, hi, buf) \in Contents
BY DEF Merge, Contents

LEMMA SameStore ==
  ASSUME StoreInv, UNCHANGED <<storeVars, other>>
  PROVE  StoreInv'
BY GrowInv DEF storeVars, StoreInv, StoreTyped

LEMMA WriteHunkInv ==
  ASSUME IInv, NEW h \in Hunks, NEW buf \in Contents, WriteHunk(h, buf)
  PROVE  IInv'
<1>1. StoreInv'
  BY StoreHunkInv DEF IInv, WriteHunk
<1>2. CacheTyped'
  BY DEF IInv, CacheTyped, WriteHunk
<1> QED
  BY <1>1, <1>2 DEF IInv

LEMMA WriteBytesInv ==
  ASSUME IInv, NEW h \in Hunks, NEW lo \in Units, NEW hi \in lo..(UnitsPerHunk - 1),
         NEW buf \in Contents, WriteBytes(h, lo, hi, buf)
  PROVE  IInv'
<1> DEFINE merged == Merge(Cached(h), lo, hi, buf)
<1>1. merged \in Contents
  BY CachedType, MergeType
<1>2. CASE WholeHunk(lo, hi) /\ h # cachehunk /\ StoreHunk(h, buf) /\ UNCHANGED cacheVars
  <2>1. StoreInv'
    BY <1>2, StoreHunkInv DEF IInv, WriteBytes, StoreHunk
  <2> QED
    BY <1>2, <2>1 DEF IInv, CacheTyped, cacheVars
<1>3. CASE cache' = merged /\ cachehunk' = h /\ StoreHunk(h, merged)
  <2> HIDE DEF merged
  <2>1. StoreInv'
    BY <1>1, <1>3, StoreHunkInv DEF IInv, WriteBytes, StoreHunk
  <2> QED
    BY <1>1, <1>3, <2>1 DEF IInv, CacheTyped
<1> QED
  BY <1>2, <1>3 DEF WriteBytes

LEMMA ReadBytesInv ==
  ASSUME IInv, NEW h \in Hunks, NEW lo \in Units, NEW hi \in lo..(UnitsPerHunk - 1),
         ReadBytes(h, lo, hi)
  PROVE  IInv'
<1>1. StoreInv'
  BY SameStore DEF IInv, ReadBytes
<1>2. CacheTyped'
  BY CachedType DEF IInv, CacheTyped, ReadBytes, cacheVars
<1> QED
  BY <1>1, <1>2 DEF IInv

LEMMA LoadFailsInv ==
  ASSUME IInv, NEW h \in Hunks, LoadFails(h)
  PROVE  IInv'
<1>1. StoreInv'
  BY SameStore DEF IInv, LoadFails
<1>2. FileHunk(h) \in Contents /\ cache \in Contents
  BY FileHunkType DEF IInv, StoreInv, CacheTyped
<1>3. cache' \in Contents
  BY <1>2, MergeType DEF LoadFails
<1>4. CacheTyped'
  BY <1>3 DEF IInv, CacheTyped, LoadFails
<1> QED
  BY <1>1, <1>4 DEF IInv

LEMMA AppendMetadataInv ==
  ASSUME IInv, NEW n \in MetaSizes, AppendMetadata(n)
  PROVE  IInv'
<1>1. n \in Nat /\ n > 0 /\ fileLen \in Nat /\ disk \in [Blocks -> Contents]
  BY FileAssumption DEF IInv, StoreInv, StoreTyped
<1>2. fileLen' \in Nat /\ fileLen' >= fileLen
  BY <1>1 DEF AppendMetadata
<1>3. ASSUME NEW u \in other', u \notin other
      PROVE  u \in Nat /\ fileLen <= u /\ u < fileLen'
  BY <1>1, <1>3 DEF AppendMetadata
<1>4. StoreInv'
  BY <1>1, <1>2, <1>3, GrowInv DEF IInv, AppendMetadata
<1>5. CacheTyped'
  BY DEF IInv, CacheTyped, AppendMetadata, cacheVars
<1> QED
  BY <1>4, <1>5 DEF IInv

LEMMA ReopenInv ==
  ASSUME IInv, Reopen
  PROVE  IInv'
<1> USE DEF Reopen
<1>1. StoreTyped' /\ MapsAgree'
  BY DEF IInv, StoreInv, StoreTyped, MapsAgree
<1>2. OtherInFile'
  BY DEF IInv, StoreInv, OtherInFile
<1>3. ASSUME NEW h \in Hunks, rawmap'[h] # 0 PROVE rawmap'[h] = rawmap[h]
  BY <1>3 DEF IInv, StoreInv, MapsAgree
<1>4. NoAliasing'
  <2> SUFFICES ASSUME NEW h \in Hunks, rawmap'[h] # 0
               PROVE  /\ (rawmap'[h] + 1) * UnitsPerHunk <= fileLen
                      /\ BlockUnits(rawmap'[h]) \cap other = {}
                      /\ \A g \in Hunks : rawmap'[g] = rawmap'[h] => g = h
    BY DEF NoAliasing, BlockUnits
  <2>1. rawmap'[h] = rawmap[h]
    BY <1>3
  <2>2. /\ (rawmap[h] + 1) * UnitsPerHunk <= fileLen
        /\ BlockUnits(rawmap[h]) \cap other = {}
        /\ \A g \in Hunks : rawmap[g] = rawmap[h] => g = h
    BY <2>1 DEF IInv, StoreInv, NoAliasing
  <2>3. ASSUME NEW g \in Hunks, rawmap'[g] = rawmap'[h] PROVE g = h
    BY <1>3, <2>1, <2>2, <2>3
  <2> QED
    BY <2>1, <2>2, <2>3
<1>5. CacheTyped'
  BY ValsAssumption DEF CacheTyped, ZeroHunk, Contents
<1> QED
  BY <1>1, <1>2, <1>4, <1>5 DEF IInv, StoreInv

LEMMA InitInv == Init => IInv
<1> SUFFICES ASSUME Init PROVE IInv
  OBVIOUS
<1> USE DEF Init
<1>1. ZeroHunk \in Contents
  BY ValsAssumption DEF ZeroHunk, Contents
<1>2. StoreTyped /\ CacheTyped
  BY <1>1, Sizes DEF StoreTyped, CacheTyped
<1>3. OtherInFile
  BY Sizes DEF OtherInFile
<1>4. MapsAgree /\ NoAliasing
  BY DEF MapsAgree, NoAliasing
<1> QED
  BY <1>2, <1>3, <1>4 DEF IInv, StoreInv

LEMMA NextInv == IInv /\ [Next]_vars => IInv'
<1> SUFFICES ASSUME IInv, [Next]_vars PROVE IInv'
  OBVIOUS
<1>1. ASSUME NEW h \in Hunks, ReadHunk(h) PROVE IInv'
  BY <1>1, SameStore DEF IInv, ReadHunk, CacheTyped, cacheVars
<1>2. CASE UNCHANGED vars
  BY <1>2, SameStore DEF IInv, vars, CacheTyped, cacheVars
<1> QED
  BY <1>1, <1>2, WriteHunkInv, WriteBytesInv, ReadBytesInv, LoadFailsInv,
     AppendMetadataInv, ReopenInv DEF Next

\* The map, the cache and the end of the file of an uncompressed CHD stay within
\* their types: m_rawmap holds block numbers, m_cachehunk a hunk or none.
THEOREM StoreCorrectlyTyped == Spec => []TypeOK
<1>1. IInv => TypeOK
  BY DEF IInv, StoreInv, StoreTyped, OtherInFile, CacheTyped, TypeOK
<1> QED
  BY <1>1, InitInv, NextInv, PTL DEF Spec

\* write_hunk's allocation never makes two hunks, or a hunk and the header, map or
\* metadata, share bytes of the file, whatever fails and whenever it is reopened.
THEOREM BlocksNeverAlias == Spec => []NoAliasing
<1>1. IInv => NoAliasing
  BY DEF IInv, StoreInv
<1> QED
  BY <1>1, InitInv, NextInv, PTL DEF Spec

\* Whatever write fails between the change of m_rawmap and that of the file, an entry of
\* the map in the file is none or the one in memory.
THEOREM FileMapLags == Spec => []MapsAgree
<1>1. IInv => MapsAgree
  BY DEF IInv, StoreInv
<1> QED
  BY <1>1, InitInv, NextInv, PTL DEF Spec


-----------------------------------------------------------------------------
(* The array of hunks *)

\* What holds of the store besides IInv while no file operation fails, there is no
\* parent and writes go through write_bytes: the file's map is up to date, the cached
\* hunk is what the file holds, and the file is not empty, so block 0 is never taken.
Clean ==
  /\ diskmap = rawmap
  /\ fileLen > 0
  /\ \A h \in Hunks : h = cachehunk => cache = FileHunk(h)
ArrayInv == IInv /\ Clean

\* The users the refinement is about.  A zero write to an unallocated hunk is dropped,
\* so a parent, or a tail the scan leaves out, would show through; write_hunk does not
\* refresh the cache when it overwrites; a failed load leaves m_cache half filled.
PlainUse == /\ Parent = NoParent /\ Scanned = UnitsPerHunk
            /\ ~HunkCalls /\ ~ReadMayFail /\ ~WriteMayFail

\* Blocks appended to the file are new ones.
LEMMA FreshBlock ==
  ASSUME StoreInv, fileLen > 0
  PROVE  AppendBlock # 0 /\ \A g \in Hunks : rawmap[g] # AppendBlock
<1> DEFINE B == AppendBlock
           U == UnitsPerHunk
<1>1. /\ B \in Nat /\ B * U >= fileLen /\ B * U \in Nat
      /\ (B + 1) * U = B * U + U /\ U \in Nat /\ U > 0 /\ fileLen \in Nat
  BY AppendBlockFacts, Sizes DEF StoreInv, StoreTyped
<1>2. B # 0
  <2>1. 0 * U = 0
    BY <1>1
  <2> HIDE DEF B, U
  <2> QED
    BY <1>1, <2>1
<1>3. ASSUME NEW g \in Hunks, rawmap[g] = B PROVE FALSE
  <2>1. (B + 1) * U <= fileLen
    BY <1>2, <1>3 DEF StoreInv, NoAliasing
  <2> HIDE DEF B, U
  <2> QED
    BY <1>1, <2>1
<1> QED
  BY <1>2, <1>3

\* write_hunk stores exactly the hunk it is given.
LEMMA StoreHunkEffect ==
  ASSUME PlainUse, ArrayInv, NEW h \in Hunks, NEW buf \in Contents, StoreHunk(h, buf)
  PROVE  /\ FileHunk(h)' = buf
         /\ \A g \in Hunks : g # h => FileHunk(g)' = FileHunk(g)
         /\ diskmap' = rawmap'
         /\ fileLen' > 0
<1>1. /\ rawmap \in [Hunks -> 0..MaxBlocks] /\ disk \in [Blocks -> Contents]
      /\ fileLen \in Nat /\ fileLen > 0 /\ diskmap = rawmap /\ Parent = NoParent
      /\ MaxBlocks \in Nat
  BY Sizes DEF ArrayInv, IInv, StoreInv, StoreTyped, Clean, PlainUse
<1>2. \A g \in Hunks : rawmap[g] # 0 => rawmap[g] \in Blocks
  BY <1>1 DEF Blocks
<1>3. CASE SkipZeros(h, buf)
  <2>1. rawmap[h] = 0 /\ rawmap' = rawmap /\ disk' = disk /\ diskmap' = diskmap /\ fileLen' = fileLen
    BY <1>3 DEF SkipZeros, storeVars
  <2>2. buf = ZeroHunk
    BY <1>3 DEF SkipZeros, AllZeros, ZeroHunk, PlainUse, Contents, Units
  <2> QED
    BY <1>1, <2>1, <2>2 DEF FileHunk, ZeroHunk
<1>4. CASE Overwrite(h, buf)
  <2>1. /\ rawmap[h] # 0 /\ rawmap' = rawmap /\ diskmap' = diskmap /\ fileLen' = fileLen
        /\ disk' = [disk EXCEPT ![rawmap[h]] = buf]
    BY <1>4 DEF Overwrite
  <2>2. disk'[rawmap[h]] = buf /\ \A b \in Blocks : b # rawmap[h] => disk'[b] = disk[b]
    BY <1>1, <1>2, <2>1
  <2>3. \A g \in Hunks : g # h => rawmap[g] # rawmap[h]
    BY <2>1 DEF ArrayInv, IInv, StoreInv, NoAliasing
  <2> QED
    BY <1>1, <1>2, <2>1, <2>2, <2>3 DEF FileHunk, ZeroHunk
<1>5. CASE Allocate(h, buf)
  <2> DEFINE B == AppendBlock
  <2>1. /\ rawmap[h] = 0 /\ B <= MaxBlocks
        /\ disk' = [disk EXCEPT ![B] = buf]
        /\ rawmap' = [rawmap EXCEPT ![h] = B]
        /\ diskmap' = [diskmap EXCEPT ![h] = B]
        /\ fileLen' = (B + 1) * UnitsPerHunk
    BY <1>5 DEF Allocate
  <2>2. B \in Nat /\ B # 0 /\ \A g \in Hunks : rawmap[g] # B
    BY FreshBlock, AppendBlockFacts DEF ArrayInv, IInv, StoreInv, Clean
  <2>3. fileLen' > 0
    BY <1>1, <2>1, AppendBlockFacts, Sizes DEF ArrayInv, IInv, StoreInv
  <2> HIDE DEF B
  <2>4. B \in Blocks
    BY <1>1, <2>1, <2>2 DEF Blocks
  <2>5. disk'[B] = buf /\ \A b \in Blocks : b # B => disk'[b] = disk[b]
    BY <1>1, <2>1, <2>4
  <2>6. rawmap'[h] = B /\ \A g \in Hunks : g # h => rawmap'[g] = rawmap[g]
    BY <1>1, <2>1
  <2>7. FileHunk(h)' = buf
    BY <2>2, <2>5, <2>6 DEF FileHunk
  <2>8. \A g \in Hunks : g # h => FileHunk(g)' = FileHunk(g)
    BY <1>2, <2>2, <2>5, <2>6 DEF FileHunk, ZeroHunk
  <2> QED
    BY <1>1, <2>1, <2>3, <2>7, <2>8
<1> QED
  BY <1>3, <1>4, <1>5 DEF StoreHunk, StoreFails, PlainUse

\* The array a user sees is the one in the file.
LEMMA CachedIsFile ==
  ASSUME ArrayInv, NEW h \in Hunks
  PROVE  Cached(h) = FileHunk(h) /\ FileHunk(h) \in Contents
BY FileHunkType DEF ArrayInv, IInv, StoreInv, Clean, Cached

\* A step that leaves the file alone leaves the array alone.
LEMMA SameFile ==
  ASSUME rawmap' = rawmap, disk' = disk
  PROVE  \A h \in Hunks : FileHunk(h)' = FileHunk(h)
BY DEF FileHunk, ZeroHunk

\* A write through the cache.
LEMMA WriteBytesArray ==
  ASSUME PlainUse, ArrayInv, IInv', NEW h \in Hunks, NEW lo \in Units,
         NEW hi \in lo..(UnitsPerHunk - 1), NEW buf \in Contents, WriteBytes(h, lo, hi, buf)
  PROVE  Clean' /\ Array!Write(h, lo, hi, buf)
<1> DEFINE merged == Merge(FileHunk(h), lo, hi, buf)
<1>1. Cached(h) = FileHunk(h) /\ FileHunk(h) \in Contents /\ merged \in Contents
  BY CachedIsFile, MergeType
<1>2. /\ reply' = NoReply
      /\ StoreHunk(h, merged)
      /\ \/ h # cachehunk /\ cachehunk' = cachehunk /\ cache' = cache
         \/ cachehunk' = h /\ cache' = merged
  <2>1. CASE WholeHunk(lo, hi) /\ h # cachehunk /\ StoreHunk(h, buf) /\ UNCHANGED cacheVars
    <3>1. merged = buf
      BY <2>1, Sizes DEF WholeHunk, Merge, Contents, Units
    <3> HIDE DEF merged
    <3> QED
      BY <2>1, <3>1 DEF WriteBytes, cacheVars
  <2>2. CASE cache' = Merge(Cached(h), lo, hi, buf) /\ cachehunk' = h
             /\ StoreHunk(h, Merge(Cached(h), lo, hi, buf))
    BY <1>1, <2>2 DEF WriteBytes
  <2> QED
    BY <2>1, <2>2 DEF WriteBytes
<1> HIDE DEF merged
<1>3. /\ FileHunk(h)' = merged
      /\ \A g \in Hunks : g # h => FileHunk(g)' = FileHunk(g)
      /\ diskmap' = rawmap' /\ fileLen' > 0
  BY <1>1, <1>2, StoreHunkEffect
<1>4. \A g \in Hunks : g = cachehunk' => cache' = FileHunk(g)'
  BY <1>2, <1>3 DEF ArrayInv, Clean
<1>5. Clean'
  BY <1>3, <1>4 DEF Clean
<1>6. \A g \in Hunks : Cached(g)' = FileHunk(g)' /\ Cached(g) = FileHunk(g)
  BY <1>4, CachedIsFile DEF Cached
<1>7. [g \in Hunks |-> Cached(g)]'
        = [[g \in Hunks |-> Cached(g)] EXCEPT ![h] = merged]
  BY <1>3, <1>6
<1>8. merged = [u \in Units |-> IF u \in lo..hi THEN buf[u] ELSE [g \in Hunks |-> Cached(g)][h][u]]
  BY <1>1 DEF merged, Merge
<1>9. Array!Write(h, lo, hi, buf)
  BY <1>2, <1>7, <1>8 DEF Array!Write, Array!Units, Units
<1> QED
  BY <1>5, <1>9

\* Calls and reopening that leave the file's hunks alone.
LEMMA QuietArray ==
  ASSUME ArrayInv, rawmap' = rawmap, diskmap' = diskmap, disk' = disk,
         fileLen' \in Nat, fileLen' >= fileLen,
         \/ cachehunk' = cachehunk /\ cache' = cache
         \/ cachehunk' = NoHunk
         \/ cachehunk' \in Hunks /\ cache' = Cached(cachehunk')
  PROVE  Clean' /\ [g \in Hunks |-> Cached(g)]' = [g \in Hunks |-> Cached(g)]
<1>1. \A g \in Hunks : FileHunk(g)' = FileHunk(g) /\ Cached(g) = FileHunk(g)
  BY SameFile, CachedIsFile
<1>2. NoHunk \notin Hunks /\ fileLen \in Nat
  BY Sizes DEF NoHunk, Hunks, ArrayInv, IInv, StoreInv, StoreTyped
<1>3. \A g \in Hunks : g = cachehunk' => cache' = FileHunk(g)'
  BY <1>1, <1>2 DEF ArrayInv, Clean
<1>4. Clean'
  BY <1>2, <1>3 DEF ArrayInv, Clean
<1>5. \A g \in Hunks : Cached(g)' = Cached(g)
  BY <1>1, <1>3 DEF Cached
<1> QED
  BY <1>4, <1>5

LEMMA ArrayInit == PlainUse /\ Init => ArrayInv /\ Array!Init
<1> SUFFICES ASSUME PlainUse, Init PROVE ArrayInv /\ Array!Init
  OBVIOUS
<1>1. IInv
  BY InitInv
<1>2. Clean
  BY Sizes DEF Init, Clean, NoHunk, Hunks
<1>3. ArrayInv
  BY <1>1, <1>2 DEF ArrayInv
<1>4. \A g \in Hunks : Cached(g) \in [Units -> Vals]
  BY <1>3, CachedIsFile DEF Contents
<1> QED
  BY <1>3, <1>4 DEF Init, Array!Init, Array!Hunks, Array!Units, Hunks, Units

LEMMA ArrayStep ==
  PlainUse /\ ArrayInv /\ IInv' /\ [Next]_vars => ArrayInv' /\ [Array!Next]_(Array!vars)
<1> SUFFICES ASSUME PlainUse, ArrayInv, IInv', [Next]_vars
             PROVE  Clean' /\ [Array!Next]_(Array!vars)
  BY DEF ArrayInv
<1> DEFINE arr == [g \in Hunks |-> Cached(g)]
<1>1. fileLen \in Nat
  BY DEF ArrayInv, IInv, StoreInv, StoreTyped
<1>2. ASSUME NEW h \in Hunks, NEW lo \in Units, NEW hi \in lo..(UnitsPerHunk - 1),
             NEW buf \in Contents, WriteBytes(h, lo, hi, buf)
      PROVE  Clean' /\ Array!Next
  <2>1. hi \in Array!Units /\ lo \in Array!Units /\ h \in Array!Hunks /\ buf \in [Array!Units -> Vals]
    BY <1>2, Sizes DEF Array!Units, Array!Hunks, Units, Hunks, Contents
  <2> QED
    BY <1>2, <2>1, WriteBytesArray DEF Array!Next
<1>3. ASSUME NEW h \in Hunks, NEW lo \in Units, NEW hi \in lo..(UnitsPerHunk - 1),
             ReadBytes(h, lo, hi)
      PROVE  Clean' /\ Array!Next
  <2>1. hi \in Array!Units /\ lo \in Array!Units /\ h \in Array!Hunks
    BY <1>3, Sizes DEF Array!Units, Array!Hunks, Units, Hunks
  <2>2. Cached(h) = FileHunk(h)
    BY CachedIsFile
  <2>3. /\ rawmap' = rawmap /\ diskmap' = diskmap /\ disk' = disk /\ fileLen' = fileLen
        /\ reply' = [u \in lo..hi |-> Cached(h)[u]]
        /\ \/ cachehunk' = cachehunk /\ cache' = cache
           \/ cachehunk' = h /\ cache' = Cached(h)
    BY <1>3, <2>2 DEF ReadBytes, storeVars, cacheVars
  <2>4. Clean' /\ arr' = arr
    BY <1>1, <2>3, QuietArray
  <2>5. arr[h] = Cached(h)
    OBVIOUS
  <2>6. Array!Read(h, lo, hi)
    BY <2>3, <2>4, <2>5 DEF Array!Read
  <2> QED
    BY <2>1, <2>4, <2>6 DEF Array!Next
<1>4. ASSUME NEW h \in Hunks, ReadHunk(h) PROVE Clean' /\ Array!Next
  <2>1. 0 \in Array!Units /\ UnitsPerHunk - 1 \in Array!Units /\ h \in Array!Hunks
    BY Sizes DEF Array!Units, Array!Hunks, Hunks
  <2>2. Cached(h) = FileHunk(h) /\ FileHunk(h) \in Contents
    BY CachedIsFile
  <2>3. /\ rawmap' = rawmap /\ diskmap' = diskmap /\ disk' = disk /\ fileLen' = fileLen
        /\ reply' = FileHunk(h) /\ cachehunk' = cachehunk /\ cache' = cache
    BY <1>4 DEF ReadHunk, storeVars, cacheVars
  <2>4. Clean' /\ arr' = arr
    BY <1>1, <2>3, QuietArray
  <2>5. arr[h] = FileHunk(h)
    BY <2>2
  <2>6. FileHunk(h) = [u \in 0..(UnitsPerHunk - 1) |-> FileHunk(h)[u]]
    BY <2>2 DEF Contents, Units
  <2>7. Array!Read(h, 0, UnitsPerHunk - 1)
    BY <2>3, <2>4, <2>5, <2>6 DEF Array!Read
  <2> QED
    BY <2>1, <2>4, <2>7 DEF Array!Next
<1>5. ASSUME NEW n \in MetaSizes, AppendMetadata(n) PROVE Clean' /\ Array!Next
  <2>1. n \in Nat
    BY FileAssumption
  <2>2. /\ rawmap' = rawmap /\ diskmap' = diskmap /\ disk' = disk /\ fileLen' = fileLen + n
        /\ reply' = NoReply /\ cachehunk' = cachehunk /\ cache' = cache
    BY <1>5 DEF AppendMetadata, cacheVars
  <2>3. Clean' /\ arr' = arr
    BY <1>1, <2>1, <2>2, QuietArray
  <2> QED
    BY <2>2, <2>3 DEF Array!Next
<1>6. ASSUME Reopen PROVE Clean' /\ Array!Next
  <2>1. /\ rawmap' = rawmap /\ diskmap' = diskmap /\ disk' = disk /\ fileLen' = fileLen
        /\ reply' = NoReply /\ cachehunk' = NoHunk
    BY <1>6 DEF Reopen, ArrayInv, Clean
  <2>2. Clean' /\ arr' = arr
    BY <1>1, <2>1, QuietArray
  <2> QED
    BY <2>1, <2>2 DEF Array!Next
<1>7. ASSUME UNCHANGED vars PROVE Clean' /\ UNCHANGED Array!vars
  <2>1. /\ rawmap' = rawmap /\ diskmap' = diskmap /\ disk' = disk /\ fileLen' = fileLen
        /\ reply' = reply /\ cachehunk' = cachehunk /\ cache' = cache
    BY <1>7 DEF vars, storeVars, cacheVars
  <2>2. Clean' /\ arr' = arr
    BY <1>1, <2>1, QuietArray
  <2> QED
    BY <2>1, <2>2 DEF Array!vars
<1>8. \A h \in Hunks : ~LoadFails(h) /\ \A buf \in Contents : ~WriteHunk(h, buf)
  BY DEF PlainUse, LoadFails, WriteHunk
<1> QED
  BY <1>2, <1>3, <1>4, <1>5, <1>6, <1>7, <1>8 DEF Next

\* For a user of read_bytes, write_bytes and read_hunk whose file does not fail, a CHD of
\* its own is an array of hunks: no write is lost between the one-hunk cache, the file
\* and a reopening, and none reaches another hunk.
THEOREM StoreIsAnArray ==
  ASSUME PlainUse
  PROVE  Spec => Implements
<1>1. Init => ArrayInv /\ Array!Init
  BY ArrayInit
<1>2. ArrayInv /\ IInv' /\ [Next]_vars => ArrayInv' /\ [Array!Next]_(Array!vars)
  BY ArrayStep
<1> QED
  BY <1>1, <1>2, InitInv, NextInv, PTL DEF Spec, Implements, Array!Spec

=============================================================================
