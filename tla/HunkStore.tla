------------------------------ MODULE HunkStore ------------------------------
(***************************************************************************)
(* An open, uncompressed v5 chd_file (lib/util/chd.cpp): the hunk map, the *)
(* blocks it points to, the one-hunk cache in front of read_bytes and      *)
(* write_bytes, and the parent behind it.  Hunks are UnitsPerHunk units    *)
(* long and file offsets are counted in units.                             *)
(*                                                                         *)
(* read_bytes and write_bytes loop over the hunks of their range; one      *)
(* action is one turn of that loop.  The four bytes of a map entry (1238)  *)
(* are written all or not at all.  An entry is written once, over a zero,  *)
(* so this loses nothing while block numbers fit one byte; a larger one    *)
(* could be cut, and leave in the file the number of another block.        *)
(***************************************************************************)
EXTENDS Integers, FiniteSets

CONSTANTS HunkCount,    \* m_hunkcount
          UnitsPerHunk, \* m_hunkbytes, in units
          Scanned,      \* units covered by write_hunk's scan for zeros, which
                        \* goes by 32-bit words and leaves a shorter tail out
          Vals, Zero,   \* contents of a unit
          Parent,       \* contents of the parent CHD, or NoParent
          NoParent,
          HeaderUnits,  \* header and map, at the start of the file
          MetaSizes,    \* sizes of metadata records appended to the file
          MaxBlocks,    \* bound: blocks the file can grow to
          HunkCalls,    \* the user mixes write_hunk with write_bytes
          ReadMayFail,  \* reading a hunk from the file may fail
          WriteMayFail, \* writing to the file may fail
          NoReply

Hunks == 0..(HunkCount - 1)
Units == 0..(UnitsPerHunk - 1)
Contents == [Units -> Vals]
ZeroHunk == [u \in Units |-> Zero]
Blocks == 1..MaxBlocks
NoHunk == -1   \* m_cachehunk = ~0

ASSUME SizeAssumption ==
  /\ HunkCount \in Nat \ {0} /\ UnitsPerHunk \in Nat \ {0} /\ MaxBlocks \in Nat
  /\ Scanned \in 0..UnitsPerHunk
ASSUME ValsAssumption == Zero \in Vals
ASSUME ParentAssumption ==
  \/ Parent = NoParent
  \/ Parent \in [Hunks -> Contents]
ASSUME FileAssumption ==
  /\ HeaderUnits \in Nat \ {0}
  /\ MetaSizes \subseteq Nat \ {0}
ASSUME FlagAssumption == {HunkCalls, ReadMayFail, WriteMayFail} \subseteq BOOLEAN
ASSUME ReplyAssumption == \A lo, hi \in Units : NoReply \notin [lo..hi -> Vals]

VARIABLES
  rawmap,    \* m_rawmap: block of each hunk, 0 if none is allocated
  diskmap,   \* the same map in the file
  disk,      \* contents of the file, block by block
  fileLen,   \* length of the file in units
  other,     \* history: units of the file taken by header, map and metadata
  cachehunk, \* m_cachehunk
  cache,     \* m_cache
  reply      \* what the last call returned to the user

storeVars == <<rawmap, diskmap, disk, fileLen>>
cacheVars == <<cachehunk, cache>>
vars == <<storeVars, other, cacheVars, reply>>

\* create_common: header and an all-zero map; nothing allocated.
Init ==
  /\ rawmap = [h \in Hunks |-> 0]
  /\ diskmap = [h \in Hunks |-> 0]
  /\ disk = [b \in Blocks |-> ZeroHunk]
  /\ fileLen = HeaderUnits
  /\ other = 0..(HeaderUnits - 1)
  /\ cachehunk = NoHunk
  /\ cache = ZeroHunk
  /\ reply = NoReply

\* read_hunk, v5 uncompressed: own block, else the parent, else zeros.
FileHunk(h) == IF rawmap[h] # 0 THEN disk[rawmap[h]]
               ELSE IF Parent # NoParent THEN Parent[h]
               ELSE ZeroHunk

AllZeros(buf) == \A u \in 0..(Scanned - 1) : buf[u] = Zero

\* Mutant: round the end of the file down instead of aligning it up.
AppendBlock_RoundsDown == fileLen \div UnitsPerHunk

\* file_append aligns the end of the file to the hunk size: the block it returns.
AppendBlock == (fileLen + UnitsPerHunk - 1) \div UnitsPerHunk

Overwrite(h, buf) ==
  /\ rawmap[h] # 0
  /\ disk' = [disk EXCEPT ![rawmap[h]] = buf]
  /\ UNCHANGED <<rawmap, diskmap, fileLen>>

Allocate(h, buf) ==
  /\ rawmap[h] = 0 /\ ~AllZeros(buf)
  /\ AppendBlock <= MaxBlocks
  /\ disk' = [disk EXCEPT ![AppendBlock] = buf]
  /\ fileLen' = (AppendBlock + 1) * UnitsPerHunk
  /\ rawmap' = [rawmap EXCEPT ![h] = AppendBlock]
  /\ diskmap' = [diskmap EXCEPT ![h] = AppendBlock]

SkipZeros(h, buf) == rawmap[h] = 0 /\ AllZeros(buf) /\ UNCHANGED storeVars

Merge(old, lo, hi, buf) == [u \in Units |-> IF u \in lo..hi THEN buf[u] ELSE old[u]]

\* Mutant: the entry is written back first.
AppendFails_MapFirst(h, buf) ==
  /\ rawmap[h] = 0 /\ ~AllZeros(buf) /\ AppendBlock <= MaxBlocks
  /\ fileLen' \in fileLen..((AppendBlock + 1) * UnitsPerHunk)
  /\ diskmap' = [diskmap EXCEPT ![h] = AppendBlock]
  /\ UNCHANGED <<rawmap, disk>>

\* An error return of write_hunk.  file_append fails anywhere between the first
\* byte of padding and the last of data; or the data is appended and its map
\* entry is not written back; or an overwrite stops half-way.
AppendFails(h, buf) ==
  /\ rawmap[h] = 0 /\ ~AllZeros(buf) /\ AppendBlock <= MaxBlocks
  /\ fileLen' \in fileLen..((AppendBlock + 1) * UnitsPerHunk)
  /\ UNCHANGED <<rawmap, diskmap, disk>>

MapWriteFails(h, buf) ==
  /\ rawmap[h] = 0 /\ ~AllZeros(buf) /\ AppendBlock <= MaxBlocks
  /\ disk' = [disk EXCEPT ![AppendBlock] = buf]
  /\ fileLen' = (AppendBlock + 1) * UnitsPerHunk
  /\ rawmap' = [rawmap EXCEPT ![h] = AppendBlock]
  /\ UNCHANGED diskmap

OverwriteFails(h, buf) ==
  /\ rawmap[h] # 0
  /\ \E n \in Units : disk' = [disk EXCEPT ![rawmap[h]] = Merge(@, 0, n - 1, buf)]
  /\ UNCHANGED <<rawmap, diskmap, fileLen>>

StoreFails(h, buf) ==
  /\ WriteMayFail
  /\ AppendFails(h, buf) \/ MapWriteFails(h, buf) \/ OverwriteFails(h, buf)

\* write_hunk
StoreHunk(h, buf) ==
  SkipZeros(h, buf) \/ Allocate(h, buf) \/ Overwrite(h, buf) \/ StoreFails(h, buf)

WholeHunk(lo, hi) == lo = 0 /\ hi = UnitsPerHunk - 1
Cached(h) == IF h = cachehunk THEN cache ELSE FileHunk(h)

\* write_hunk called by the user: a cached copy is refreshed when the write
\* allocated the hunk (and the map entry was written).
WriteHunk(h, buf) ==
  /\ HunkCalls
  /\ \/ Allocate(h, buf) /\ cache' = IF h = cachehunk THEN buf ELSE cache
     \/ (SkipZeros(h, buf) \/ Overwrite(h, buf) \/ StoreFails(h, buf)) /\ UNCHANGED cache
  /\ reply' = NoReply
  /\ UNCHANGED <<cachehunk, other>>

\* Mutant: load a hunk into the cache and forget to say which.
WriteBytes_Untagged(h, lo, hi, buf) ==
  /\ \/ /\ WholeHunk(lo, hi) /\ h # cachehunk
        /\ StoreHunk(h, buf)
        /\ UNCHANGED cacheVars
     \/ /\ ~WholeHunk(lo, hi) \/ h = cachehunk
        /\ cache' = Merge(Cached(h), lo, hi, buf)
        /\ StoreHunk(h, Merge(Cached(h), lo, hi, buf))
        /\ UNCHANGED cachehunk
  /\ reply' = NoReply
  /\ UNCHANGED other

\* write_bytes: a whole hunk that is not cached goes straight to the file, any
\* other write goes through the cache.
WriteBytes(h, lo, hi, buf) ==
  /\ \/ /\ WholeHunk(lo, hi) /\ h # cachehunk
        /\ StoreHunk(h, buf)
        /\ UNCHANGED cacheVars
     \/ /\ ~WholeHunk(lo, hi) \/ h = cachehunk
        /\ cache' = Merge(Cached(h), lo, hi, buf)
        /\ cachehunk' = h
        /\ StoreHunk(h, Merge(Cached(h), lo, hi, buf))
  /\ reply' = NoReply
  /\ UNCHANGED other

\* Mutant: tag the cache after the loop variable has moved on.
ReadBytes_TagsNext(h, lo, hi) ==
  /\ cache' = Cached(h)
  /\ cachehunk' = h + 1
  /\ reply' = [u \in lo..hi |-> Cached(h)[u]]
  /\ UNCHANGED <<storeVars, other>>

\* read_bytes, likewise.
ReadBytes(h, lo, hi) ==
  /\ \/ /\ WholeHunk(lo, hi) /\ h # cachehunk
        /\ reply' = [u \in lo..hi |-> FileHunk(h)[u]]
        /\ UNCHANGED cacheVars
     \/ /\ ~WholeHunk(lo, hi) \/ h = cachehunk
        /\ cache' = Cached(h)
        /\ cachehunk' = h
        /\ reply' = [u \in lo..hi |-> Cached(h)[u]]
  /\ UNCHANGED <<storeVars, other>>

\* read_hunk called by the user bypasses the cache.
ReadHunk(h) ==
  /\ reply' = FileHunk(h)
  /\ UNCHANGED <<storeVars, other, cacheVars>>

\* write_metadata appends a record behind whatever is there.
AppendMetadata(n) ==
  /\ fileLen + n <= (MaxBlocks + 1) * UnitsPerHunk
  /\ fileLen' = fileLen + n
  /\ other' = other \cup fileLen..(fileLen + n - 1)
  /\ reply' = NoReply
  /\ UNCHANGED <<rawmap, diskmap, disk, cacheVars>>

\* close, then open: create_open_common reads the map back from the file.
Reopen ==
  /\ rawmap' = diskmap
  /\ cachehunk' = NoHunk
  /\ cache' = ZeroHunk
  /\ reply' = NoReply
  /\ UNCHANGED <<diskmap, disk, fileLen, other>>

\* read_bytes or write_bytes loads another hunk into m_cache and read_hunk fails
\* on the file, or on the parent's, with part of the buffer filled; m_cachehunk is
\* not touched.
LoadFails(h) ==
  /\ ReadMayFail
  /\ h # cachehunk
  /\ rawmap[h] # 0 \/ Parent # NoParent
  /\ \E n \in 0..UnitsPerHunk : cache' = Merge(cache, 0, n - 1, FileHunk(h))
  /\ reply' = NoReply
  /\ UNCHANGED <<storeVars, other, cachehunk>>

Next ==
  \/ \E h \in Hunks : \E lo \in Units : \E hi \in lo..(UnitsPerHunk - 1) :
       \/ ReadBytes(h, lo, hi)
       \/ \E buf \in Contents : WriteBytes(h, lo, hi, buf)
  \/ \E h \in Hunks : \/ ReadHunk(h)
                      \/ LoadFails(h)
                      \/ \E buf \in Contents : WriteHunk(h, buf)
  \/ \E n \in MetaSizes : AppendMetadata(n)
  \/ Reopen

Spec == Init /\ [][Next]_vars

-----------------------------------------------------------------------------
(* Properties *)

TypeOK ==
  /\ rawmap \in [Hunks -> 0..MaxBlocks]
  /\ diskmap \in [Hunks -> 0..MaxBlocks]
  /\ disk \in [Blocks -> Contents]
  /\ fileLen \in Nat
  /\ other \subseteq Nat
  /\ cachehunk \in Hunks \cup {NoHunk}
  /\ cache \in Contents

BlockUnits(b) == (b * UnitsPerHunk)..((b + 1) * UnitsPerHunk - 1)

\* Every block the map points to lies inside the file, clear of the header, the map
\* and the metadata, and no two hunks share one: allocation at the end of the file,
\* its alignment, metadata records of any size in between and failed appends.
NoAliasing ==
  \A h \in Hunks : rawmap[h] # 0 =>
    /\ (rawmap[h] + 1) * UnitsPerHunk <= fileLen
    /\ BlockUnits(rawmap[h]) \cap other = {}
    /\ \A g \in Hunks : rawmap[g] = rawmap[h] => g = h

\* The map in the file lags behind the one in memory and never differs otherwise: when
\* write_hunk has changed m_rawmap and cannot write the entry back, or cannot append,
\* reopening may lose that hunk but never finds another's data in its place, as long as
\* the write of an entry is not itself cut in two.
MapsAgree == \A h \in Hunks : diskmap[h] \in {0, rawmap[h]}

\* A user of read_bytes and write_bytes sees an array of hunks: the cache and the
\* file never disagree, a write through the cache is not lost when another hunk is
\* loaded, and nothing changes across close and open.
Array == INSTANCE HunkArray
           WITH array <- [h \in Hunks |-> Cached(h)]
Implements == Array!Spec

=============================================================================
