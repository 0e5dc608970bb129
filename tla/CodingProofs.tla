---------------------------- MODULE CodingProofs ----------------------------
(***************************************************************************)
(* What the codings of CdBytes and Unicode do to every sector, frame and   *)
(* character, and the allocators lent to zlib and LZMA (chdcodec.cpp) for  *)
(* any number of slots, any sizes and any order of requests: the run       *)
(* codecs tries a few of each.                                             *)
(***************************************************************************)
EXTENDS CdBytes, Unicode, CodecAllocator, FiniteSetTheorems, FunctionTheorems, TLAPS

-----------------------------------------------------------------------------
(* The error correction codes of a sector *)

SECTOR_SIZE == ECC_Q_OFFSET + 2 * ECC_Q_NUM_BYTES
All == 0..(SECTOR_SIZE - 1)
Data == 0..(ECC_P_OFFSET - 1)
PPlaces == ECC_P_OFFSET..(ECC_Q_OFFSET - 1)
QPlaces == ECC_Q_OFFSET..(SECTOR_SIZE - 1)
Sectors == [All -> 0..255]

\* The header comes before the P codes, they before the Q codes, and these end the sector.
LEMMA Numbers ==
  /\ ECC_P_OFFSET \in Nat /\ ECC_Q_OFFSET \in Nat /\ SECTOR_SIZE \in Nat
  /\ ECC_P_NUM_BYTES \in Nat /\ ECC_P_COMP \in Nat
  /\ ECC_Q_NUM_BYTES \in Nat /\ ECC_Q_COMP \in Nat
  /\ ECC_Q_OFFSET = ECC_P_OFFSET + 2 * ECC_P_NUM_BYTES
  /\ SECTOR_SIZE = ECC_Q_OFFSET + 2 * ECC_Q_NUM_BYTES
  /\ MODE_OFFSET \in 0..(ECC_P_OFFSET - 1)
  /\ ECC_P_OFFSET < ECC_Q_OFFSET /\ ECC_Q_OFFSET < SECTOR_SIZE
BY DEF ECC_P_OFFSET, ECC_Q_OFFSET, SECTOR_SIZE, ECC_P_NUM_BYTES, ECC_P_COMP, ECC_Q_NUM_BYTES, ECC_Q_COMP,
       MODE_OFFSET

LEMMA Regions ==
  /\ All = Data \cup PPlaces \cup QPlaces
  /\ Data \cap PPlaces = {} /\ Data \cap QPlaces = {} /\ PPlaces \cap QPlaces = {}
  /\ Data \cup PPlaces = 0..(ECC_Q_OFFSET - 1)
  /\ PPlaces \cup QPlaces = ECC_P_OFFSET..(ECC_Q_OFFSET + 2 * ECC_Q_NUM_BYTES - 1)
<1> DEFINE a == ECC_P_OFFSET
           b == ECC_Q_OFFSET
           e == SECTOR_SIZE
<1>1. /\ a \in Nat /\ b \in Nat /\ e \in Nat /\ a < b /\ b < e /\ e = b + 2 * ECC_Q_NUM_BYTES
      /\ ECC_Q_NUM_BYTES \in Nat
  BY Numbers, Zenon
<1> HIDE DEF a, b, e
<1>2. /\ 0..(e - 1) = (0..(a - 1)) \cup (a..(b - 1)) \cup (b..(e - 1))
      /\ (0..(a - 1)) \cap (a..(b - 1)) = {}
      /\ (0..(a - 1)) \cap (b..(e - 1)) = {}
      /\ (a..(b - 1)) \cap (b..(e - 1)) = {}
      /\ (0..(a - 1)) \cup (a..(b - 1)) = 0..(b - 1)
      /\ (a..(b - 1)) \cup (b..(e - 1)) = a..(e - 1)
  BY <1>1
<1>3. (a..(b - 1)) \cup (b..(e - 1)) = a..(b + 2 * ECC_Q_NUM_BYTES - 1)
  BY <1>1
<1>4. QED
  BY <1>2, <1>3 DEF a, b, e, All, Data, PPlaces, QPlaces

\* The P rows end before the P codes, the Q rows before the Q codes.
LEMMA RowsEnd ==
  /\ \A b \in 0..(ECC_P_NUM_BYTES - 1) : \A c \in 0..(ECC_P_COMP - 1) :
       SYNC_NUM_BYTES + POffsets[b][c] \in 0..(ECC_P_OFFSET - 1)
  /\ \A b \in 0..(ECC_Q_NUM_BYTES - 1) : \A c \in 0..(ECC_Q_COMP - 1) :
       SYNC_NUM_BYTES + QOffsets[b][c] \in 0..(ECC_Q_OFFSET - 1)
<1>1. ASSUME NEW b \in 0..(ECC_P_NUM_BYTES - 1), NEW c \in 0..(ECC_P_COMP - 1)
      PROVE  SYNC_NUM_BYTES + POffsets[b][c] \in 0..(ECC_P_OFFSET - 1)
  <2>1. POffsets[b][c] = b + 86 * c
    BY DEF POffsets
  <2>2. QED
    BY <2>1 DEF SYNC_NUM_BYTES, ECC_P_OFFSET, ECC_P_NUM_BYTES, ECC_P_COMP
<1>2. ASSUME NEW b \in 0..(ECC_Q_NUM_BYTES - 1), NEW c \in 0..(ECC_Q_COMP - 1)
      PROVE  SYNC_NUM_BYTES + QOffsets[b][c] \in 0..(ECC_Q_OFFSET - 1)
  <2> DEFINE place == (b \div 2) * 86 + (b % 2) + 88 * c
  <2>1. QOffsets[b][c] = place % 2236
    BY DEF QOffsets
  <2>2. b \in Nat /\ c \in Nat
    BY DEF ECC_Q_NUM_BYTES, ECC_Q_COMP
  <2>3. b \div 2 \in Nat /\ b % 2 \in Nat
    BY <2>2
  <2>4. place \in Nat
    BY <2>2, <2>3
  <2> HIDE DEF place
  <2>5. 0 <= place % 2236 /\ place % 2236 < 2236 /\ place % 2236 \in Int
    BY <2>4
  <2>6. QED
    BY <2>1, <2>5 DEF SYNC_NUM_BYTES, ECC_Q_OFFSET, ECC_P_OFFSET, ECC_P_NUM_BYTES
<1>3. QED
  BY <1>1, <1>2

\* The codes of a row are those of any other sector that has its bytes, and the same mode.
LEMMA SameRow ==
  ASSUME NEW s, NEW t, NEW row, NEW rowlen \in Nat, s[MODE_OFFSET] = t[MODE_OFFSET],
         \A k \in 0..(rowlen - 1) : s[SYNC_NUM_BYTES + row[k]] = t[SYNC_NUM_BYTES + row[k]]
  PROVE  EccComputeBytes(s, row, rowlen) = EccComputeBytes(t, row, rowlen)
<1>1. \A k \in 0..(rowlen - 1) : EccSourceByte(s, row[k]) = EccSourceByte(t, row[k])
  BY DEF EccSourceByte
<1>2. [k \in 0..(rowlen - 1) |-> EccSourceByte(s, row[k])] = [k \in 0..(rowlen - 1) |-> EccSourceByte(t, row[k])]
  BY <1>1, Zenon
<1>3. QED
  BY <1>2, Zenon DEF EccComputeBytes

LEMMA SameRows ==
  ASSUME NEW s, NEW t, NEW at \in Nat, NEW num \in Nat, NEW offsets, NEW rowlen \in Nat,
         s[MODE_OFFSET] = t[MODE_OFFSET],
         \A b \in 0..(num - 1) : \A k \in 0..(rowlen - 1) :
           s[SYNC_NUM_BYTES + offsets[b][k]] = t[SYNC_NUM_BYTES + offsets[b][k]]
  PROVE  RowCodes(s, at, num, offsets, rowlen) = RowCodes(t, at, num, offsets, rowlen)
<1>1. ASSUME NEW b \in 0..(num - 1)
      PROVE  EccComputeBytes(s, offsets[b], rowlen) = EccComputeBytes(t, offsets[b], rowlen)
  <2>1. \A k \in 0..(rowlen - 1) : s[SYNC_NUM_BYTES + offsets[b][k]] = t[SYNC_NUM_BYTES + offsets[b][k]]
    OBVIOUS
  <2>2. QED
    BY <2>1, SameRow
<1> DEFINE cs == [byte \in 0..(num - 1) |-> EccComputeBytes(s, offsets[byte], rowlen)]
           ct == [byte \in 0..(num - 1) |-> EccComputeBytes(t, offsets[byte], rowlen)]
           pair(c) == [k \in at..(at + 2 * num - 1) |-> IF k < at + num THEN c[k - at][1] ELSE c[k - at - num][2]]
<1>2. cs = ct
  BY <1>1, Zenon
<1>3. RowCodes(s, at, num, offsets, rowlen) = pair(cs) /\ RowCodes(t, at, num, offsets, rowlen) = pair(ct)
  BY Zenon DEF RowCodes
<1> HIDE DEF cs, ct, pair
<1>4. QED
  BY <1>2, <1>3, Zenon

LEMMA PReadsData ==
  ASSUME NEW s, NEW t, \A k \in Data : s[k] = t[k]
  PROVE  PCodes(s) = PCodes(t)
<1>1. s[MODE_OFFSET] = t[MODE_OFFSET]
  BY Numbers, Zenon DEF Data
<1>2. \A b \in 0..(ECC_P_NUM_BYTES - 1) : \A k \in 0..(ECC_P_COMP - 1) :
        s[SYNC_NUM_BYTES + POffsets[b][k]] = t[SYNC_NUM_BYTES + POffsets[b][k]]
  BY RowsEnd, Regions, Zenon DEF Data
<1>3. RowCodes(s, ECC_P_OFFSET, ECC_P_NUM_BYTES, POffsets, ECC_P_COMP)
        = RowCodes(t, ECC_P_OFFSET, ECC_P_NUM_BYTES, POffsets, ECC_P_COMP)
  BY <1>1, <1>2, Numbers, SameRows
<1>4. QED
  BY <1>3, Zenon DEF PCodes

LEMMA QReadsDataAndP ==
  ASSUME NEW s, NEW t, \A k \in Data \cup PPlaces : s[k] = t[k]
  PROVE  QCodes(s) = QCodes(t)
<1>1. s[MODE_OFFSET] = t[MODE_OFFSET]
  BY Numbers, Zenon DEF Data
<1>2. \A b \in 0..(ECC_Q_NUM_BYTES - 1) : \A k \in 0..(ECC_Q_COMP - 1) :
        s[SYNC_NUM_BYTES + QOffsets[b][k]] = t[SYNC_NUM_BYTES + QOffsets[b][k]]
  BY RowsEnd, Regions, Zenon DEF Data
<1>3. RowCodes(s, ECC_Q_OFFSET, ECC_Q_NUM_BYTES, QOffsets, ECC_Q_COMP)
        = RowCodes(t, ECC_Q_OFFSET, ECC_Q_NUM_BYTES, QOffsets, ECC_Q_COMP)
  BY <1>1, <1>2, Numbers, SameRows
<1>4. QED
  BY <1>3, Zenon DEF QCodes

\* Where the codes are.
LEMMA Places ==
  ASSUME NEW s
  PROVE  DOMAIN PCodes(s) = PPlaces /\ DOMAIN QCodes(s) = QPlaces
<1>1. DOMAIN PCodes(s) = ECC_P_OFFSET..(ECC_P_OFFSET + 2 * ECC_P_NUM_BYTES - 1)
  BY DEF PCodes, RowCodes
<1>2. DOMAIN QCodes(s) = ECC_Q_OFFSET..(ECC_Q_OFFSET + 2 * ECC_Q_NUM_BYTES - 1)
  BY DEF QCodes, RowCodes
<1>3. QED
  BY <1>1, <1>2, Numbers DEF PPlaces, QPlaces

\* What ecc_generate leaves in each part of a sector; s with its P codes is what the Q rows
\* read.
LEMMA Generated ==
  ASSUME NEW s, DOMAIN s = All
  PROVE  \E p :
           /\ \A k \in Data : p[k] = s[k]
           /\ \A k \in PPlaces : p[k] = PCodes(s)[k]
           /\ EccGenerate2352(s) = [k \in All |-> IF k \in QPlaces THEN QCodes(p)[k] ELSE p[k]]
<1> DEFINE p == WithCodes(s, PCodes(s))
<1>1. EccGenerate2352(s) = WithCodes(p, QCodes(p))
  BY Zenon DEF EccGenerate2352
<1>2. p = [k \in All |-> IF k \in PPlaces THEN PCodes(s)[k] ELSE s[k]]
  BY Places, Zenon DEF WithCodes
<1>3. DOMAIN p = All
  BY <1>2, Zenon
<1> HIDE DEF p
<1>4. EccGenerate2352(s) = [k \in All |-> IF k \in QPlaces THEN QCodes(p)[k] ELSE p[k]]
  BY <1>1, <1>3, Places, Zenon DEF WithCodes
<1>5. \A k \in All : p[k] = IF k \in PPlaces THEN PCodes(s)[k] ELSE s[k]
  BY <1>2, Zenon
<1>6. \A k \in Data : k \in All /\ k \notin PPlaces
  BY Regions, Zenon
<1>7. \A k \in PPlaces : k \in All
  BY Regions, Zenon
<1>8. /\ \A k \in Data : p[k] = s[k]
      /\ \A k \in PPlaces : p[k] = PCodes(s)[k]
  BY <1>5, <1>6, <1>7, Zenon
<1>9. QED
  BY <1>4, <1>8, Zenon

\* ecc_verify accepts what ecc_generate wrote, in every sector, of any mode: the Q codes are
\* made of the final P codes, and neither kind reads what is written after it.
THEOREM GeneratedCodesVerify ==
  \A s \in Sectors : EccVerify2352(EccGenerate2352(s))
<1> SUFFICES ASSUME NEW s \in Sectors PROVE EccVerify2352(EccGenerate2352(s))
  OBVIOUS
<1> DEFINE g == EccGenerate2352(s)
<1>0. DOMAIN s = All
  BY Zenon DEF Sectors
<1>1. PICK p : /\ \A k \in Data : p[k] = s[k]
               /\ \A k \in PPlaces : p[k] = PCodes(s)[k]
               /\ g = [k \in All |-> IF k \in QPlaces THEN QCodes(p)[k] ELSE p[k]]
  BY <1>0, Generated, Zenon
<1> HIDE DEF g
<1>2. \A k \in All : g[k] = IF k \in QPlaces THEN QCodes(p)[k] ELSE p[k]
  BY <1>1, Zenon
<1>3. \A k \in Data \cup PPlaces : k \in All /\ k \notin QPlaces
  BY Regions, Zenon
<1>4. \A k \in Data \cup PPlaces : g[k] = p[k]
  BY <1>2, <1>3, Zenon
<1>5. PCodes(g) = PCodes(s)
  BY <1>1, <1>4, PReadsData, Zenon
<1>6. QCodes(g) = QCodes(p)
  BY <1>4, QReadsDataAndP, Zenon
<1>7. Holds(g, PCodes(g))
  BY <1>1, <1>4, <1>5, Places, Zenon DEF Holds
<1>8. \A k \in QPlaces : g[k] = QCodes(p)[k]
  BY <1>2, Regions, Zenon
<1>9. Holds(g, QCodes(g))
  BY <1>6, <1>8, Places, Zenon DEF Holds
<1>10. QED
  BY <1>7, <1>9, Zenon DEF EccVerify2352, g

\* A sector is rebuilt by ecc_generate once ecc_clear has erased its codes exactly when they
\* verified: why the CD codecs may leave them out of what they compress, and only then.
THEOREM ClearedCodesComeBack ==
  \A s \in Sectors : EccVerify2352(s) <=> EccGenerate2352(EccClear2352(s)) = s
<1> SUFFICES ASSUME NEW s \in Sectors PROVE EccVerify2352(s) <=> EccGenerate2352(EccClear2352(s)) = s
  OBVIOUS
<1> DEFINE c == EccClear2352(s)
           g == EccGenerate2352(c)
<1>0. DOMAIN s = All /\ s = [k \in All |-> s[k]]
  BY Zenon DEF Sectors
<1>1. c = [k \in All |-> IF k \in PPlaces \cup QPlaces THEN 0 ELSE s[k]]
  BY <1>0, Regions, Zenon DEF EccClear2352
<1>2. c \in Sectors
  BY <1>1 DEF Sectors
<1> HIDE DEF c, g
<1>3. DOMAIN c = All
  BY <1>1, Zenon
<1>4. \A k \in Data : k \in All /\ k \notin PPlaces /\ k \notin QPlaces
  BY Regions, Zenon
<1>5. \A k \in Data : c[k] = s[k]
  BY <1>1, <1>4, Zenon
<1>6. PCodes(c) = PCodes(s)
  BY <1>5, PReadsData, Zenon
<1>7. PICK p : /\ \A k \in Data : p[k] = c[k]
               /\ \A k \in PPlaces : p[k] = PCodes(c)[k]
               /\ g = [k \in All |-> IF k \in QPlaces THEN QCodes(p)[k] ELSE p[k]]
  BY <1>3, Generated, Zenon DEF g
<1>8. ASSUME EccVerify2352(s) PROVE g = s
  <2>1. /\ \A k \in PPlaces : s[k] = PCodes(s)[k]
        /\ \A k \in QPlaces : s[k] = QCodes(s)[k]
    BY <1>8, Places, Zenon DEF EccVerify2352, Holds
  <2>2. \A k \in Data \cup PPlaces : p[k] = s[k]
    BY <1>5, <1>6, <1>7, <2>1, Zenon
  <2>3. QCodes(p) = QCodes(s)
    BY <2>2, QReadsDataAndP, Zenon
  <2>4. \A k \in All : (IF k \in QPlaces THEN QCodes(p)[k] ELSE p[k]) = s[k]
    BY <2>1, <2>2, <2>3, Regions, Zenon
  <2>5. [k \in All |-> IF k \in QPlaces THEN QCodes(p)[k] ELSE p[k]] = [k \in All |-> s[k]]
    BY <2>4, Zenon
  <2>6. QED
    BY <1>0, <1>7, <2>5, Zenon
<1>9. ASSUME g = s PROVE EccVerify2352(s)
  BY <1>9, <1>2, GeneratedCodesVerify, Zenon DEF g
<1>10. QED
  BY <1>8, <1>9, Zenon DEF g, c


-----------------------------------------------------------------------------
(* Times *)

\* The minutes, seconds and frames of a frame number.
LEMMA Parts ==
  ASSUME NEW lba \in Nat
  PROVE  /\ lba \div 4500 \in Nat
         /\ (lba \div 75) % 60 \in Nat /\ (lba \div 75) % 60 < 60
         /\ lba % 75 \in Nat /\ lba % 75 < 75
         /\ lba = ((lba \div 4500) * 60 + ((lba \div 75) % 60)) * 75 + (lba % 75)
         /\ (lba - (lba \div 4500) * 4500) \div 75 = (lba \div 75) % 60
         /\ (lba - (lba \div 4500) * 4500) % 75 = lba % 75
<1> DEFINE m == lba \div 4500
           q == lba \div 75
           f == lba % 75
           s == q % 60
<1>1. m \in Nat /\ q \in Nat /\ f \in Nat /\ f < 75 /\ s \in Nat /\ s < 60
  OBVIOUS
<1>2. lba = q * 75 + f
  OBVIOUS
<1>3. q = (q \div 60) * 60 + s /\ q \div 60 \in Nat
  BY <1>1
<1>4. q \div 60 = m
  <2>1. lba = (q \div 60) * 4500 + s * 75 + f
    BY <1>1, <1>2, <1>3
  <2>2. s * 75 + f \in Nat /\ s * 75 + f < 4500
    BY <1>1
  <2>3. QED
    BY <1>1, <1>3, <2>1, <2>2
<1>5. lba = (m * 60 + s) * 75 + f
  BY <1>1, <1>2, <1>3, <1>4
<1> HIDE DEF m, q, f, s
<1>6. lba - m * 4500 = s * 75 + f
  BY <1>1, <1>5
<1>7. (s * 75 + f) \div 75 = s /\ (s * 75 + f) % 75 = f
  BY <1>1
<1>8. QED
  BY <1>1, <1>5, <1>6, <1>7 DEF m, q, f, s

\* msf_to_lba undoes lba_to_msf_alt for every frame whose minutes fit their byte.
THEOREM TimesComeBack ==
  \A lba \in Nat : lba < 256 * 4500 => MsfToLba(LbaToMsfAlt(lba)) = lba
<1> SUFFICES ASSUME NEW lba \in Nat, lba < 256 * 4500 PROVE MsfToLba(LbaToMsfAlt(lba)) = lba
  OBVIOUS
<1> DEFINE m == lba \div 4500
           s == (lba \div 75) % 60
           f == lba % 75
<1>1. /\ m \in Nat /\ s \in Nat /\ s < 60 /\ f \in Nat /\ f < 75
      /\ lba = (m * 60 + s) * 75 + f
  BY Parts
<1> DEFINE msf == LbaToMsfAlt(lba)
<1>2. msf = (m % 256) * 65536 + s * 256 + f
  BY DEF LbaToMsfAlt
<1> HIDE DEF m, s, f, msf
<1>3. m < 256 /\ m % 256 = m
  BY <1>1
<1>4. msf = m * 65536 + s * 256 + f
  BY <1>2, <1>3, SMT
<1>5. MsfToLba(msf) = (m * 60 + s) * 75 + f
  <2>1. msf \div 65536 = m /\ msf \div 256 = m * 256 + s /\ msf % 256 = f
    BY <1>1, <1>4, SMT
  <2>2. (m * 256 + s) % 256 = s
    BY <1>1, SMT
  <2>3. MsfToLba(msf) = m * 60 * 75 + s * 75 + f
    BY <1>3, <2>1, <2>2, SMT DEF MsfToLba
  <2>4. QED
    BY <1>1, <2>3, SMT
<1>6. QED
  BY <1>1, <1>5, SMT DEF msf

\* The digit of a time in decimal whose unit is the given power of 16.
Digit(msf, unit) == (msf \div unit) % 16

\* The header lba_to_msf makes for a frame of a disc of up to 99:59:74 has decimal digits
\* only, and they are the minute, second and frame of that frame.
THEOREM HeadersNameFrames ==
  \A lba \in Nat : lba < 100 * 4500 =>
    LET msf == LbaToMsf(lba)
        two(unit) == Digit(msf, 16 * unit) * 10 + Digit(msf, unit)
    IN  /\ (two(65536) * 60 + two(256)) * 75 + two(1) = lba
        /\ two(256) < 60 /\ two(1) < 75
        /\ \A unit \in {1, 16, 256, 4096, 65536, 1048576} : Digit(msf, unit) <= 9
<1> SUFFICES ASSUME NEW lba \in Nat, lba < 100 * 4500
             PROVE  LET msf == LbaToMsf(lba)
                        two(unit) == Digit(msf, 16 * unit) * 10 + Digit(msf, unit)
                    IN  /\ (two(65536) * 60 + two(256)) * 75 + two(1) = lba
                        /\ two(256) < 60 /\ two(1) < 75
                        /\ \A unit \in {1, 16, 256, 4096, 65536, 1048576} : Digit(msf, unit) <= 9
  OBVIOUS
<1> DEFINE m == lba \div 4500
           s == (lba \div 75) % 60
           f == lba % 75
           msf == LbaToMsf(lba)
<1>1. /\ m \in Nat /\ s \in Nat /\ s < 60 /\ f \in Nat /\ f < 75
      /\ lba = (m * 60 + s) * 75 + f
      /\ (lba - m * 4500) \div 75 = s /\ (lba - m * 4500) % 75 = f
  BY Parts
<1>2. m < 100 /\ m % 256 = m /\ s % 256 = s
  BY <1>1
<1>3. msf = ((m \div 10) * 16 + (m % 10)) * 65536 + ((s \div 10) * 16 + (s % 10)) * 256 + ((f \div 10) * 16 + (f % 10))
  BY <1>1, <1>2 DEF LbaToMsf
<1> HIDE DEF m, s, f, msf
<1>4. /\ m \div 10 \in Nat /\ m \div 10 <= 9 /\ m % 10 \in Nat /\ m % 10 <= 9 /\ m = (m \div 10) * 10 + (m % 10)
      /\ s \div 10 \in Nat /\ s \div 10 <= 9 /\ s % 10 \in Nat /\ s % 10 <= 9 /\ s = (s \div 10) * 10 + (s % 10)
      /\ f \div 10 \in Nat /\ f \div 10 <= 9 /\ f % 10 \in Nat /\ f % 10 <= 9 /\ f = (f \div 10) * 10 + (f % 10)
  BY <1>1, <1>2
<1>5. /\ Digit(msf, 1048576) = m \div 10 /\ Digit(msf, 65536) = m % 10 /\ Digit(msf, 4096) = s \div 10
      /\ Digit(msf, 256) = s % 10 /\ Digit(msf, 16) = f \div 10 /\ Digit(msf, 1) = f % 10
  <2> DEFINE m1 == m \div 10  m0 == m % 10
             s1 == s \div 10  s0 == s % 10
             f1 == f \div 10  f0 == f % 10
  <2>1. /\ m1 \in Nat /\ m1 <= 9 /\ m0 \in Nat /\ m0 <= 9
        /\ s1 \in Nat /\ s1 <= 9 /\ s0 \in Nat /\ s0 <= 9
        /\ f1 \in Nat /\ f1 <= 9 /\ f0 \in Nat /\ f0 <= 9
    BY <1>4, SMT
  <2>2. msf = (m1 * 16 + m0) * 65536 + (s1 * 16 + s0) * 256 + (f1 * 16 + f0)
    BY <1>3, SMT
  <2> HIDE DEF m1, m0, s1, s0, f1, f0
  <2>3. /\ Digit(msf, 1048576) = m1 /\ Digit(msf, 65536) = m0 /\ Digit(msf, 4096) = s1
        /\ Digit(msf, 256) = s0 /\ Digit(msf, 16) = f1 /\ Digit(msf, 1) = f0
    <3>1. /\ msf \div 1048576 = m1 /\ msf \div 65536 = m1 * 16 + m0
          /\ msf \div 4096 = (m1 * 16 + m0) * 16 + s1
          /\ msf \div 256 = ((m1 * 16 + m0) * 16 + s1) * 16 + s0
      BY <2>1, <2>2, SMT
    <3>2. /\ msf \div 16 = (((m1 * 16 + m0) * 16 + s1) * 16 + s0) * 16 + f1
          /\ msf \div 1 = ((((m1 * 16 + m0) * 16 + s1) * 16 + s0) * 16 + f1) * 16 + f0
      BY <2>1, <2>2, SMT
    <3>3. \A x, y \in Nat : y <= 9 => (x * 16 + y) % 16 = y /\ y % 16 = y
      OBVIOUS
    <3>4. QED
      BY <2>1, <3>1, <3>2, <3>3, SMT DEF Digit
  <2>4. QED
    BY <2>3, SMT DEF m1, m0, s1, s0, f1, f0
<1>6. /\ Digit(msf, 16 * 65536) * 10 + Digit(msf, 65536) = m
      /\ Digit(msf, 16 * 256) * 10 + Digit(msf, 256) = s
      /\ Digit(msf, 16 * 1) * 10 + Digit(msf, 1) = f
  BY <1>4, <1>5
<1>7. \A unit \in {1, 16, 256, 4096, 65536, 1048576} : Digit(msf, unit) <= 9
  BY <1>4, <1>5
<1>8. QED
  BY <1>1, <1>6, <1>7 DEF msf


-----------------------------------------------------------------------------
(* UTF-8 *)

Bytes == 0..255

LEMMA Byte == \A b \in Bytes : b \in Nat /\ b <= 255
BY DEF Bytes

\* What the first byte says of the sequence.
LEMMA Leads ==
  ASSUME NEW b \in Bytes
  PROVE  /\ b < 128 => LeadOf(b) = [mark |-> 0, aux |-> 0, min |-> 0]
         /\ b >= 128 /\ b < 192 => LeadOf(b) = [mark |-> 0, aux |-> -1, min |-> 0]
         /\ b >= 192 /\ b < 224 => LeadOf(b) = [mark |-> 192, aux |-> 1, min |-> 128]
         /\ b >= 224 /\ b < 240 => LeadOf(b) = [mark |-> 224, aux |-> 2, min |-> 2048]
         /\ b >= 240 /\ b < 248 => LeadOf(b) = [mark |-> 240, aux |-> 3, min |-> 65536]
         /\ b >= 248 /\ b < 252 => LeadOf(b) = [mark |-> 248, aux |-> 4, min |-> 2097152]
         /\ b >= 252 /\ b < 254 => LeadOf(b) = [mark |-> 252, aux |-> 5, min |-> 67108864]
         /\ b >= 254 => LeadOf(b) = [mark |-> 0, aux |-> -1, min |-> 0]
BY Byte, SMT DEF LeadOf

\* Sequences of one to four bytes, as the decoder reads them: too short, or not continued,
\* they are refused, and so is a character that has a shorter one.
LEMMA ReadOne ==
  ASSUME NEW s \in Seq(Bytes), s # <<>>, s[1] < 128
  PROVE  UcharFromUtf8(s) = Decoded(1, s[1])
<1> DEFINE lead == LeadOf(s[1])
<1>1. s[1] \in Bytes /\ s[1] \in Nat /\ Len(s) \in Nat /\ Len(s) >= 1
  BY Byte, SMT
<1>2. lead = [mark |-> 0, aux |-> 0, min |-> 0]
  BY <1>1, Leads, SMT
<1> HIDE DEF lead
<1>3. Gathered(s, lead) = s[1]
  BY <1>1, <1>2, SMT DEF Gathered
<1>4. FromLead(s, lead) = Accepted(s[1], lead)
  BY <1>1, <1>2, <1>3, SMT DEF FromLead
<1>5. Accepted(s[1], lead) = Decoded(1, s[1])
  BY <1>1, <1>2, SMT DEF Accepted
<1>6. QED
  BY <1>4, <1>5, SMT DEF UcharFromUtf8, lead

\* Six bits more of a byte keep a number one.
LEMMA More ==
  ASSUME NEW a \in Int, NEW b \in Bytes
  PROVE  a * 64 + (b % 64) \in Int
<1>1. b % 64 \in Int
  BY Byte, SMT
<1>2. QED
  BY <1>1, SMT

LEMMA ReadTwo ==
  ASSUME NEW s \in Seq(Bytes), s # <<>>, s[1] >= 192, s[1] < 224
  PROVE  LET c == (s[1] - 192) * 64 + (s[2] % 64) IN
         UcharFromUtf8(s)
           = IF Len(s) >= 2 /\ Continues(s[2]) /\ c >= 128 THEN Decoded(2, c) ELSE Refused
<1> DEFINE lead == LeadOf(s[1])
           c == (s[1] - 192) * 64 + (s[2] % 64)
<1>1. s[1] \in Bytes /\ Len(s) \in Nat /\ Len(s) >= 1 /\ (Len(s) >= 2 => s[2] \in Bytes)
  BY SMT
<1>2. lead = [mark |-> 192, aux |-> 1, min |-> 128]
  BY <1>1, Leads, SMT
<1> HIDE DEF lead
<1>3. Gathered(s, lead) = c
  BY <1>1, <1>2, Byte, SMT DEF Gathered
<1>4. FromLead(s, lead) = IF Len(s) >= 2 /\ Continues(s[2]) THEN Accepted(c, lead) ELSE Refused
  BY <1>1, <1>2, <1>3, SMT DEF FromLead
<1>5. Len(s) >= 2 => Accepted(c, lead) = IF c >= 128 THEN Decoded(2, c) ELSE Refused
  BY <1>1, <1>2, Byte, SMT DEF Accepted
<1>6. QED
  BY <1>4, <1>5, SMT DEF UcharFromUtf8, lead

LEMMA ReadThree ==
  ASSUME NEW s \in Seq(Bytes), s # <<>>, s[1] >= 224, s[1] < 240
  PROVE  LET c == ((s[1] - 224) * 64 + (s[2] % 64)) * 64 + (s[3] % 64) IN
         UcharFromUtf8(s)
           = IF Len(s) >= 3 /\ Continues(s[2]) /\ Continues(s[3]) /\ c >= 2048 THEN Decoded(3, c) ELSE Refused
<1> DEFINE lead == LeadOf(s[1])
           c == ((s[1] - 224) * 64 + (s[2] % 64)) * 64 + (s[3] % 64)
<1>1. s[1] \in Bytes /\ Len(s) \in Nat /\ Len(s) >= 1 /\ (Len(s) >= 3 => s[2] \in Bytes /\ s[3] \in Bytes)
  BY SMT
<1>2. lead = [mark |-> 224, aux |-> 2, min |-> 2048]
  BY <1>1, Leads, SMT
<1> HIDE DEF lead
<1>3. Gathered(s, lead) = c
  BY <1>1, <1>2, Byte, SMT DEF Gathered
<1>4. FromLead(s, lead) = IF Len(s) >= 3 /\ Continues(s[2]) /\ Continues(s[3]) THEN Accepted(c, lead) ELSE Refused
  BY <1>1, <1>2, <1>3, SMT DEF FromLead
<1>5. Len(s) >= 3 => Accepted(c, lead) = IF c >= 2048 THEN Decoded(3, c) ELSE Refused
  BY <1>1, <1>2, Byte, SMTT(30) DEF Accepted
<1>6. QED
  BY <1>4, <1>5, SMT DEF UcharFromUtf8, lead

LEMMA ReadFour ==
  ASSUME NEW s \in Seq(Bytes), s # <<>>, s[1] >= 240, s[1] < 248
  PROVE  LET c == (((s[1] - 240) * 64 + (s[2] % 64)) * 64 + (s[3] % 64)) * 64 + (s[4] % 64) IN
         UcharFromUtf8(s)
           = IF Len(s) >= 4 /\ Continues(s[2]) /\ Continues(s[3]) /\ Continues(s[4]) /\ c >= 65536
             THEN Decoded(4, c) ELSE Refused
<1> DEFINE lead == LeadOf(s[1])
           c == (((s[1] - 240) * 64 + (s[2] % 64)) * 64 + (s[3] % 64)) * 64 + (s[4] % 64)
<1>1. /\ s[1] \in Bytes /\ Len(s) \in Nat /\ Len(s) >= 1
      /\ Len(s) >= 4 => s[2] \in Bytes /\ s[3] \in Bytes /\ s[4] \in Bytes
  BY SMT
<1>2. lead = [mark |-> 240, aux |-> 3, min |-> 65536]
  BY <1>1, Leads, SMT
<1> HIDE DEF lead
<1>3. Gathered(s, lead) = c
  BY <1>1, <1>2, Byte, SMT DEF Gathered
<1>4. FromLead(s, lead) = IF Len(s) >= 4 /\ Continues(s[2]) /\ Continues(s[3]) /\ Continues(s[4])
                          THEN Accepted(c, lead) ELSE Refused
  BY <1>1, <1>2, <1>3, SMT DEF FromLead
<1>5. Len(s) >= 4 => Accepted(c, lead) = IF c >= 65536 THEN Decoded(4, c) ELSE Refused
  <2>1. Len(s) >= 4 => c \in Int
    <3> HAVE Len(s) >= 4
    <3>1. s[1] - 240 \in Int /\ s[2] \in Bytes /\ s[3] \in Bytes /\ s[4] \in Bytes
      BY <1>1, Byte, SMT
    <3>2. (s[1] - 240) * 64 + (s[2] % 64) \in Int
      BY <3>1, More, Zenon
    <3>3. ((s[1] - 240) * 64 + (s[2] % 64)) * 64 + (s[3] % 64) \in Int
      BY <3>1, <3>2, More, Zenon
    <3>4. QED
      BY <3>1, <3>3, More, ZenonT(60)
  <2>2. QED
    BY <1>2, <2>1, SMT DEF Accepted
<1>6. QED
  BY <1>4, <1>5, SMT DEF UcharFromUtf8, lead

\* What begins with any other byte is refused or is no character.
LEMMA ReadOther ==
  ASSUME NEW s \in Seq(Bytes), s # <<>>, (s[1] >= 128 /\ s[1] < 192) \/ s[1] >= 248
  PROVE  UcharFromUtf8(s) = Refused \/ ~UcharIsvalid(UcharFromUtf8(s).uchar)
<1> DEFINE lead == LeadOf(s[1])
<1>1. s[1] \in Bytes /\ Len(s) \in Nat /\ Len(s) >= 1
  BY SMT
<1>2. \/ lead.aux = -1
      \/ lead = [mark |-> 248, aux |-> 4, min |-> 2097152]
      \/ lead = [mark |-> 252, aux |-> 5, min |-> 67108864]
  <2>1. CASE s[1] < 192
    BY <1>1, <2>1, Leads, Byte, SMT
  <2>2. CASE s[1] >= 248 /\ s[1] < 252
    BY <1>1, <2>2, Leads, Byte, SMT
  <2>3. CASE s[1] >= 252 /\ s[1] < 254
    BY <1>1, <2>3, Leads, Byte, SMT
  <2>4. CASE s[1] >= 254
    BY <1>1, <2>4, Leads, Byte, SMT
  <2>5. QED
    BY <1>1, <2>1, <2>2, <2>3, <2>4, Byte, SMT
<1> HIDE DEF lead
<1>3. UcharFromUtf8(s) = FromLead(s, lead)
  BY SMT DEF UcharFromUtf8, lead
<1>4. SUFFICES ASSUME FromLead(s, lead) # Refused
               PROVE  ~UcharIsvalid(FromLead(s, lead).uchar)
  BY <1>3, Zenon
<1> DEFINE c == Gathered(s, lead)
<1>5. lead.aux # -1 /\ Len(s) > lead.aux /\ FromLead(s, lead) = Accepted(c, lead)
  BY <1>1, <1>2, <1>4, SMT DEF FromLead
<1>6. c \in Int
  <2>1. CASE lead.aux = 4
    <3> DEFINE c0 == s[1] - 248
               c1 == c0 * 64 + (s[2] % 64)
               c2 == c1 * 64 + (s[3] % 64)
               c3 == c2 * 64 + (s[4] % 64)
               c4 == c3 * 64 + (s[5] % 64)
    <3>1. s[2] \in Bytes /\ s[3] \in Bytes /\ s[4] \in Bytes /\ s[5] \in Bytes
      BY <1>1, <1>5, <2>1, SMT
    <3>2. c = c4
      BY <1>2, <2>1, SMT DEF Gathered
    <3>3. c0 \in Int
      BY <1>1, Byte, SMT
    <3> HIDE DEF c0
    <3>4. c1 \in Int
      BY <3>1, <3>3, More, Zenon
    <3> HIDE DEF c1
    <3>5. c2 \in Int
      BY <3>1, <3>4, More, Zenon
    <3> HIDE DEF c2
    <3>6. c3 \in Int
      BY <3>1, <3>5, More, Zenon
    <3> HIDE DEF c3
    <3>7. QED
      BY <3>1, <3>2, <3>6, More, Zenon
  <2>2. CASE lead.aux = 5
    <3> DEFINE c0 == s[1] - 252
               c1 == c0 * 64 + (s[2] % 64)
               c2 == c1 * 64 + (s[3] % 64)
               c3 == c2 * 64 + (s[4] % 64)
               c4 == c3 * 64 + (s[5] % 64)
               c5 == c4 * 64 + (s[6] % 64)
    <3>1. s[2] \in Bytes /\ s[3] \in Bytes /\ s[4] \in Bytes /\ s[5] \in Bytes /\ s[6] \in Bytes
      BY <1>1, <1>5, <2>2, SMT
    <3>2. c = c5
      BY <1>2, <2>2, SMT DEF Gathered
    <3>3. c0 \in Int
      BY <1>1, Byte, SMT
    <3> HIDE DEF c0
    <3>4. c1 \in Int
      BY <3>1, <3>3, More, Zenon
    <3> HIDE DEF c1
    <3>5. c2 \in Int
      BY <3>1, <3>4, More, Zenon
    <3> HIDE DEF c2
    <3>6. c3 \in Int
      BY <3>1, <3>5, More, Zenon
    <3> HIDE DEF c3
    <3>7. c4 \in Int
      BY <3>1, <3>6, More, Zenon
    <3> HIDE DEF c4
    <3>8. QED
      BY <3>1, <3>2, <3>7, More, Zenon
  <2>3. QED
    BY <1>2, <1>5, <2>1, <2>2, SMT
<1> HIDE DEF c
<1>7. ~(c < lead.min) /\ Accepted(c, lead).uchar = c
  BY <1>4, <1>5, SMT DEF Accepted, Decoded
<1>8. QED
  BY <1>2, <1>5, <1>6, <1>7, SMT DEF UcharIsvalid

LEMMA Lens ==
  \A a, b, c, d : Len(<<a>>) = 1 /\ Len(<<a, b>>) = 2 /\ Len(<<a, b, c>>) = 3 /\ Len(<<a, b, c, d>>) = 4
BY SMT

\* The bytes of a character, by their number.
LEMMA Written ==
  ASSUME NEW c \in Nat, UcharIsvalid(c)
  PROVE  LET e == Utf8FromUchar(UTF8_CHAR_MAX, c) IN
         /\ c < 128 => e = <<c>>
         /\ c >= 128 /\ c < 2048 => e = <<192 + c \div 64, 128 + (c % 64)>>
         /\ c >= 2048 /\ c < 65536 => e = <<224 + c \div 4096, 128 + ((c \div 64) % 64), 128 + (c % 64)>>
         /\ c >= 65536 => e = <<240 + c \div 262144, 128 + ((c \div 4096) % 64), 128 + ((c \div 64) % 64), 128 + (c % 64)>>
<1> DEFINE e == Utf8FromUchar(UTF8_CHAR_MAX, c)
<1>1. Low6(c, 1) = 128 + (c % 64) /\ Low6(c, 64) = 128 + ((c \div 64) % 64) /\ Low6(c, 4096) = 128 + ((c \div 4096) % 64)
  BY SMT DEF Low6
<1>2. ASSUME c < 128
      PROVE  e = <<c>>
  <2>1. e = Encoded8(<<c>>, 6)
    BY <1>2, SMT DEF Utf8FromUchar, UTF8_CHAR_MAX
  <2>2. QED
    BY <1>2, <2>1, Lens, SMT DEF Encoded8
<1>3. ASSUME c >= 128 /\ c < 2048
      PROVE  e = <<192 + c \div 64, 128 + (c % 64)>>
  <2>1. e = Encoded8(<<192 + c \div 64, Low6(c, 1)>>, 6)
    BY <1>3, SMT DEF Utf8FromUchar, UTF8_CHAR_MAX
  <2>2. QED
    BY <1>1, <1>3, <2>1, Lens, SMT DEF Encoded8
<1>4. ASSUME c >= 2048 /\ c < 65536
      PROVE  e = <<224 + c \div 4096, 128 + ((c \div 64) % 64), 128 + (c % 64)>>
  <2>1. e = Encoded8(<<224 + c \div 4096, Low6(c, 64), Low6(c, 1)>>, 6)
    BY <1>4, SMT DEF Utf8FromUchar, UTF8_CHAR_MAX
  <2>2. QED
    BY <1>1, <1>4, <2>1, Lens, SMT DEF Encoded8
<1>5. ASSUME c >= 65536
      PROVE  e = <<240 + c \div 262144, 128 + ((c \div 4096) % 64), 128 + ((c \div 64) % 64), 128 + (c % 64)>>
  <2>1. e = Encoded8(<<240 + c \div 262144, Low6(c, 4096), Low6(c, 64), Low6(c, 1)>>, 6)
    BY <1>5, SMT DEF Utf8FromUchar, UTF8_CHAR_MAX
  <2>2. QED
    BY <1>1, <1>5, <2>1, Lens, SMT DEF Encoded8
<1>6. QED
  BY <1>2, <1>3, <1>4, <1>5, SMT

\* A number by its lowest groups of six bits.
LEMMA Sextets ==
  ASSUME NEW c \in Nat
  PROVE  /\ c \div 64 \in Nat /\ c \div 4096 \in Nat /\ c \div 262144 \in Nat
         /\ c % 64 \in Nat /\ c % 64 < 64
         /\ (c \div 64) % 64 \in Nat /\ (c \div 64) % 64 < 64
         /\ (c \div 4096) % 64 \in Nat /\ (c \div 4096) % 64 < 64
         /\ c = (c \div 64) * 64 + (c % 64)
         /\ c \div 64 = (c \div 4096) * 64 + ((c \div 64) % 64)
         /\ c \div 4096 = (c \div 262144) * 64 + ((c \div 4096) % 64)
<1>1. c \div 64 \in Nat /\ c \div 4096 \in Nat /\ c \div 262144 \in Nat
  BY SMT
<1>2. /\ c % 64 \in Nat /\ c % 64 < 64
      /\ (c \div 64) % 64 \in Nat /\ (c \div 64) % 64 < 64
      /\ (c \div 4096) % 64 \in Nat /\ (c \div 4096) % 64 < 64
  BY <1>1, SMT
<1>3. c = (c \div 64) * 64 + (c % 64)
  BY SMT
<1>4. c \div 64 = (c \div 4096) * 64 + ((c \div 64) % 64)
  BY SMT
<1>5. c \div 4096 = (c \div 262144) * 64 + ((c \div 4096) % 64)
  BY SMT
<1>6. QED
  BY <1>1, <1>2, <1>3, <1>4, <1>5, SMT

\* Where the bytes of one sequence are in two put together.
LEMMA Joined ==
  \A e, rest \in Seq(Bytes) : e # <<>> =>
    /\ e \o rest \in Seq(Bytes) /\ e \o rest # <<>>
    /\ Len(e \o rest) \in Nat /\ Len(e \o rest) >= Len(e)
    /\ \A k \in Nat : 1 <= k /\ k <= Len(e) => (e \o rest)[k] = e[k]
<1> SUFFICES ASSUME NEW e \in Seq(Bytes), NEW rest \in Seq(Bytes), e # <<>>
             PROVE  /\ e \o rest \in Seq(Bytes) /\ e \o rest # <<>>
                    /\ Len(e \o rest) \in Nat /\ Len(e \o rest) >= Len(e)
                    /\ \A k \in Nat : 1 <= k /\ k <= Len(e) => (e \o rest)[k] = e[k]
  OBVIOUS
<1>1. /\ e \o rest \in Seq(Bytes) /\ Len(e \o rest) = Len(e) + Len(rest)
      /\ Len(e) \in Nat /\ Len(e) > 0 /\ Len(rest) \in Nat
  BY SMT
<1>2. \A k \in Nat : 1 <= k /\ k <= Len(e) => (e \o rest)[k] = e[k]
  BY SMT
<1>3. e \o rest # <<>>
  BY <1>1, SMT
<1>4. QED
  BY <1>1, <1>2, <1>3, SMT

\* Every character has a sequence of bytes, and whatever follows it is read back as that
\* character, all its bytes taken.
THEOREM Utf8ReadsBack ==
  \A c \in Nat : UcharIsvalid(c) =>
    LET e == Utf8FromUchar(UTF8_CHAR_MAX, c) IN
    /\ e \in Seq(Bytes) /\ e # <<>>
    /\ \A rest \in Seq(Bytes) : UcharFromUtf8(e \o rest) = [count |-> Len(e), uchar |-> c]
<1> SUFFICES ASSUME NEW c \in Nat, UcharIsvalid(c), NEW e, e = Utf8FromUchar(UTF8_CHAR_MAX, c)
             PROVE  /\ e \in Seq(Bytes) /\ e # <<>>
                    /\ \A rest \in Seq(Bytes) : UcharFromUtf8(e \o rest) = [count |-> Len(e), uchar |-> c]
  BY SMT
<1>1. \A n \in Nat : n <= 255 => n \in Bytes
  BY DEF Bytes
<1>2. \A x \in Nat : x < 64 => /\ 128 + x \in Bytes /\ Continues(128 + x) /\ (128 + x) % 64 = x
  BY SMT DEF Bytes, Continues
<1>3. c < 1114112
  BY SMT DEF UcharIsvalid
<1>4. CASE c < 128
  <2>1. e = <<c>> /\ c \in Bytes
    BY <1>1, <1>4, Written, SMT
  <2>2. e \in Seq(Bytes) /\ e # <<>> /\ Len(e) = 1
    BY <2>1, SMT
  <2>3. ASSUME NEW rest \in Seq(Bytes) PROVE UcharFromUtf8(e \o rest) = [count |-> Len(e), uchar |-> c]
    <3> DEFINE s == e \o rest
    <3>1. s \in Seq(Bytes) /\ s # <<>> /\ s[1] = e[1]
      BY <2>2, Joined, SMT
    <3> HIDE DEF s
    <3>2. s[1] = c
      BY <2>1, <3>1, SMT
    <3>3. UcharFromUtf8(s) = Decoded(1, c)
      BY <1>4, <3>1, <3>2, ReadOne, SMT
    <3>4. QED
      BY <2>2, <3>3, SMT DEF s, Decoded
  <2>4. QED
    BY <2>2, <2>3, Zenon
<1>5. CASE c >= 128 /\ c < 2048
  <2> DEFINE h == c \div 64
             x == c % 64
  <2>1. h \in Nat /\ x \in Nat /\ x < 64 /\ c = h * 64 + x /\ h >= 2 /\ h < 32
    BY <1>5, Sextets, SMT
  <2>2. e = <<192 + h, 128 + x>>
    BY <1>5, Written, SMT
  <2> HIDE DEF h, x
  <2>3. 192 + h \in Bytes /\ 128 + x \in Bytes
    BY <1>1, <1>2, <2>1, SMT
  <2>4. e \in Seq(Bytes) /\ e # <<>> /\ Len(e) = 2
    BY <2>2, <2>3, SMT
  <2>5. ASSUME NEW rest \in Seq(Bytes) PROVE UcharFromUtf8(e \o rest) = [count |-> Len(e), uchar |-> c]
    <3> DEFINE s == e \o rest
    <3>0. /\ s \in Seq(Bytes) /\ s # <<>> /\ Len(s) \in Nat /\ Len(s) >= Len(e)
          /\ \A k \in Nat : 1 <= k /\ k <= Len(e) => s[k] = e[k]
      BY <2>4, Joined, Zenon
    <3> HIDE DEF s
    <3>1. s \in Seq(Bytes) /\ s # <<>> /\ Len(s) >= 2 /\ s[1] = e[1] /\ s[2] = e[2]
      BY <2>4, <3>0, SMT
    <3>2. s[1] = 192 + h /\ s[2] = 128 + x
      BY <2>2, <3>1, SMT
    <3>3. (s[1] - 192) * 64 + (s[2] % 64) = c
      BY <1>2, <2>1, <3>2, SMT
    <3>4. Continues(s[2]) /\ s[1] >= 192 /\ s[1] < 224
      BY <1>2, <2>1, <3>2, SMT
    <3>5. UcharFromUtf8(s) = Decoded(2, c)
      BY <1>5, <3>1, <3>3, <3>4, ReadTwo, SMT
    <3>6. QED
      BY <2>4, <3>5, SMT DEF s, Decoded
  <2>6. QED
    BY <2>4, <2>5, Zenon
<1>6. CASE c >= 2048 /\ c < 65536
  <2> DEFINE h == c \div 4096
             y == (c \div 64) % 64
             x == c % 64
  <2>1. /\ h \in Nat /\ y \in Nat /\ y < 64 /\ x \in Nat /\ x < 64
        /\ c = (h * 64 + y) * 64 + x /\ h < 16
    BY <1>6, Sextets, SMT
  <2>2. e = <<224 + h, 128 + y, 128 + x>>
    BY <1>6, Written, SMT
  <2> HIDE DEF h, y, x
  <2>3. 224 + h \in Bytes /\ 128 + y \in Bytes /\ 128 + x \in Bytes
    BY <1>1, <1>2, <2>1, SMT
  <2>4. e \in Seq(Bytes) /\ e # <<>> /\ Len(e) = 3
    BY <2>2, <2>3, SMT
  <2>5. ASSUME NEW rest \in Seq(Bytes) PROVE UcharFromUtf8(e \o rest) = [count |-> Len(e), uchar |-> c]
    <3> DEFINE s == e \o rest
    <3>0. /\ s \in Seq(Bytes) /\ s # <<>> /\ Len(s) \in Nat /\ Len(s) >= Len(e)
          /\ \A k \in Nat : 1 <= k /\ k <= Len(e) => s[k] = e[k]
      BY <2>4, Joined, Zenon
    <3> HIDE DEF s
    <3>1. s \in Seq(Bytes) /\ s # <<>> /\ Len(s) >= 3 /\ s[1] = e[1] /\ s[2] = e[2] /\ s[3] = e[3]
      BY <2>4, <3>0, SMT
    <3>2. s[1] = 224 + h /\ s[2] = 128 + y /\ s[3] = 128 + x
      BY <2>2, <3>1, SMT
    <3>3. ((s[1] - 224) * 64 + (s[2] % 64)) * 64 + (s[3] % 64) = c
      BY <1>2, <2>1, <3>2, SMT
    <3>4. Continues(s[2]) /\ Continues(s[3]) /\ s[1] >= 224 /\ s[1] < 240
      BY <1>2, <2>1, <3>2, SMT
    <3>5. UcharFromUtf8(s) = Decoded(3, c)
      BY <1>6, <3>1, <3>3, <3>4, ReadThree, SMT
    <3>6. QED
      BY <2>4, <3>5, SMT DEF s, Decoded
  <2>6. QED
    BY <2>4, <2>5, Zenon
<1>7. CASE c >= 65536
  <2> DEFINE h == c \div 262144
             z == (c \div 4096) % 64
             y == (c \div 64) % 64
             x == c % 64
  <2>1. /\ h \in Nat /\ z \in Nat /\ z < 64 /\ y \in Nat /\ y < 64 /\ x \in Nat /\ x < 64
        /\ c = ((h * 64 + z) * 64 + y) * 64 + x /\ h < 8
    BY <1>3, <1>7, Sextets, SMT
  <2>2. e = <<240 + h, 128 + z, 128 + y, 128 + x>>
    BY <1>7, Written, SMT
  <2> HIDE DEF h, z, y, x
  <2>3. 240 + h \in Bytes /\ 128 + z \in Bytes /\ 128 + y \in Bytes /\ 128 + x \in Bytes
    BY <1>1, <1>2, <2>1, SMT
  <2>4. e \in Seq(Bytes) /\ e # <<>> /\ Len(e) = 4
    BY <2>2, <2>3, SMT
  <2>5. ASSUME NEW rest \in Seq(Bytes) PROVE UcharFromUtf8(e \o rest) = [count |-> Len(e), uchar |-> c]
    <3> DEFINE s == e \o rest
    <3>0. /\ s \in Seq(Bytes) /\ s # <<>> /\ Len(s) \in Nat /\ Len(s) >= Len(e)
          /\ \A k \in Nat : 1 <= k /\ k <= Len(e) => s[k] = e[k]
      BY <2>4, Joined, Zenon
    <3> HIDE DEF s
    <3>1. s \in Seq(Bytes) /\ s # <<>> /\ Len(s) >= 4 /\ s[1] = e[1] /\ s[2] = e[2] /\ s[3] = e[3] /\ s[4] = e[4]
      BY <2>4, <3>0, SMT
    <3>2. s[1] = 240 + h /\ s[2] = 128 + z /\ s[3] = 128 + y /\ s[4] = 128 + x
      BY <2>2, <3>1, SMT
    <3>3. (((s[1] - 240) * 64 + (s[2] % 64)) * 64 + (s[3] % 64)) * 64 + (s[4] % 64) = c
      BY <1>2, <2>1, <3>2, SMT
    <3>4. Continues(s[2]) /\ Continues(s[3]) /\ Continues(s[4]) /\ s[1] >= 240 /\ s[1] < 248
      BY <1>2, <2>1, <3>2, SMT
    <3>5. UcharFromUtf8(s) = Decoded(4, c)
      BY <1>7, <3>1, <3>3, <3>4, ReadFour, SMT
    <3>6. QED
      BY <2>4, <3>5, SMT DEF s, Decoded
  <2>6. QED
    BY <2>4, <2>5, Zenon
<1>8. QED
  BY <1>4, <1>5, <1>6, <1>7, SMT

LEMMA Firsts ==
  ASSUME NEW s \in Seq(Bytes)
  PROVE  /\ Len(s) >= 1 => SubSeq(s, 1, 1) = <<s[1]>>
         /\ Len(s) >= 2 => SubSeq(s, 1, 2) = <<s[1], s[2]>>
         /\ Len(s) >= 3 => SubSeq(s, 1, 3) = <<s[1], s[2], s[3]>>
         /\ Len(s) >= 4 => SubSeq(s, 1, 4) = <<s[1], s[2], s[3], s[4]>>
<1>1. ASSUME Len(s) >= 1 PROVE SubSeq(s, 1, 1) = <<s[1]>>
  <2> DEFINE t == SubSeq(s, 1, 1)
  <2>1. t \in Seq(Bytes) /\ Len(t) = 1 /\ t[1] = s[1]
    BY <1>1, SMT
  <2> HIDE DEF t
  <2>2. t = <<s[1]>>
    BY <2>1, SMT
  <2>3. QED
    BY <2>2, Zenon DEF t
<1>2. ASSUME Len(s) >= 2 PROVE SubSeq(s, 1, 2) = <<s[1], s[2]>>
  <2> DEFINE t == SubSeq(s, 1, 2)
  <2>1. t \in Seq(Bytes) /\ Len(t) = 2 /\ t[1] = s[1] /\ t[2] = s[2]
    BY <1>2, SMT
  <2> HIDE DEF t
  <2>2. t = <<s[1], s[2]>>
    BY <2>1, SMT
  <2>3. QED
    BY <2>2, Zenon DEF t
<1>3. ASSUME Len(s) >= 3 PROVE SubSeq(s, 1, 3) = <<s[1], s[2], s[3]>>
  <2> DEFINE t == SubSeq(s, 1, 3)
  <2>1. t \in Seq(Bytes) /\ Len(t) = 3 /\ t[1] = s[1] /\ t[2] = s[2] /\ t[3] = s[3]
    BY <1>3, SMT
  <2> HIDE DEF t
  <2>2. t = <<s[1], s[2], s[3]>>
    BY <2>1, SMT
  <2>3. QED
    BY <2>2, Zenon DEF t
<1>4. ASSUME Len(s) >= 4 PROVE SubSeq(s, 1, 4) = <<s[1], s[2], s[3], s[4]>>
  <2> DEFINE t == SubSeq(s, 1, 4)
  <2>1. t \in Seq(Bytes) /\ Len(t) = 4 /\ t[1] = s[1] /\ t[2] = s[2] /\ t[3] = s[3] /\ t[4] = s[4]
    BY <1>4, SMT
  <2> HIDE DEF t
  <2>2. t = <<s[1], s[2], s[3], s[4]>>
    BY <2>1, SMT
  <2>3. QED
    BY <2>2, Zenon DEF t
<1>5. QED
  BY <1>1, <1>2, <1>3, <1>4, Zenon

\* A byte that continues a sequence is its six bits and the mark.
LEMMA Continuing ==
  ASSUME NEW b \in Bytes, Continues(b)
  PROVE  b % 64 \in Nat /\ b % 64 < 64 /\ b = 128 + (b % 64)
<1>1. b \in Nat /\ b >= 128 /\ b <= 191
  BY Byte, SMT DEF Continues
<1>2. QED
  BY <1>1, SMT

\* What is read as a character is that character's own sequence: no longer form of it, no
\* surrogate and no number beyond the last character is taken for one.
THEOREM Utf8OneForm ==
  \A s \in Seq(Bytes) :
    LET d == UcharFromUtf8(s) IN
    d.count > 0 /\ UcharIsvalid(d.uchar) =>
      /\ d.uchar \in Nat /\ d.count <= Len(s)
      /\ SubSeq(s, 1, d.count) = Utf8FromUchar(UTF8_CHAR_MAX, d.uchar)
<1> SUFFICES ASSUME NEW s \in Seq(Bytes), NEW d, d = UcharFromUtf8(s), d.count > 0, UcharIsvalid(d.uchar),
                    NEW e, e = Utf8FromUchar(UTF8_CHAR_MAX, d.uchar)
             PROVE  d.uchar \in Nat /\ d.count <= Len(s) /\ SubSeq(s, 1, d.count) = e
  BY SMT
<1>1. s # <<>> /\ d # Refused
  BY SMT DEF UcharFromUtf8, Decoded, Refused
<1>2. s[1] \in Bytes /\ s[1] \in Nat /\ s[1] <= 255 /\ Len(s) \in Nat /\ Len(s) >= 1
  BY <1>1, Byte, SMT
<1>3. CASE s[1] < 128
  <2>1. d = Decoded(1, s[1])
    BY <1>1, <1>3, ReadOne, SMT
  <2>2. d.count = 1 /\ d.uchar = s[1]
    BY <2>1, SMT DEF Decoded
  <2>3. e = <<s[1]>>
    BY <1>2, <1>3, <2>2, Written, SMT
  <2>4. QED
    BY <1>2, <2>2, <2>3, Firsts, SMT
<1>4. CASE s[1] >= 192 /\ s[1] < 224
  <2> DEFINE c == (s[1] - 192) * 64 + (s[2] % 64)
  <2>1. d = IF Len(s) >= 2 /\ Continues(s[2]) /\ c >= 128 THEN Decoded(2, c) ELSE Refused
    BY <1>1, <1>4, ReadTwo, SMT
  <2> HIDE DEF c
  <2>2. Len(s) >= 2 /\ Continues(s[2]) /\ c >= 128 /\ d = Decoded(2, c)
    BY <1>1, <2>1, Zenon
  <2>3. d.count = 2 /\ d.uchar = c
    BY <2>2, SMT DEF Decoded
  <2> DEFINE h == s[1] - 192
             x == s[2] % 64
  <2>4. s[2] \in Bytes
    BY <1>2, <2>2, SMT
  <2>5. /\ h \in Nat /\ h < 32 /\ s[1] = 192 + h
        /\ x \in Nat /\ x < 64 /\ s[2] = 128 + x
        /\ c = h * 64 + x
    <3>1. h \in Nat /\ h < 32 /\ s[1] = 192 + h
      BY <1>2, <1>4, SMT
    <3>2. x \in Nat /\ x < 64 /\ s[2] = 128 + x
      BY <2>2, <2>4, Continuing, SMT
    <3>3. c = h * 64 + x
      BY SMT DEF c
    <3>4. QED
      BY <3>1, <3>2, <3>3, Zenon
  <2> HIDE DEF h, x
  <2>6. c \in Nat /\ c < 2048 /\ c \div 64 = h /\ c % 64 = x
    BY <2>5, SMT
  <2>7. e = <<192 + h, 128 + x>>
    <3>1. /\ c \in Nat /\ UcharIsvalid(c) /\ e = Utf8FromUchar(UTF8_CHAR_MAX, c)
          /\ c >= 128 /\ c < 2048
      BY <2>2, <2>3, <2>6, SMT
    <3>2. e = <<192 + c \div 64, 128 + (c % 64)>>
      BY <3>1, Written, SMT
    <3>3. c \div 64 = h /\ c % 64 = x
      BY <2>6, SMT
    <3>4. QED
      BY <3>2, <3>3, Zenon
  <2>8. SubSeq(s, 1, 2) = <<s[1], s[2]>>
    BY <2>2, Firsts, SMT
  <2>9. QED
    <3>1. d.uchar \in Nat /\ d.count <= Len(s)
      BY <2>2, <2>3, <2>6, SMT
    <3>2. e = <<s[1], s[2]>>
      BY <2>5, <2>7, SMT
    <3>3. SubSeq(s, 1, d.count) = e
      BY <2>3, <2>8, <3>2, SMT
    <3>4. QED
      BY <3>1, <3>3, Zenon
<1>5. CASE s[1] >= 224 /\ s[1] < 240
  <2> DEFINE c == ((s[1] - 224) * 64 + (s[2] % 64)) * 64 + (s[3] % 64)
  <2>1. d = IF Len(s) >= 3 /\ Continues(s[2]) /\ Continues(s[3]) /\ c >= 2048 THEN Decoded(3, c) ELSE Refused
    BY <1>1, <1>5, ReadThree, SMT
  <2> HIDE DEF c
  <2>2. Len(s) >= 3 /\ Continues(s[2]) /\ Continues(s[3]) /\ c >= 2048 /\ d = Decoded(3, c)
    BY <1>1, <2>1, SMT
  <2>3. d.count = 3 /\ d.uchar = c
    BY <2>2, SMT DEF Decoded
  <2> DEFINE h == s[1] - 224
             y == s[2] % 64
             x == s[3] % 64
             p == h * 64 + y
  <2>4. s[2] \in Bytes /\ s[3] \in Bytes
    BY <1>2, <2>2, SMT
  <2>5. /\ h \in Nat /\ h < 16 /\ s[1] = 224 + h
        /\ y \in Nat /\ y < 64 /\ s[2] = 128 + y
        /\ x \in Nat /\ x < 64 /\ s[3] = 128 + x
        /\ c = p * 64 + x
    <3>1. h \in Nat /\ h < 16 /\ s[1] = 224 + h
      BY <1>2, <1>5, SMT
    <3>2. y \in Nat /\ y < 64 /\ s[2] = 128 + y
      BY <2>2, <2>4, Continuing, SMT
    <3>3. x \in Nat /\ x < 64 /\ s[3] = 128 + x
      BY <2>2, <2>4, Continuing, SMT
    <3>4. c = p * 64 + x
      BY SMT DEF c
    <3>5. QED
      BY <3>1, <3>2, <3>3, <3>4, Zenon
  <2> HIDE DEF h, y, x
  <2>6. p \in Nat /\ p < 1024 /\ p \div 64 = h /\ p % 64 = y
    BY <2>5, SMT
  <2> HIDE DEF p
  <2>7. c \in Nat /\ c < 65536 /\ c \div 64 = p /\ c % 64 = x
    BY <2>5, <2>6, SMT
  <2>8. c \div 4096 = p \div 64
    BY <2>7, SMT
  <2>9. e = <<224 + h, 128 + y, 128 + x>>
    <3>1. c \in Nat /\ UcharIsvalid(c) /\ e = Utf8FromUchar(UTF8_CHAR_MAX, c)
      BY <2>3, <2>7, SMT
    <3>2. e = <<224 + c \div 4096, 128 + ((c \div 64) % 64), 128 + (c % 64)>>
      BY <2>2, <2>7, <3>1, Written, SMT
    <3>3. QED
      BY <2>6, <2>7, <2>8, <3>2, SMT
  <2>10. SubSeq(s, 1, 3) = <<s[1], s[2], s[3]>>
    BY <2>2, Firsts, SMT
  <2>11. QED
    <3>1. d.uchar \in Nat /\ d.count <= Len(s)
      BY <2>2, <2>3, <2>7, SMT
    <3>2. e = <<s[1], s[2], s[3]>>
      BY <2>5, <2>9, SMT
    <3>3. SubSeq(s, 1, d.count) = e
      BY <2>3, <2>10, <3>2, SMT
    <3>4. QED
      BY <3>1, <3>3, Zenon
<1>6. CASE s[1] >= 240 /\ s[1] < 248
  <2> DEFINE c == (((s[1] - 240) * 64 + (s[2] % 64)) * 64 + (s[3] % 64)) * 64 + (s[4] % 64)
  <2>1. d = IF Len(s) >= 4 /\ Continues(s[2]) /\ Continues(s[3]) /\ Continues(s[4]) /\ c >= 65536
            THEN Decoded(4, c) ELSE Refused
    BY <1>1, <1>6, ReadFour, SMT
  <2> HIDE DEF c
  <2>2. /\ Len(s) >= 4 /\ Continues(s[2]) /\ Continues(s[3]) /\ Continues(s[4])
        /\ c >= 65536 /\ d = Decoded(4, c)
    BY <1>1, <2>1, SMT
  <2>3. d.count = 4 /\ d.uchar = c
    BY <2>2, SMT DEF Decoded
  <2> DEFINE h == s[1] - 240
             z == s[2] % 64
             y == s[3] % 64
             x == s[4] % 64
             q == h * 64 + z
             p == q * 64 + y
  <2>4. s[2] \in Bytes /\ s[3] \in Bytes /\ s[4] \in Bytes
    BY <1>2, <2>2, SMT
  <2>5. /\ h \in Nat /\ s[1] = 240 + h
        /\ z \in Nat /\ z < 64 /\ s[2] = 128 + z
        /\ y \in Nat /\ y < 64 /\ s[3] = 128 + y
        /\ x \in Nat /\ x < 64 /\ s[4] = 128 + x
        /\ c = p * 64 + x
    <3>1. h \in Nat /\ s[1] = 240 + h
      BY <1>2, <1>6, SMT
    <3>2. z \in Nat /\ z < 64 /\ s[2] = 128 + z
      BY <2>2, <2>4, Continuing, SMT
    <3>3. y \in Nat /\ y < 64 /\ s[3] = 128 + y
      BY <2>2, <2>4, Continuing, SMT
    <3>4. x \in Nat /\ x < 64 /\ s[4] = 128 + x
      BY <2>2, <2>4, Continuing, SMT
    <3>5. c = p * 64 + x
      BY SMT DEF c
    <3>6. QED
      BY <3>1, <3>2, <3>3, <3>4, <3>5, Zenon
  <2> HIDE DEF h, z, y, x
  <2>6. q \in Nat /\ q \div 64 = h /\ q % 64 = z
    BY <2>5, SMT
  <2> HIDE DEF q
  <2>7. p \in Nat /\ p \div 64 = q /\ p % 64 = y
    BY <2>5, <2>6, SMT
  <2> HIDE DEF p
  <2>8. c \in Nat /\ c \div 64 = p /\ c % 64 = x
    BY <2>5, <2>7, SMT
  <2>9. c \div 4096 = p \div 64 /\ c \div 262144 = (p \div 64) \div 64
    BY <2>7, <2>8, SMT
  <2>10. e = <<240 + h, 128 + z, 128 + y, 128 + x>>
    <3>1. c \in Nat /\ UcharIsvalid(c) /\ e = Utf8FromUchar(UTF8_CHAR_MAX, c)
      BY <2>3, <2>8, SMT
    <3>2. e = <<240 + c \div 262144, 128 + ((c \div 4096) % 64), 128 + ((c \div 64) % 64), 128 + (c % 64)>>
      BY <2>2, <2>8, <3>1, Written, SMT
    <3>3. c \div 262144 = h /\ (c \div 4096) % 64 = z /\ (c \div 64) % 64 = y
      BY <2>6, <2>7, <2>8, <2>9, SMT
    <3>4. QED
      BY <2>8, <3>2, <3>3, SMT
  <2>11. SubSeq(s, 1, 4) = <<s[1], s[2], s[3], s[4]>>
    BY <2>2, Firsts, SMT
  <2>12. QED
    <3>1. d.uchar \in Nat /\ d.count <= Len(s)
      BY <2>2, <2>3, <2>8, SMT
    <3>2. e = <<s[1], s[2], s[3], s[4]>>
      BY <2>5, <2>10, SMT
    <3>3. SubSeq(s, 1, d.count) = e
      BY <2>3, <2>11, <3>2, SMT
    <3>4. QED
      BY <3>1, <3>3, Zenon
<1>7. CASE (s[1] >= 128 /\ s[1] < 192) \/ s[1] >= 248
  BY <1>1, <1>7, ReadOther, SMT
<1>8. QED
  BY <1>2, <1>3, <1>4, <1>5, <1>6, <1>7, SMT

\* The first byte of a character is none that continues one, the others are.
\* One byte that continues nothing, and then only bytes that continue a character.
Shaped(e) == /\ Len(e) \in Nat /\ Len(e) >= 1 /\ ~Continues(e[1])
             /\ \A k \in Nat : 2 <= k /\ k <= Len(e) => Continues(e[k])

LEMMA Shapes ==
  /\ \A x \in Nat : ~Continues(x) => Shaped(<<x>>)
  /\ \A x, y \in Nat : ~Continues(x) /\ Continues(y) => Shaped(<<x, y>>)
  /\ \A x, y, z \in Nat : ~Continues(x) /\ Continues(y) /\ Continues(z) => Shaped(<<x, y, z>>)
  /\ \A x, y, z, u \in Nat : ~Continues(x) /\ Continues(y) /\ Continues(z) /\ Continues(u) => Shaped(<<x, y, z, u>>)
<1>1. \A x \in Nat : ~Continues(x) => Shaped(<<x>>)
  BY SMT DEF Shaped
<1>2. \A x, y \in Nat : ~Continues(x) /\ Continues(y) => Shaped(<<x, y>>)
  BY SMT DEF Shaped
<1>3. \A x, y, z \in Nat : ~Continues(x) /\ Continues(y) /\ Continues(z) => Shaped(<<x, y, z>>)
  BY SMT DEF Shaped
<1>4. \A x, y, z, u \in Nat : ~Continues(x) /\ Continues(y) /\ Continues(z) /\ Continues(u) => Shaped(<<x, y, z, u>>)
  BY SMT DEF Shaped
<1>5. QED
  BY <1>1, <1>2, <1>3, <1>4, Zenon

LEMMA Shape ==
  ASSUME NEW c \in Nat, UcharIsvalid(c)
  PROVE  Shaped(Utf8FromUchar(UTF8_CHAR_MAX, c))
<1>1. /\ c \div 64 \in Nat /\ c \div 4096 \in Nat /\ c \div 262144 \in Nat
      /\ c % 64 \in Nat /\ c % 64 < 64
      /\ (c \div 64) % 64 \in Nat /\ (c \div 64) % 64 < 64
      /\ (c \div 4096) % 64 \in Nat /\ (c \div 4096) % 64 < 64
  BY Sextets, SMT
<1>2. \A x \in Nat : x < 64 => Continues(128 + x)
  BY SMT DEF Continues
<1>3. \A x \in Nat : x < 128 \/ x >= 192 => ~Continues(x)
  BY SMT DEF Continues
<1>4. CASE c < 128
  <2>1. ~Continues(c)
    BY <1>3, <1>4, SMT
  <2>2. Shaped(<<c>>)
    BY <1>1, <2>1, Shapes, SMT
  <2>3. Utf8FromUchar(UTF8_CHAR_MAX, c) = <<c>>
    BY <1>4, Written, SMT
  <2>4. QED
    BY <2>2, <2>3, SMT
<1>5. CASE c >= 128 /\ c < 2048
  <2>1. ~Continues(192 + c \div 64) /\ Continues(128 + (c % 64))
    BY <1>1, <1>2, <1>3, SMT
  <2>2. Shaped(<<192 + c \div 64, 128 + (c % 64)>>)
    BY <1>1, <2>1, Shapes, SMT
  <2>3. Utf8FromUchar(UTF8_CHAR_MAX, c) = <<192 + c \div 64, 128 + (c % 64)>>
    BY <1>5, Written, SMT
  <2>4. QED
    BY <2>2, <2>3, SMT
<1>6. CASE c >= 2048 /\ c < 65536
  <2>1. ~Continues(224 + c \div 4096) /\ Continues(128 + ((c \div 64) % 64)) /\ Continues(128 + (c % 64))
    BY <1>1, <1>2, <1>3, SMT
  <2>2. Shaped(<<224 + c \div 4096, 128 + ((c \div 64) % 64), 128 + (c % 64)>>)
    BY <1>1, <2>1, Shapes, SMT
  <2>3. Utf8FromUchar(UTF8_CHAR_MAX, c) = <<224 + c \div 4096, 128 + ((c \div 64) % 64), 128 + (c % 64)>>
    BY <1>6, Written, SMT
  <2>4. QED
    BY <2>2, <2>3, SMT
<1>7. CASE c >= 65536
  <2>1. /\ ~Continues(240 + c \div 262144) /\ Continues(128 + ((c \div 4096) % 64))
        /\ Continues(128 + ((c \div 64) % 64)) /\ Continues(128 + (c % 64))
    BY <1>1, <1>2, <1>3, SMT
  <2>2. Shaped(<<240 + c \div 262144, 128 + ((c \div 4096) % 64), 128 + ((c \div 64) % 64), 128 + (c % 64)>>)
    BY <1>1, <2>1, Shapes, SMT
  <2>3. Utf8FromUchar(UTF8_CHAR_MAX, c) = <<240 + c \div 262144, 128 + ((c \div 4096) % 64), 128 + ((c \div 64) % 64), 128 + (c % 64)>>
    BY <1>7, Written, SMT
  <2>4. QED
    BY <2>2, <2>3, SMT
<1>8. QED
  BY <1>4, <1>5, <1>6, <1>7, SMT

\* utf8_previous_char finds, from the end of a character in any text, where it begins.
THEOREM PreviousCharFound ==
  \A c \in Nat : \A before \in Seq(Bytes) : UcharIsvalid(c) =>
    LET e == Utf8FromUchar(UTF8_CHAR_MAX, c) IN
    Utf8PreviousChar(before \o e, Len(before) + Len(e) + 1) = Len(before) + 1
<1> SUFFICES ASSUME NEW c \in Nat, NEW before \in Seq(Bytes), UcharIsvalid(c),
                    NEW e, e = Utf8FromUchar(UTF8_CHAR_MAX, c)
             PROVE  Utf8PreviousChar(before \o e, Len(before) + Len(e) + 1) = Len(before) + 1
  BY SMT
<1> DEFINE s == before \o e
           m == Len(before)
           n == Len(e)
<1>1. n \in Nat /\ n >= 1 /\ ~Continues(e[1]) /\ \A k \in Nat : 2 <= k /\ k <= n => Continues(e[k])
  BY Shape, Zenon DEF Shaped
<1>2. e \in Seq(Bytes)
  BY Utf8ReadsBack, SMT
<1>3. m \in Nat /\ \A k \in Nat : 1 <= k /\ k <= n => s[m + k] = e[k]
  BY <1>2, SMT
<1> HIDE DEF s, m, n
<1>4. ~Continues(s[m + 1])
  BY <1>1, <1>3, SMT
<1>5. ASSUME NEW j \in (m + 2)..(m + n) PROVE Continues(s[j])
  <2>1. PICK k \in Nat : k = j - m
    BY <1>1, <1>3, SMT
  <2>2. 2 <= k /\ k <= n /\ j = m + k /\ 1 <= k
    BY <1>1, <1>3, <2>1, SMT
  <2>3. s[j] = e[k] /\ Continues(e[k])
    BY <1>1, <1>3, <2>2, SMT
  <2>4. QED
    BY <2>3, Zenon
<1> DEFINE Starts(k) == ~Continues(s[k]) /\ \A j \in (k + 1)..(m + n) : Continues(s[j])
           k0 == CHOOSE k \in 1..(m + n) : Starts(k)
<1>6. m + 1 \in 1..(m + n) /\ Starts(m + 1)
  <2>1. m + 1 \in 1..(m + n) /\ (m + 1) + 1 = m + 2
    BY <1>1, <1>3, SMT
  <2>2. QED
    BY <1>4, <1>5, <2>1, Zenon
<1>7. k0 \in 1..(m + n) /\ Starts(k0)
  BY <1>6, Zenon
<1> HIDE DEF k0
<1>8. k0 = m + 1
  <2>1. ~(k0 < m + 1)
    <3>1. SUFFICES ASSUME k0 < m + 1 PROVE FALSE
      BY SMT
    <3>2. m + 1 \in (k0 + 1)..(m + n)
      BY <1>1, <1>3, <1>7, <3>1, SMT
    <3>3. QED
      BY <1>4, <1>7, <3>2, Zenon
  <2>2. ~(k0 > m + 1)
    <3>1. SUFFICES ASSUME k0 > m + 1 PROVE FALSE
      BY SMT
    <3>2. k0 \in (m + 2)..(m + n)
      BY <1>1, <1>3, <1>7, <3>1, SMT
    <3>3. QED
      BY <1>5, <1>7, <3>2, Zenon
  <2>3. QED
    BY <1>1, <1>3, <1>7, <2>1, <2>2, SMT
<1>9. (m + n + 1) - 1 = m + n
  BY <1>1, <1>3, SMT
<1>10. QED
  BY <1>8, <1>9, Zenon DEF Utf8PreviousChar, k0, s, m, n

-----------------------------------------------------------------------------
(* UTF-16 *)

LEMMA SwappedTwice ==
  ASSUME NEW u \in Nat, u < 65536
  PROVE  SwapUnit(SwapUnit(u)) = u
<1> DEFINE h == u \div 256
           l == u % 256
<1>1. h \in Nat /\ h < 256 /\ l \in Nat /\ l < 256 /\ u = h * 256 + l
  BY SMT
<1>2. SwapUnit(u) = l * 256 + h
  BY SMT DEF SwapUnit
<1> HIDE DEF h, l
<1>3. (l * 256 + h) % 256 = h /\ (l * 256 + h) \div 256 = l
  BY <1>1, SMT
<1>4. QED
  BY <1>1, <1>2, <1>3, SMT DEF SwapUnit

\* Every character below the last plane has one or two units, and whatever follows them they
\* are read back as that character, in either order of the bytes of a unit.
THEOREM Utf16ReadsBack ==
  \A c \in Nat : UcharIsvalid(c) /\ c < 1048576 =>
    LET w == Utf16FromUchar(UTF16_CHAR_MAX, c)
        f == Utf16fFromUchar(UTF16_CHAR_MAX, c)
    IN  /\ Len(w) \in {1, 2} /\ Len(f) = Len(w)
        /\ \A rest \in Seq(Nat) :
             /\ UcharFromUtf16(w \o rest, Len(w \o rest)) = [count |-> Len(w), uchar |-> c]
             /\ UcharFromUtf16f(f \o rest, Len(f \o rest)) = [count |-> Len(w), uchar |-> c]
<1>0. SUFFICES ASSUME NEW c \in Nat, UcharIsvalid(c), c < 1048576,
                    NEW w, w = Utf16FromUchar(UTF16_CHAR_MAX, c),
                    NEW f, f = Utf16fFromUchar(UTF16_CHAR_MAX, c)
             PROVE  /\ Len(w) \in {1, 2} /\ Len(f) = Len(w)
                    /\ \A rest \in Seq(Nat) :
                         /\ UcharFromUtf16(w \o rest, Len(w \o rest)) = [count |-> Len(w), uchar |-> c]
                         /\ UcharFromUtf16f(f \o rest, Len(f \o rest)) = [count |-> Len(w), uchar |-> c]
  BY SMT
<1>1. f = [k \in DOMAIN w |-> SwapUnit(w[k])]
  BY <1>0, SMT DEF Utf16fFromUchar
<1>2. \A u \in Nat : SwapUnit(u) \in Nat
  BY SMT DEF SwapUnit
<1>3. CASE c < 65536
  <2>1. w = <<c>>
    BY <1>0, <1>3, SMT DEF Utf16FromUchar, UTF16_CHAR_MAX
  <2>2. f = <<SwapUnit(c)>>
    BY <1>1, <2>1, SMT
  <2>3. ~HighSurrogate(c) /\ ~LowSurrogate(c)
    BY <1>0, <1>3, SMT DEF UcharIsvalid, HighSurrogate, LowSurrogate
  <2>4. \A v, count : v[1] = c => UcharFromUtf16(v, count) = [count |-> 1, uchar |-> c]
    BY <2>3, SMT DEF UcharFromUtf16, Decoded
  <2>5. ASSUME NEW rest \in Seq(Nat)
        PROVE  /\ UcharFromUtf16(w \o rest, Len(w \o rest)) = [count |-> 1, uchar |-> c]
               /\ UcharFromUtf16f(f \o rest, Len(f \o rest)) = [count |-> 1, uchar |-> c]
    <3>1. (w \o rest)[1] = c
      BY <2>1, SMT
    <3>2. (f \o rest)[1] = SwapUnit(c) /\ Len(f \o rest) \in Nat /\ Len(f \o rest) >= 1
      BY <1>2, <2>2, SMTT(30)
    <3> DEFINE n == Len(f \o rest)
               v == [k \in 1..2 |-> IF k <= n THEN SwapUnit((f \o rest)[k]) ELSE 0]
    <3>3. v[1] = c
      BY <1>3, <3>2, SwappedTwice, SMT
    <3>4. UcharFromUtf16f(f \o rest, n) = UcharFromUtf16(v, n)
      BY Zenon DEF UcharFromUtf16f
    <3> HIDE DEF v, n
    <3>5. UcharFromUtf16(v, n) = [count |-> 1, uchar |-> c]
      BY <2>4, <3>3, Zenon
    <3>6. UcharFromUtf16(w \o rest, Len(w \o rest)) = [count |-> 1, uchar |-> c]
      BY <2>4, <3>1, Zenon
    <3>7. QED
      BY <3>4, <3>5, <3>6, Zenon DEF n
  <2>6. Len(w) = 1 /\ Len(f) = 1
    BY <2>1, <2>2, SMT
  <2>7. QED
    BY <2>5, <2>6, Zenon
<1>4. CASE c >= 65536
  <2> DEFINE h == (c - 65536) \div 1024
             l == (c - 65536) % 1024
             a == 55296 + h
             b == 56320 + l
  <2>1. h \in Nat /\ h < 1024 /\ l \in Nat /\ l < 1024 /\ c = 65536 + h * 1024 + l
    BY <1>0, <1>4, SMT
  <2>2. w = <<a, b>>
    BY <1>0, <1>4, SMT DEF Utf16FromUchar, UTF16_CHAR_MAX
  <2> HIDE DEF h, l
  <2>3. /\ a \in Nat /\ a < 65536 /\ HighSurrogate(a) /\ a % 1024 = h
        /\ b \in Nat /\ b < 65536 /\ LowSurrogate(b) /\ b % 1024 = l
    BY <2>1, SMT DEF HighSurrogate, LowSurrogate
  <2> HIDE DEF a, b
  <2>4. f = <<SwapUnit(a), SwapUnit(b)>>
    BY <1>1, <2>2, SMT
  <2>5. \A v, count : v[1] = a /\ v[2] = b /\ count > 1 => UcharFromUtf16(v, count) = [count |-> 2, uchar |-> c]
    BY <2>1, <2>3, SMT DEF UcharFromUtf16, Decoded
  <2>6. ASSUME NEW rest \in Seq(Nat)
        PROVE  /\ UcharFromUtf16(w \o rest, Len(w \o rest)) = [count |-> 2, uchar |-> c]
               /\ UcharFromUtf16f(f \o rest, Len(f \o rest)) = [count |-> 2, uchar |-> c]
    <3>1. (w \o rest)[1] = a /\ (w \o rest)[2] = b /\ Len(w \o rest) > 1
      BY <2>2, <2>3, SMT
    <3>2. /\ (f \o rest)[1] = SwapUnit(a) /\ (f \o rest)[2] = SwapUnit(b)
          /\ Len(f \o rest) \in Nat /\ Len(f \o rest) >= 2
      <4> DEFINE x == SwapUnit(a)
                 y == SwapUnit(b)
      <4>0. a \in Nat /\ b \in Nat
        BY <2>3, SMT
      <4>1. x \in Nat /\ y \in Nat /\ f = <<x, y>>
        BY <1>2, <2>4, <4>0, Zenon
      <4> HIDE DEF x, y
      <4>2. (f \o rest)[1] = x /\ (f \o rest)[2] = y /\ Len(f \o rest) \in Nat /\ Len(f \o rest) >= 2
        BY <4>1, SMT
      <4>3. QED
        BY <4>2, SMT DEF x, y
    <3> DEFINE n == Len(f \o rest)
               v == [k \in 1..2 |-> IF k <= n THEN SwapUnit((f \o rest)[k]) ELSE 0]
    <3>3. v[1] = a /\ v[2] = b /\ n > 1
      <4>1. SwapUnit(SwapUnit(a)) = a /\ SwapUnit(SwapUnit(b)) = b
        BY <2>3, SwappedTwice, SMT
      <4>2. n >= 2 /\ n \in Nat
        BY <3>2, SMT
      <4> HIDE DEF n
      <4>3. 1 \in 1..2 /\ 2 \in 1..2 /\ 1 <= n /\ 2 <= n /\ n > 1
        BY <4>2, SMT
      <4>4. v[1] = SwapUnit((f \o rest)[1]) /\ v[2] = SwapUnit((f \o rest)[2])
        BY <4>3, Zenon
      <4>5. QED
        BY <3>2, <4>1, <4>3, <4>4, Zenon
    <3>4. UcharFromUtf16f(f \o rest, n) = UcharFromUtf16(v, n)
      BY Zenon DEF UcharFromUtf16f
    <3> HIDE DEF v, n
    <3>5. UcharFromUtf16(v, n) = [count |-> 2, uchar |-> c]
      BY <2>5, <3>3, Zenon
    <3>6. UcharFromUtf16(w \o rest, Len(w \o rest)) = [count |-> 2, uchar |-> c]
      BY <2>5, <3>1, Zenon
    <3>7. QED
      BY <3>4, <3>5, <3>6, Zenon DEF n
  <2>7. Len(w) = 2 /\ Len(f) = 2
    BY <2>2, <2>4, SMT
  <2>8. QED
    BY <2>6, <2>7, Zenon
<1>5. QED
  BY <1>3, <1>4, SMT

-----------------------------------------------------------------------------
(* The allocators *)

Blocks == [size : Nat, used : BOOLEAN]
Holdings == [block : Nat, want : Requests]

Typed == /\ allocptr \in [1..Slots -> Nat] /\ heap \in Seq(Blocks)
         /\ held \subseteq Holdings /\ IsFiniteSet(held) /\ peak \in [Sizes -> Nat]
\* The table is filled from its first slot on and never emptied.
InTable == \A s \in 1..Slots : allocptr[s] = IF s <= Len(heap) THEN s ELSE 0
\* What the library holds is marked and of the size it was asked for; only one holds it.
Marked == \A x \in held : /\ x.block \in 1..Len(heap)
                          /\ heap[x.block] = [size |-> Rounded(x.want), used |-> TRUE]
Single == \A x, y \in held : x.block = y.block => x = y
\* What is marked and in the table is held.
Busy == \A b \in 1..Len(heap) : b <= Slots /\ heap[b].used = TRUE => \E x \in held : x.block = b
Known == \A b \in 1..Len(heap) : heap[b].size \in Sizes
Peaks == \A s \in Sizes : HeldOf(held, s) <= peak[s] /\ peak[s] <= MaxLive

AllocInv == Typed /\ InTable /\ Marked /\ Single /\ Busy /\ Known /\ Peaks

-----------------------------------------------------------------------------
(* Sizes, and sets *)

LEMMA RoundedFacts ==
  ASSUME NEW n \in Requests
  PROVE  Rounded(n) \in Nat /\ Rounded(n) >= n /\ Rounded(n) \in Sizes
<1>1. n \in Nat /\ Unit \in Nat /\ Unit > 0
  BY AllocatorAssumption
<1>2. Rounded(n) \in Sizes
  BY DEF Sizes
<1> DEFINE q == (n + Unit - 1) \div Unit
<1>3. q \in Nat /\ q * Unit >= n
  BY <1>1
<1>4. Rounded(n) = q * Unit
  BY DEF Rounded
<1> HIDE DEF q
<1>5. q * Unit \in Nat
  BY <1>1, <1>3
<1> QED
  BY <1>2, <1>3, <1>4, <1>5

LEMMA SizeFacts ==
  ASSUME NEW s \in Sizes
  PROVE  s \in Nat
BY RoundedFacts DEF Sizes

LEMMA MaxFacts ==
  ASSUME NEW m \in Nat, NEW n \in Nat
  PROVE  Max({m, n}) \in {m, n} /\ Max({m, n}) >= m /\ Max({m, n}) >= n
<1>1. \E x \in {m, n} : \A y \in {m, n} : x >= y
  OBVIOUS
<1> QED
  BY <1>1 DEF Max

\* A set all of whose parts, one for each member of S, have at most m members.
LEMMA PartsBound ==
  ASSUME NEW D, IsFiniteSet(D), NEW S, IsFiniteSet(S), NEW part \in [D -> S], NEW m \in Nat,
         \A s \in S : Cardinality({b \in D : part[b] = s}) <= m
  PROVE  Cardinality(D) <= Cardinality(S) * m
<1> DEFINE Part(s) == {b \in D : part[b] = s}
<1>1. ASSUME NEW s \in S PROVE \E r : r \in Injection(Part(s), 1..m)
  <2>1. Part(s) \subseteq D
    OBVIOUS
  <2>2. IsFiniteSet(Part(s))
    BY <2>1, FS_Subset
  <2> DEFINE c == Cardinality(Part(s))
  <2>3. c \in Nat /\ c <= m /\ ExistsBijection(1..c, Part(s))
    BY <2>2, FS_CardinalityType
  <2>4. ExistsBijection(Part(s), 1..c)
    BY <2>3, Fun_ExistsBijSymmetric
  <2> HIDE DEF c
  <2>5. PICK r : r \in Bijection(Part(s), 1..c)
    BY <2>4, Fun_ExistsBij
  <2>6. r \in Injection(Part(s), 1..c)
    BY <2>5, Fun_BijectionProperties
  <2>7. 1..c \subseteq 1..m
    BY <2>3
  <2>8. r \in [Part(s) -> 1..c] /\ \A x, y \in Part(s) : r[x] = r[y] => x = y
    BY <2>6 DEF Injection, IsInjective
  <2>9. r \in Injection(Part(s), 1..m)
    BY <2>7, <2>8 DEF Injection, IsInjective
  <2> QED
    BY <2>9
<1> DEFINE rank == [s \in S |-> CHOOSE r : r \in Injection(Part(s), 1..m)]
<1>2. ASSUME NEW s \in S PROVE rank[s] \in Injection(Part(s), 1..m)
  BY <1>1
<1> HIDE DEF rank
<1> DEFINE place == [b \in D |-> <<part[b], rank[part[b]][b]>>]
<1>3. ASSUME NEW b \in D PROVE rank[part[b]][b] \in 1..m
  <2>1. part[b] \in S /\ b \in Part(part[b])
    OBVIOUS
  <2> QED
    BY <1>2, <2>1 DEF Injection
<1>4. place \in [D -> S \X (1..m)]
  BY <1>3
<1>5. ASSUME NEW x \in D, NEW y \in D, place[x] = place[y] PROVE x = y
  <2>1. part[x] = part[y] /\ rank[part[x]][x] = rank[part[x]][y]
    BY <1>5
  <2>2. part[x] \in S /\ x \in Part(part[x]) /\ y \in Part(part[x])
    BY <2>1
  <2> QED
    BY <1>2, <2>1, <2>2 DEF Injection, IsInjective
<1>6. place \in Injection(D, S \X (1..m))
  BY <1>4, <1>5 DEF Injection, IsInjective
<1> HIDE DEF place
<1>7. IsFiniteSet(1..m) /\ Cardinality(1..m) = m
  BY FS_Interval
<1>8. /\ IsFiniteSet(S \X (1..m))
      /\ Cardinality(S \X (1..m)) = Cardinality(S) * Cardinality(1..m)
  BY <1>7, FS_Product
<1> QED
  BY <1>6, <1>7, <1>8, FS_Injection


\* What is held of one size.
Mine(h, size) == {x \in h : Rounded(x.want) = size}

LEMMA HeldOfFacts ==
  ASSUME NEW h, IsFiniteSet(h), NEW g \in SUBSET h, NEW s
  PROVE  /\ IsFiniteSet(g) /\ HeldOf(g, s) = Cardinality(Mine(g, s)) /\ IsFiniteSet(Mine(g, s))
         /\ HeldOf(g, s) \in Nat /\ HeldOf(g, s) <= HeldOf(h, s) /\ HeldOf(h, s) <= Cardinality(h)
         /\ HeldOf(h, s) \in Nat
<1>1. HeldOf(g, s) = Cardinality(Mine(g, s)) /\ HeldOf(h, s) = Cardinality(Mine(h, s))
  BY DEF HeldOf, Mine
<1>2. Mine(h, s) \subseteq h /\ Mine(g, s) \subseteq Mine(h, s)
  BY DEF Mine
<1>3. /\ IsFiniteSet(Mine(h, s)) /\ IsFiniteSet(g)
      /\ Cardinality(Mine(h, s)) <= Cardinality(h)
  BY <1>2, FS_Subset
<1>4. IsFiniteSet(Mine(g, s)) /\ Cardinality(Mine(g, s)) <= Cardinality(Mine(h, s))
  BY <1>2, <1>3, FS_Subset
<1>5. Cardinality(Mine(g, s)) \in Nat /\ Cardinality(Mine(h, s)) \in Nat
  BY <1>3, <1>4, FS_CardinalityType
<1> QED
  BY <1>1, <1>3, <1>4, <1>5

\* A block is handed out.
LEMMA HoldFacts ==
  ASSUME Typed, Peaks, NEW want \in Requests, NEW block \in Nat, Cardinality(held) < MaxLive,
         Hold(block, want), NEW new, new = [block |-> block, want |-> want]
  PROVE  /\ held' = held \union {new} /\ new \in Holdings /\ held' \subseteq Holdings
         /\ IsFiniteSet(held') /\ peak' \in [Sizes -> Nat] /\ Peaks'
         /\ \A s \in Sizes : peak'[s] >= peak[s]
         /\ peak'[Rounded(want)] >= HeldOf(held', Rounded(want))
<1> DEFINE size == Rounded(want)
           n == HeldOf(held', size)
<1>1. size \in Sizes /\ MaxLive \in Nat
  BY RoundedFacts, AllocatorAssumption
<1>2. held' = held \union {new} /\ new \in Holdings /\ held' \subseteq Holdings
  BY DEF Hold, Typed, Holdings
<1>3. IsFiniteSet(held) /\ Cardinality(held) \in Nat
  BY FS_CardinalityType DEF Typed
<1>4. IsFiniteSet(held') /\ Cardinality(held') <= Cardinality(held) + 1
  <2>1. /\ IsFiniteSet(held \union {new})
        /\ Cardinality(held \union {new}) = IF new \in held THEN Cardinality(held) ELSE Cardinality(held) + 1
    BY <1>3, FS_AddElement, Zenon
  <2>2. Cardinality(held \union {new}) <= Cardinality(held) + 1
    BY <1>3, <2>1
  <2> QED
    BY <1>2, <2>1, <2>2
<1>5. Cardinality(held') \in Nat /\ Cardinality(held') <= MaxLive
  BY <1>1, <1>3, <1>4, FS_CardinalityType
<1>6. n \in Nat /\ n <= Cardinality(held')
  BY <1>4, HeldOfFacts
<1>7. n <= MaxLive
  BY <1>1, <1>5, <1>6
<1>8. peak' = [peak EXCEPT ![size] = Max({peak[size], n})] /\ peak \in [Sizes -> Nat]
  BY DEF Hold, Typed
<1>9. ASSUME NEW s \in Sizes, s # size PROVE HeldOf(held', s) = HeldOf(held, s)
  <2>1. Mine(held', s) = Mine(held, s)
    BY <1>2, <1>9 DEF Mine
  <2> QED
    BY <2>1 DEF HeldOf, Mine
<1> HIDE DEF n, size
<1> DEFINE top == Max({peak[size], n})
<1>10. peak[size] \in Nat /\ peak[size] <= MaxLive
  BY <1>1, <1>8 DEF Peaks
<1>11. top \in Nat /\ top >= peak[size] /\ top >= n /\ top <= MaxLive
  BY <1>1, <1>6, <1>7, <1>10, MaxFacts
<1> HIDE DEF top
<1>12. /\ peak' \in [Sizes -> Nat] /\ peak'[size] = top
       /\ \A s \in Sizes : s # size => peak'[s] = peak[s]
  BY <1>1, <1>8, <1>11 DEF top
<1>13. \A s \in Sizes : peak'[s] >= peak[s]
  BY <1>8, <1>11, <1>12
<1>14. Peaks'
  <2>1. ASSUME NEW s \in Sizes PROVE HeldOf(held', s) <= peak'[s] /\ peak'[s] <= MaxLive
    <3>1. CASE s = size
      BY <1>11, <1>12, <3>1 DEF n
    <3>2. CASE s # size
      BY <1>9, <1>12, <3>2 DEF Peaks
    <3> QED
      BY <3>1, <3>2
  <2> QED
    BY <2>1 DEF Peaks
<1>15. peak'[size] >= HeldOf(held', size)
  BY <1>11, <1>12 DEF n
<1> QED
  BY <1>2, <1>4, <1>12, <1>13, <1>14, <1>15 DEF size

LEMMA HeapFacts ==
  ASSUME Typed
  PROVE  Len(heap) \in Nat /\ DOMAIN heap = 1..Len(heap) /\ \A b \in 1..Len(heap) : heap[b] \in Blocks
BY DEF Typed

\* The least of some numbers: of the intervals from 0 to them, one has none of the others
\* as a proper part.
LEMMA MinFacts ==
  ASSUME NEW S \in SUBSET Nat, S # {}
  PROVE  Min(S) \in S /\ \A x \in S : Min(S) <= x
<1> DEFINE T == {0..x : x \in S}
<1>1. T # {} /\ \A x \in S : 0..x \in T
  OBVIOUS
<1>2. T \subseteq FiniteSubsetsOf(Nat)
  <2>1. ASSUME NEW x \in S PROVE 0..x \in FiniteSubsetsOf(Nat)
    BY FS_Interval DEF FiniteSubsetsOf
  <2> QED
    BY <2>1
<1>3. PICK t \in T : \A u \in T : ~(<<u, t>> \in StrictSubsetOrdering(Nat))
  BY <1>1, <1>2, FS_StrictSubsetOrderingWellFounded, WFMin
<1>4. PICK x \in S : t = 0..x
  OBVIOUS
<1>5. ASSUME NEW y \in S PROVE x <= y
  <2>1. SUFFICES ASSUME y < x PROVE FALSE
    OBVIOUS
  <2>2. 0..y \subseteq 0..x /\ 0..y # 0..x /\ 0..x \in SUBSET Nat /\ 0..y \in SUBSET Nat
    BY <2>1
  <2>3. <<0..y, 0..x>> \in StrictSubsetOrdering(Nat)
    BY <2>2 DEF StrictSubsetOrdering
  <2> QED
    BY <1>1, <1>3, <1>4, <2>3
<1> QED
  BY <1>4, <1>5 DEF Min

-----------------------------------------------------------------------------
(* The steps *)

LEMMA AllocInvInit ==
  ASSUME AllocInit
  PROVE  AllocInv /\ NoGrowth
<1>1. heap = <<>> /\ held = {} /\ heap \in Seq(Blocks) /\ Len(heap) = 0 /\ DOMAIN heap = {}
  BY DEF AllocInit
<1>2. IsFiniteSet({}) /\ Cardinality({}) = 0
  BY FS_EmptySet
<1>3. allocptr = [s \in 1..Slots |-> 0] /\ peak = [s \in Sizes |-> 0]
  BY DEF AllocInit
<1>4. MaxLive \in Nat /\ Slots \in Nat
  BY AllocatorAssumption
<1>5. Typed
  BY <1>1, <1>2, <1>3 DEF Typed
<1>6. \A s \in Sizes : HeldOf(held, s) = 0 /\ BlocksOf(heap, s) = {}
  BY <1>1, <1>2 DEF HeldOf, BlocksOf
<1>7. Peaks /\ NoGrowth
  BY <1>2, <1>3, <1>4, <1>6 DEF Peaks, NoGrowth
<1>8. InTable
  BY <1>1, <1>3, <1>4 DEF InTable
<1> QED
  BY <1>1, <1>5, <1>7, <1>8 DEF AllocInv, Marked, Single, Busy, Known

\* The block that fast_alloc finds in the table.
LEMMA ReusedFacts ==
  ASSUME AllocInv, NEW want \in Requests, Matching(Rounded(want)) # {},
         NEW b, b = allocptr[Min(Matching(Rounded(want)))]
  PROVE  /\ b \in 1..Len(heap) /\ heap[b] = [size |-> Rounded(want), used |-> FALSE]
         /\ \A x \in held : x.block # b
<1> DEFINE M == Matching(Rounded(want))
<1>1. M \subseteq 1..Slots /\ M \in SUBSET Nat
  BY DEF Matching
<1>2. Min(M) \in M
  BY <1>1, MinFacts
<1> DEFINE s == Min(M)
<1>3. s \in 1..Slots /\ allocptr[s] # 0 /\ heap[allocptr[s]] = [size |-> Rounded(want), used |-> FALSE]
  BY <1>2 DEF Matching
<1> HIDE DEF s, M
<1>4. b = allocptr[s]
  BY DEF s, M
<1>5. s <= Len(heap) /\ b = s
  BY <1>3, <1>4 DEF AllocInv, InTable
<1>6. b \in 1..Len(heap)
  BY <1>3, <1>5, HeapFacts DEF AllocInv
<1>7. heap[b] = [size |-> Rounded(want), used |-> FALSE]
  BY <1>3, <1>4
<1>8. ASSUME NEW x \in held, x.block = b PROVE FALSE
  <2>1. heap[b] = [size |-> Rounded(x.want), used |-> TRUE]
    BY <1>8 DEF AllocInv, Marked
  <2>2. heap[b].used = TRUE /\ heap[b].used = FALSE
    BY <1>7, <2>1
  <2> QED
    BY <2>2
<1> QED
  BY <1>6, <1>7, <1>8

\* The same heap with one mark changed.
Remarked(h, b, mark) ==
  /\ h \in Seq(Blocks) /\ Len(h) = Len(heap)
  /\ \A c \in 1..Len(heap) : h[c].size = heap[c].size
  /\ \A c \in 1..Len(heap) : c # b => h[c] = heap[c]
  /\ h[b] = [size |-> heap[b].size, used |-> mark]
  /\ \A s : BlocksOf(h, s) = BlocksOf(heap, s)
LEMMA MarkFacts ==
  ASSUME Typed, NEW b \in 1..Len(heap), NEW mark \in BOOLEAN,
         NEW h, h = [heap EXCEPT ![b].used = mark]
  PROVE  Remarked(h, b, mark)
<1>1. Len(heap) \in Nat /\ DOMAIN heap = 1..Len(heap) /\ \A c \in 1..Len(heap) : heap[c] \in Blocks
  BY HeapFacts
<1> DEFINE e == [heap[b] EXCEPT !.used = mark]
<1>2. e \in Blocks /\ e.size = heap[b].size /\ e = [size |-> heap[b].size, used |-> mark]
  BY <1>1 DEF Blocks
<1>3. h = [heap EXCEPT ![b] = e]
  OBVIOUS
<1> HIDE DEF e
<1>4. h \in Seq(Blocks) /\ Len(h) = Len(heap) /\ DOMAIN h = 1..Len(heap)
  <2>1. h \in [1..Len(heap) -> Blocks]
    BY <1>1, <1>2, <1>3 DEF Typed
  <2> QED
    BY <1>1, <2>1
<1>5. h[b] = e /\ \A c \in 1..Len(heap) : c # b => h[c] = heap[c]
  BY <1>1, <1>3
<1>6. \A c \in 1..Len(heap) : h[c].size = heap[c].size
  BY <1>2, <1>5
<1>7. \A s : BlocksOf(h, s) = BlocksOf(heap, s)
  BY <1>1, <1>4, <1>6 DEF BlocksOf
<1> QED
  BY <1>2, <1>4, <1>5, <1>6, <1>7 DEF Remarked

LEMMA ReuseStep ==
  ASSUME AllocInv, NEW want \in Requests, FastReuse(want)
  PROVE  AllocInv' /\ (NoGrowth => NoGrowth')
<1> DEFINE b == allocptr[Min(Matching(Rounded(want)))]
           new == [block |-> b, want |-> want]
<1>1. /\ Cardinality(held) < MaxLive /\ heap' = [heap EXCEPT ![b].used = TRUE] /\ Hold(b, want)
      /\ allocptr' = allocptr /\ Matching(Rounded(want)) # {}
  BY DEF FastReuse
<1>2. /\ b \in 1..Len(heap) /\ heap[b] = [size |-> Rounded(want), used |-> FALSE]
      /\ \A x \in held : x.block # b
  BY <1>1, ReusedFacts
<1> HIDE DEF b
<1>3. Typed /\ InTable /\ Marked /\ Single /\ Busy /\ Known /\ Peaks
  BY DEF AllocInv
<1>4. /\ heap' \in Seq(Blocks) /\ Len(heap') = Len(heap)
      /\ \A c \in 1..Len(heap) : heap'[c].size = heap[c].size
      /\ \A c \in 1..Len(heap) : c # b => heap'[c] = heap[c]
      /\ heap'[b] = [size |-> Rounded(want), used |-> TRUE]
      /\ \A s : BlocksOf(heap', s) = BlocksOf(heap, s)
  <2>1. heap[b].size = Rounded(want)
    BY <1>2
  <2>2. Remarked(heap', b, TRUE)
    BY <1>1, <1>2, <1>3, MarkFacts, Zenon
  <2> QED
    BY <2>1, <2>2 DEF Remarked
<1>5. b \in Nat /\ Len(heap) \in Nat
  BY <1>2, <1>3, HeapFacts
<1>6. /\ held' = held \union {new} /\ new \in Holdings /\ held' \subseteq Holdings
      /\ IsFiniteSet(held') /\ peak' \in [Sizes -> Nat] /\ Peaks'
      /\ \A s \in Sizes : peak'[s] >= peak[s]
  BY <1>1, <1>3, <1>5, HoldFacts
<1>7. new.block = b /\ new.want = want
  OBVIOUS
<1> HIDE DEF new
<1>8. Typed' /\ InTable' /\ Known'
  BY <1>1, <1>3, <1>4, <1>6 DEF Typed, InTable, Known
<1>9. Marked'
  <2>1. ASSUME NEW x \in held'
        PROVE  x.block \in 1..Len(heap') /\ heap'[x.block] = [size |-> Rounded(x.want), used |-> TRUE]
    <3>1. CASE x = new
      BY <1>2, <1>4, <1>7, <3>1
    <3>2. CASE x \in held
      BY <1>2, <1>3, <1>4, <3>2 DEF Marked
    <3> QED
      BY <1>6, <3>1, <3>2
  <2> QED
    BY <2>1 DEF Marked
<1>10. Single'
  BY <1>2, <1>3, <1>6, <1>7 DEF Single
<1>11. Busy'
  <2>1. ASSUME NEW c \in 1..Len(heap'), c <= Slots, heap'[c].used = TRUE
        PROVE  \E x \in held' : x.block = c
    <3>1. CASE c = b
      BY <1>6, <1>7, <3>1
    <3>2. CASE c # b
      BY <1>3, <1>4, <1>6, <2>1, <3>2 DEF Busy
    <3> QED
      BY <3>1, <3>2
  <2> QED
    BY <2>1 DEF Busy
<1>12. NoGrowth => NoGrowth'
  <2>1. ASSUME NoGrowth, NEW s \in Sizes PROVE Cardinality(BlocksOf(heap', s)) <= peak'[s]
    <3>1. IsFiniteSet(BlocksOf(heap, s)) /\ Cardinality(BlocksOf(heap, s)) \in Nat
      <4>1. BlocksOf(heap, s) \in SUBSET (1..Len(heap)) /\ IsFiniteSet(1..Len(heap))
        BY <1>3, <1>5, HeapFacts, FS_Interval DEF BlocksOf
      <4> QED
        BY <4>1, FS_Subset, FS_CardinalityType
    <3>2. Cardinality(BlocksOf(heap, s)) <= peak[s] /\ peak[s] <= peak'[s]
      BY <1>6, <2>1 DEF NoGrowth
    <3>3. peak[s] \in Nat /\ peak'[s] \in Nat
      BY <1>3, <1>6 DEF Typed
    <3> QED
      BY <1>4, <3>1, <3>2, <3>3
  <2> QED
    BY <2>1 DEF NoGrowth
<1> QED
  BY <1>6, <1>8, <1>9, <1>10, <1>11, <1>12 DEF AllocInv


LEMMA FreeStep ==
  ASSUME AllocInv, NEW h \in held, FastFree(h)
  PROVE  AllocInv' /\ (NoGrowth => NoGrowth')
<1>1. held' = held \ {h} /\ allocptr' = allocptr /\ peak' = peak
  BY DEF FastFree
<1>2. Typed /\ InTable /\ Marked /\ Single /\ Busy /\ Known /\ Peaks
  BY DEF AllocInv
<1>3. h.block \in 1..Len(heap) /\ Len(heap) \in Nat /\ Slots \in Nat
  BY <1>2, HeapFacts, AllocatorAssumption DEF Marked
<1>4. (\E s \in 1..Slots : allocptr[s] = h.block) <=> h.block <= Slots
  BY <1>2, <1>3 DEF InTable
<1>5. /\ h.block <= Slots => Remarked(heap', h.block, FALSE)
      /\ ~(h.block <= Slots) => heap' = heap
  <2>1. h.block <= Slots => heap' = [heap EXCEPT ![h.block].used = FALSE]
    BY <1>4 DEF FastFree
  <2>2. h.block <= Slots => Remarked(heap', h.block, FALSE)
    BY <1>2, <1>3, <2>1, MarkFacts, Zenon
  <2>3. ~(h.block <= Slots) => heap' = heap
    BY <1>4 DEF FastFree
  <2> QED
    BY <2>2, <2>3
<1>6. /\ heap' \in Seq(Blocks) /\ Len(heap') = Len(heap)
      /\ \A c \in 1..Len(heap) : heap'[c].size = heap[c].size
      /\ \A c \in 1..Len(heap) : c # h.block => heap'[c] = heap[c]
      /\ \A s : BlocksOf(heap', s) = BlocksOf(heap, s)
  BY <1>2, <1>5 DEF Remarked, Typed
<1>7. h.block <= Slots => heap'[h.block].used = FALSE
  BY <1>5 DEF Remarked
<1>8. IsFiniteSet(held') /\ \A s \in Sizes : HeldOf(held', s) \in Nat /\ HeldOf(held', s) <= HeldOf(held, s)
  <2>1. held \ {h} \in SUBSET held /\ IsFiniteSet(held)
    BY <1>2 DEF Typed
  <2> QED
    BY <1>1, <2>1, HeldOfFacts
<1>9. Typed' /\ InTable' /\ Known'
  BY <1>1, <1>2, <1>6, <1>8 DEF Typed, InTable, Known
<1>10. Marked'
  <2>1. ASSUME NEW x \in held'
        PROVE  x.block \in 1..Len(heap') /\ heap'[x.block] = [size |-> Rounded(x.want), used |-> TRUE]
    <3>1. x \in held /\ x # h
      BY <1>1
    <3>2. x.block # h.block
      BY <1>2, <3>1 DEF Single
    <3> QED
      BY <1>2, <1>6, <3>1, <3>2 DEF Marked
  <2> QED
    BY <2>1 DEF Marked
<1>11. Single'
  BY <1>1, <1>2 DEF Single
<1>12. Busy'
  <2>1. ASSUME NEW c \in 1..Len(heap'), c <= Slots, heap'[c].used = TRUE
        PROVE  \E x \in held' : x.block = c
    <3>1. c # h.block
      BY <1>7, <2>1
    <3>2. PICK x \in held : x.block = c
      BY <1>2, <1>6, <2>1, <3>1 DEF Busy
    <3> QED
      BY <1>1, <3>1, <3>2
  <2> QED
    BY <2>1 DEF Busy
<1>13. Peaks'
  <2>1. ASSUME NEW s \in Sizes PROVE HeldOf(held', s) <= peak'[s] /\ peak'[s] <= MaxLive
    <3>1. /\ HeldOf(held', s) \in Nat /\ HeldOf(held', s) <= HeldOf(held, s) /\ HeldOf(held, s) \in Nat
          /\ HeldOf(held, s) <= peak[s] /\ peak[s] \in Nat /\ peak[s] <= MaxLive
      BY <1>2, <1>8, HeldOfFacts DEF Peaks, Typed
    <3> QED
      BY <1>1, <3>1
  <2> QED
    BY <2>1 DEF Peaks
<1>14. NoGrowth => NoGrowth'
  BY <1>1, <1>6 DEF NoGrowth
<1> QED
  BY <1>9, <1>10, <1>11, <1>12, <1>13, <1>14 DEF AllocInv

\* The table after a block was made.
LEMMA RememberedFacts ==
  ASSUME AllocInv, NEW want \in Requests, FastAlloc(want), Len(heap') = Len(heap) + 1
  PROVE  allocptr' \in [1..Slots -> Nat] /\ InTable'
<1> DEFINE free == {s \in 1..Slots : allocptr[s] = 0}
           n == Len(heap) + 1
<1>1. Len(heap) \in Nat /\ Slots \in Nat /\ allocptr \in [1..Slots -> Nat]
  BY HeapFacts, AllocatorAssumption DEF AllocInv, Typed
<1>2. allocptr' = IF free = {} THEN allocptr ELSE [allocptr EXCEPT ![Min(free)] = n]
  BY DEF FastAlloc
<1>3. \A s \in 1..Slots : allocptr[s] = IF s <= Len(heap) THEN s ELSE 0
  BY DEF AllocInv, InTable
<1>4. \A s \in 1..Slots : s \in free <=> s > Len(heap)
  BY <1>1, <1>3
<1>5. CASE free = {}
  <2>1. allocptr' = allocptr /\ \A s \in 1..Slots : s <= Len(heap)
    BY <1>1, <1>2, <1>4, <1>5
  <2> QED
    BY <1>1, <1>3, <2>1 DEF InTable
<1>6. CASE free # {}
  <2>1. free \in SUBSET Nat
    OBVIOUS
  <2>2. Min(free) \in free /\ \A s \in free : Min(free) <= s
    BY <1>6, <2>1, MinFacts
  <2> HIDE DEF free
  <2>3. Min(free) \in 1..Slots
    BY <2>2 DEF free
  <2>4. Min(free) = n
    <3>1. Min(free) > Len(heap)
      BY <1>4, <2>2, <2>3
    <3>2. n \in 1..Slots
      BY <1>1, <2>3, <3>1
    <3>3. n \in free
      BY <1>1, <1>4, <3>2
    <3> QED
      BY <1>1, <2>2, <2>3, <3>1, <3>3
  <2>5. allocptr' = [allocptr EXCEPT ![n] = n] /\ n \in 1..Slots
    BY <1>2, <1>6, <2>3, <2>4
  <2>6. ASSUME NEW s \in 1..Slots PROVE allocptr'[s] = IF s <= Len(heap') THEN s ELSE 0
    BY <1>1, <1>3, <2>5
  <2> QED
    BY <1>1, <2>5, <2>6 DEF InTable
<1> QED
  BY <1>5, <1>6

LEMMA UsedFacts ==
  ASSUME NEW e \in Blocks, e # [size |-> e.size, used |-> FALSE]
  PROVE  e.used = TRUE
<1>1. e = [size |-> e.size, used |-> e.used] /\ e.used \in BOOLEAN
  BY DEF Blocks
<1> QED
  BY <1>1, Zenon

\* Where every block is in the table and none of a size is free, all of them are held.
LEMMA AllHeld ==
  ASSUME AllocInv, Len(heap) <= Slots, NEW s \in Sizes, Matching(s) = {}
  PROVE  Cardinality(BlocksOf(heap, s)) <= HeldOf(held, s)
<1> DEFINE M == Mine(held, s)
           B == BlocksOf(heap, s)
           at == [x \in M |-> x.block]
<1>1. Typed /\ InTable /\ Marked /\ Busy
  BY DEF AllocInv
<1>2. Len(heap) \in Nat /\ DOMAIN heap = 1..Len(heap) /\ \A b \in 1..Len(heap) : heap[b] \in Blocks
  BY <1>1, HeapFacts
<1>3. IsFiniteSet(M) /\ HeldOf(held, s) = Cardinality(M)
  BY <1>1, HeldOfFacts DEF Typed
<1>4. at \in [M -> B]
  <2>1. ASSUME NEW x \in M PROVE x.block \in B
    <3>1. x \in held /\ Rounded(x.want) = s
      BY DEF Mine
    <3>2. /\ x.block \in 1..Len(heap)
          /\ heap[x.block] = [size |-> Rounded(x.want), used |-> TRUE]
      BY <1>1, <3>1 DEF Marked
    <3>3. heap[x.block].size = s
      BY <3>1, <3>2
    <3> QED
      BY <1>2, <3>2, <3>3 DEF BlocksOf
  <2> HIDE DEF M, B
  <2> QED
    BY <2>1
<1>5. ASSUME NEW b \in B PROVE \E x \in M : at[x] = b
  <2>1. b \in 1..Len(heap) /\ heap[b].size = s /\ b \in 1..Slots
    BY <1>2, AllocatorAssumption DEF BlocksOf
  <2>2. allocptr[b] = b /\ b # 0
    BY <1>1, <2>1 DEF InTable
  <2>3. heap[b] # [size |-> heap[b].size, used |-> FALSE]
    BY <2>1, <2>2 DEF Matching
  <2>4. heap[b].used = TRUE
    BY <1>2, <2>1, <2>3, UsedFacts, Zenon
  <2>5. PICK x \in held : x.block = b
    BY <1>1, <2>1, <2>4 DEF Busy
  <2>6. heap[x.block] = [size |-> Rounded(x.want), used |-> TRUE]
    BY <1>1, <2>5 DEF Marked
  <2>7. Rounded(x.want) = s
    BY <2>1, <2>5, <2>6
  <2> QED
    BY <2>5, <2>7 DEF Mine
<1>6. at \in Surjection(M, B)
  BY <1>4, <1>5 DEF Surjection
<1> HIDE DEF at, M, B
<1>7. Cardinality(B) <= Cardinality(M)
  BY <1>3, <1>6, FS_Surjection
<1> QED
  BY <1>3, <1>7 DEF B


LEMMA AllocStep ==
  ASSUME AllocInv, NEW want \in Requests, FastAlloc(want)
  PROVE  AllocInv' /\ (NoGrowth /\ Len(heap) <= Slots => NoGrowth')
<1> DEFINE size == Rounded(want)
           n == Len(heap) + 1
           e == [size |-> size, used |-> TRUE]
           new == [block |-> n, want |-> want]
<1>1. Typed /\ InTable /\ Marked /\ Single /\ Busy /\ Known /\ Peaks
  BY DEF AllocInv
<1>2. Len(heap) \in Nat /\ DOMAIN heap = 1..Len(heap) /\ \A b \in 1..Len(heap) : heap[b] \in Blocks
  BY <1>1, HeapFacts
<1>3. size \in Nat /\ size \in Sizes
  BY RoundedFacts
<1>4. Cardinality(held) < MaxLive /\ Matching(size) = {} /\ heap' = Append(heap, e) /\ Hold(Len(heap'), want)
  BY DEF FastAlloc
<1> HIDE DEF size
<1>5. e \in Blocks /\ e.size = size
  BY <1>3 DEF Blocks
<1> HIDE DEF e
<1>6. /\ heap' \in Seq(Blocks) /\ Len(heap') = n /\ n \in Nat /\ heap'[n] = e
      /\ \A b \in 1..Len(heap) : heap'[b] = heap[b]
  BY <1>1, <1>2, <1>4, <1>5 DEF Typed
<1>7. 1..Len(heap') = 1..Len(heap) \union {n} /\ n \notin 1..Len(heap) /\ DOMAIN heap' = 1..Len(heap')
  BY <1>2, <1>6
<1>8. /\ held' = held \union {new} /\ new \in Holdings /\ held' \subseteq Holdings
      /\ IsFiniteSet(held') /\ peak' \in [Sizes -> Nat] /\ Peaks'
      /\ \A s \in Sizes : peak'[s] >= peak[s]
      /\ peak'[size] >= HeldOf(held', size)
  <2>1. Hold(n, want)
    BY <1>4, <1>6
  <2> QED
    BY <1>1, <1>4, <1>6, <2>1, HoldFacts DEF size
<1>9. new.block = n /\ new.want = want
  OBVIOUS
<1> HIDE DEF new
<1>10. new \notin held
  BY <1>1, <1>7, <1>9 DEF Marked
<1>11. Typed' /\ InTable'
  BY <1>6, <1>8, RememberedFacts DEF Typed
<1>12. Known'
  BY <1>1, <1>3, <1>5, <1>6, <1>7 DEF Known
<1> HIDE DEF n
<1>13. Marked'
  <2>1. ASSUME NEW x \in held'
        PROVE  x.block \in 1..Len(heap') /\ heap'[x.block] = [size |-> Rounded(x.want), used |-> TRUE]
    <3>1. CASE x = new
      BY <1>6, <1>7, <1>9, <3>1 DEF e, size
    <3>2. CASE x \in held
      BY <1>1, <1>6, <1>7, <3>2 DEF Marked
    <3> QED
      BY <1>8, <3>1, <3>2
  <2> QED
    BY <2>1 DEF Marked
<1>14. Single'
  <2>1. \A x \in held : x.block # n
    BY <1>1, <1>7 DEF Marked
  <2> QED
    BY <1>1, <1>8, <1>9, <2>1 DEF Single
<1>15. Busy'
  <2>1. ASSUME NEW c \in 1..Len(heap'), c <= Slots, heap'[c].used = TRUE
        PROVE  \E x \in held' : x.block = c
    <3>1. CASE c = n
      BY <1>8, <1>9, <3>1
    <3>2. CASE c \in 1..Len(heap)
      BY <1>1, <1>6, <1>8, <2>1, <3>2 DEF Busy
    <3> QED
      BY <1>7, <3>1, <3>2
  <2> QED
    BY <2>1 DEF Busy
<1>16. ASSUME NoGrowth, Len(heap) <= Slots, NEW s \in Sizes
       PROVE  Cardinality(BlocksOf(heap', s)) <= peak'[s]
  <2>1. IsFiniteSet(BlocksOf(heap, s)) /\ Cardinality(BlocksOf(heap, s)) \in Nat
    <3>1. BlocksOf(heap, s) \in SUBSET (1..Len(heap)) /\ IsFiniteSet(1..Len(heap))
      BY <1>2, FS_Interval DEF BlocksOf
    <3> QED
      BY <3>1, FS_Subset, FS_CardinalityType
  <2>2. peak[s] \in Nat /\ peak'[s] \in Nat /\ peak[s] <= peak'[s]
    BY <1>1, <1>8 DEF Typed
  <2>3. CASE s # size
    <3>1. BlocksOf(heap', s) = BlocksOf(heap, s)
      BY <1>2, <1>5, <1>6, <1>7, <2>3 DEF BlocksOf
    <3> QED
      BY <1>16, <2>1, <2>2, <3>1 DEF NoGrowth
  <2>4. CASE s = size
    <3>1. BlocksOf(heap', s) = BlocksOf(heap, s) \union {n}
      BY <1>2, <1>5, <1>6, <1>7, <2>4 DEF BlocksOf
    <3>2. n \notin BlocksOf(heap, s)
      BY <1>2, <1>7 DEF BlocksOf
    <3>3. Cardinality(BlocksOf(heap', s)) = Cardinality(BlocksOf(heap, s)) + 1
      BY <2>1, <3>1, <3>2, FS_AddElement
    <3>4. Mine(held', s) = Mine(held, s) \union {new} /\ new \notin Mine(held, s)
      BY <1>8, <1>9, <1>10, <2>4 DEF Mine, size
    <3>5. /\ IsFiniteSet(Mine(held, s)) /\ HeldOf(held, s) = Cardinality(Mine(held, s))
          /\ HeldOf(held', s) = Cardinality(Mine(held', s)) /\ HeldOf(held, s) \in Nat
      BY <1>1, <1>8, HeldOfFacts DEF Typed
    <3>6. HeldOf(held', s) = HeldOf(held, s) + 1
      BY <3>4, <3>5, FS_AddElement
    <3>7. Cardinality(BlocksOf(heap, s)) <= HeldOf(held, s)
      BY <1>4, <1>16, <2>4, AllHeld
    <3>8. HeldOf(held', s) <= peak'[s]
      BY <1>8, <2>4
    <3> QED
      BY <2>1, <2>2, <3>3, <3>5, <3>6, <3>7, <3>8
  <2> QED
    BY <2>3, <2>4
<1>17. NoGrowth /\ Len(heap) <= Slots => NoGrowth'
  BY <1>16 DEF NoGrowth
<1> QED
  BY <1>8, <1>11, <1>12, <1>13, <1>14, <1>15, <1>17 DEF AllocInv

\* As long as there are no more blocks than were held at once, they fit into a table with
\* a slot for each that can be held of each size.
LEMMA FitsTable ==
  ASSUME AllocInv, NoGrowth, IsFiniteSet(Sizes), MaxLive * Cardinality(Sizes) <= Slots
  PROVE  Len(heap) <= Slots
<1>1. Typed /\ Known /\ Peaks /\ MaxLive \in Nat /\ Slots \in Nat
  BY AllocatorAssumption DEF AllocInv
<1>2. Len(heap) \in Nat /\ DOMAIN heap = 1..Len(heap)
  BY <1>1, HeapFacts
<1> DEFINE D == 1..Len(heap)
           part == [b \in D |-> heap[b].size]
<1>3. IsFiniteSet(D) /\ Cardinality(D) = Len(heap)
  <2> DEFINE n == Len(heap)
  <2>1. 1 \in Int /\ n \in Int /\ n \in Nat
    BY <1>2
  <2> HIDE DEF n
  <2>2. IsFiniteSet(1..n) /\ Cardinality(1..n) = IF 1 > n THEN 0 ELSE n - 1 + 1
    BY <2>1, FS_Interval, Zenon
  <2>3. IsFiniteSet(1..n) /\ Cardinality(1..n) = n
    BY <2>1, <2>2
  <2> QED
    BY <2>3 DEF n
<1>4. part \in [D -> Sizes]
  BY <1>1 DEF Known
<1>5. ASSUME NEW s \in Sizes PROVE Cardinality({b \in D : part[b] = s}) <= MaxLive
  <2> DEFINE P == {b \in D : part[b] = s}
  <2>1. P = BlocksOf(heap, s)
    BY <1>2 DEF BlocksOf
  <2>2. BlocksOf(heap, s) \in SUBSET D
    BY <1>2 DEF BlocksOf
  <2>3. Cardinality(BlocksOf(heap, s)) \in Nat
    BY <1>3, <2>2, FS_Subset, FS_CardinalityType
  <2>4. Cardinality(BlocksOf(heap, s)) <= peak[s] /\ peak[s] <= MaxLive /\ peak[s] \in Nat
    BY <1>1 DEF NoGrowth, Peaks, Typed
  <2> HIDE DEF P
  <2>5. Cardinality(P) <= MaxLive
    BY <1>1, <2>1, <2>3, <2>4
  <2> QED
    BY <2>5 DEF P
<1> HIDE DEF D, part
<1>6. Cardinality(D) <= Cardinality(Sizes) * MaxLive
  BY <1>1, <1>3, <1>4, <1>5, PartsBound, Zenon
<1>7. Cardinality(Sizes) \in Nat
  BY FS_CardinalityType
<1>8. Cardinality(Sizes) * MaxLive = MaxLive * Cardinality(Sizes)
  BY <1>1, <1>7
<1> QED
  BY <1>1, <1>2, <1>3, <1>6, <1>7, <1>8

LEMMA AllocInvStep ==
  ASSUME AllocInv, [AllocNext]_avars
  PROVE  AllocInv' /\ (NoGrowth /\ Len(heap) <= Slots => NoGrowth')
<1>1. CASE \E n \in Requests : FastReuse(n)
  BY <1>1, ReuseStep
<1>2. CASE \E n \in Requests : FastAlloc(n)
  BY <1>2, AllocStep
<1>3. CASE \E h \in held : FastFree(h)
  BY <1>3, FreeStep
<1>4. CASE UNCHANGED avars
  BY <1>4 DEF avars, AllocInv, Typed, InTable, Marked, Single, Busy, Known, Peaks, NoGrowth
<1> QED
  BY <1>1, <1>2, <1>3, <1>4 DEF AllocNext

LEMMA AllocInvSeparate ==
  ASSUME AllocInv
  PROVE  BlocksSeparate
<1>1. Typed /\ Marked /\ Single
  BY DEF AllocInv
<1>2. ASSUME NEW x \in held PROVE heap[x.block].size >= x.want
  <2>1. heap[x.block] = [size |-> Rounded(x.want), used |-> TRUE]
    BY <1>1 DEF Marked
  <2>2. x.want \in Requests
    BY <1>1 DEF Typed, Holdings
  <2>3. heap[x.block].size = Rounded(x.want)
    BY <2>1
  <2> QED
    BY <2>2, <2>3, RoundedFacts
<1> QED
  BY <1>1, <1>2 DEF BlocksSeparate, Single

-----------------------------------------------------------------------------
\* The allocators that chdcodec.cpp lends to zlib and LZMA never hand out a block that is
\* in use, and none that is smaller than asked for, whether or not the table m_allocptr
\* is full.
THEOREM BlocksHaveOneUser == AllocSpec => []BlocksSeparate
<1>1. AllocInit => AllocInv
  BY AllocInvInit
<1>2. AllocInv /\ [AllocNext]_avars => AllocInv'
  BY AllocInvStep
<1>3. AllocInv => BlocksSeparate
  BY AllocInvSeparate
<1> QED
  BY <1>1, <1>2, <1>3, PTL DEF AllocSpec

\* With a slot for every block that a library may hold of every size it asks for, fast_free
\* gives every block back to fast_alloc: of no size are there ever more blocks than were
\* held at one time, so the memory of a codec does not grow with the number of hunks.
THEOREM MemoryBounded ==
  ASSUME IsFiniteSet(Sizes), MaxLive * Cardinality(Sizes) <= Slots
  PROVE  AllocSpec => []BlocksSound
<1> DEFINE Inv == AllocInv /\ NoGrowth
<1>1. AllocInit => Inv
  BY AllocInvInit
<1>2. Inv /\ [AllocNext]_avars => Inv'
  BY AllocInvStep, FitsTable
<1>3. Inv => BlocksSound
  BY AllocInvSeparate DEF BlocksSound
<1> QED
  BY <1>1, <1>2, <1>3, PTL DEF AllocSpec
=============================================================================
