--------------------------- MODULE CompressorProofs ---------------------------
(***************************************************************************)
(* Proofs about chd_file_compressor driven by run_compression, for any     *)
(* (even) size of the ring, any number of workers, any source and any      *)
(* combination of failing writes, throwing or short reads and expired      *)
(* waits.                                                                  *)
(***************************************************************************)
EXTENDS Compressor, FiniteSetTheorems, TLAPS

W == WORK_BUFFER_HUNKS

\* The first hunk that has no OSD item yet.
Front == IF rpc = "assign" THEN rcur + 1 ELSE rcur

Reading == rpc \in {"read", "spawn", "assign", "aborted"}
Spawning == rpc \in {"spawn", "assign"}

\* Half buffers claimed by compress_continue that async_read has not passed yet.
Unread == readFifo + (IF Reading THEN 1 ELSE 0)
Halves(k) == IF k = 0 THEN 0 ELSE IF k = 1 THEN Half ELSE Half + Half

Writing == pc \in {"release", "clear", "emit", "add", "advance"}

\* The read pointers: the bytes read so far are those of the half buffers claimed,
\* less the ones still to be read.
ReadInv ==
  /\ reads = readFifo + (IF rpc = "idle" THEN 0 ELSE 1)
  /\ Reading => ~readError
  /\ readQueued < HunkCount + Half
  /\ readDone <= rcur /\ rcur <= cursor /\ cursor <= readQueued
  /\ Spawning => cursor = ReadEnd
  /\ rpc = "assign" => rcur < cursor
  /\ ~readError /\ ~Spawning => cursor = readDone
  /\ ~readError => readDone = IF Unread = 0
                              THEN (IF readQueued < HunkCount THEN readQueued ELSE HunkCount)
                              ELSE readQueued - Halves(Unread)

\* The ring holds the hunks from writeHunk on: first those queued or compressed, then
\* those being read, then free slots.  After an error one more slot may be QUEUED.
SlotInv ==
  /\ writeHunk <= Front /\ readQueued <= writeHunk + W
  /\ \A h \in writeHunk..(writeHunk + W - 1) :
       /\ h < Front => status[Slot(h)] \in {"QUEUED", "COMPLETE"} /\ hunknum[Slot(h)] = h
       /\ Front <= h /\ h < readQueued =>
            \/ status[Slot(h)] = "READING"
            \/ readError /\ h = rcur /\ status[Slot(h)] = "QUEUED"
       /\ readQueued <= h => status[Slot(h)] = "READY"

\* The work queue: hunks in order, not yet written out, with a live OSD item.
FifoInv ==
  /\ \A i \in 1..Len(workFifo) :
       /\ writeHunk <= workFifo[i] /\ workFifo[i] < Front
       /\ status[Slot(workFifo[i])] = "QUEUED" /\ osd[workFifo[i]] = "queued"
  /\ \A i, j \in 1..Len(workFifo) : i < j => workFifo[i] < workFifo[j]

\* The hunks in the hands of the workers: all different, and older than the queued.
WorkInv ==
  /\ \A w \in Workers : wpc[w] # "idle" =>
       /\ whunk[w] \in Hunks /\ whunk[w] < Front /\ osd[whunk[w]] = "queued"
       /\ \A i \in 1..Len(workFifo) : whunk[w] < workFifo[i]
       /\ wpc[w] # "finish" => writeHunk <= whunk[w] /\ status[Slot(whunk[w])] = "QUEUED"
  /\ \A v, w \in Workers : wpc[v] # "idle" /\ wpc[w] # "idle" /\ whunk[v] = whunk[w] => v = w

\* What the workers leave in a slot: the digest of its data, and the compressed form
\* of that data unless the map had it.
Hashed(s) == hash[s] = data[s]
Compressed(s) == Hashed(s) /\ (comp[s] = data[s] \/ Mapped(hash[s]))
HashInv ==
  /\ \A w \in Workers : /\ wpc[w] = "compress" => Hashed(Slot(whunk[w]))
                        /\ wpc[w] = "complete" => Compressed(Slot(whunk[w]))
  /\ \A h \in Hunks : writeHunk <= h /\ h < Front /\ status[Slot(h)] = "COMPLETE"
                     => Compressed(Slot(h))

\* OSD items: created in order; a slot's m_osd is its own, or that of an earlier lap,
\* and is dangling only between the release and the store that clears it.
OsdInv ==
  /\ \A h \in Hunks : /\ osd[h] = "none" <=> h >= Front
                      /\ osd[h] = "deleted" => h < rcur
  /\ \A s \in Slots : mosd[s] # Null =>
       /\ mosd[s] < rcur /\ Slot(mosd[s]) = s
       /\ osd[mosd[s]] = "deleted" => pc = "clear" /\ s = cur

\* The main thread, and the map it has written.
MainInv ==
  /\ Writing => writeHunk < Front /\ status[cur] = "COMPLETE"
  /\ pc = "release" => mosd[cur] # Null
  /\ \A h \in Hunks : rawmap[h].kind = "unwritten"
                        <=> h > writeHunk \/ (h = writeHunk /\ pc \notin {"add", "advance"})
  /\ \A e \in currentMap : e.hunk < writeHunk \/ (e.hunk = writeHunk /\ pc = "advance")
  /\ pc = "add" => compressed
  /\ err => WriteMayFail \/ readError
  /\ pc # "returned" => file
  /\ pc = "returned" /\ result = "Ok" => file /\ ~err

\* The inductive invariant.
IInv == TypeOK /\ ReadInv /\ SlotInv /\ FifoInv /\ WorkInv /\ HashInv /\ OsdInv /\ MainInv

-----------------------------------------------------------------------------
(* Arithmetic of the ring *)

LEMMA Ring == /\ W \in Nat /\ W > 0 /\ Half \in Nat /\ Half > 0 /\ W = Half + Half
              /\ W = WORK_BUFFER_HUNKS
<1>1. WORK_BUFFER_HUNKS = 2 * (WORK_BUFFER_HUNKS \div 2) /\ WORK_BUFFER_HUNKS \div 2 \in Int
  BY RingAssumption
<1> QED
  BY <1>1, RingAssumption DEF W, Half

LEMMA SlotType == \A h \in Nat : Slot(h) \in Slots
BY RingAssumption DEF Slot, Slots

\* Two hunks less than a lap apart have different slots.
LEMMA SlotInjective ==
  \A g, h \in Nat : Slot(g) = Slot(h) /\ g < h + W /\ h < g + W => g = h
<1>1. ASSUME NEW g \in Nat, NEW h \in Nat, g % W = h % W, g < h, h < g + W PROVE FALSE
  <2> DEFINE p == g \div W
             q == h \div W
             r == h % W
  <2>1. g = W * p + r /\ h = W * q + r /\ p \in Int /\ q \in Int /\ r \in Int
    BY <1>1, Ring
  <2> HIDE DEF p, q, r
  <2>2. h - g = W * (q - p)
    BY <2>1, Ring
  <2>3. W * (q - p) > 0 /\ W * (q - p) < W
    BY <2>2, <1>1, Ring
  <2>4. q - p <= 0 => W * (q - p) <= 0
    BY <2>1, Ring
  <2>5. q - p >= 1 => W * (q - p) >= W
    BY <2>1, Ring
  <2> QED
    BY <2>1, <2>3, <2>4, <2>5, Ring
<1> QED
  BY <1>1 DEF Slot, W

LEMMA SlotShift == \A h \in Nat : Slot(h + W) = Slot(h)
<1> SUFFICES ASSUME NEW h \in Nat PROVE (h + W) % W = h % W
  BY DEF Slot, W
<1> DEFINE q == h \div W
           r == h % W
           p == (h + W) \div W
           t == (h + W) % W
<1>1. h = W * q + r /\ q \in Int /\ r \in 0..(W - 1)
  BY Ring
<1>2. h + W = W * p + t /\ p \in Int /\ t \in 0..(W - 1)
  BY Ring
<1> HIDE DEF p, q, r, t
<1>3. W * (p - q - 1) = r - t
  BY <1>1, <1>2, Ring
<1>4. p - q - 1 >= 1 => W * (p - q - 1) >= W
  BY <1>1, <1>2, Ring
<1>5. p - q - 1 <= -1 => W * (p - q - 1) <= -W
  BY <1>1, <1>2, Ring
<1>6. p - q - 1 = 0
  BY <1>1, <1>2, <1>3, <1>4, <1>5, Ring
<1>7. r = t
  BY <1>1, <1>2, <1>3, <1>6, Ring
<1> QED
  BY <1>7 DEF r, t

\* The hunks of a source are numbered from 0.
LEMMA HunkFacts ==
  ASSUME source \in Sources
  PROVE  /\ HunkCount \in Nat
         /\ Hunks = 0..(HunkCount - 1)
         /\ source \in [Hunks -> Values]
<1>1. IsFiniteSet(DOMAIN source) /\ source \in [0..(HunkCount - 1) -> Values]
  BY SourceAssumption DEF HunkCount, Hunks
<1>2. HunkCount \in Nat
  BY <1>1, FS_CardinalityType DEF HunkCount, Hunks
<1> QED
  BY <1>1, <1>2 DEF Hunks

LEMMA SameHunks ==
  ASSUME source' = source
  PROVE  Hunks' = Hunks /\ HunkCount' = HunkCount
BY DEF Hunks, HunkCount

LEMMA HunkNat ==
  ASSUME TypeOK
  PROVE  \A h \in Hunks : h \in Nat /\ h < HunkCount /\ Slot(h) \in Slots
BY HunkFacts, SlotType DEF TypeOK

\* Everything between writeHunk and readQueued fits in one lap.
LEMMA Window ==
  ASSUME TypeOK, ReadInv, SlotInv
  PROVE  /\ Front \in Nat /\ writeHunk \in Nat /\ readQueued \in Nat /\ rcur \in Nat
         /\ writeHunk <= Front /\ rcur <= Front /\ Front <= cursor /\ cursor <= HunkCount
         /\ Front <= readQueued /\ readQueued <= writeHunk + W
         /\ HunkCount \in Nat /\ W \in Nat
BY HunkFacts, Ring DEF TypeOK, ReadInv, SlotInv, Front

-----------------------------------------------------------------------------
(* What each part of the invariant does not depend on *)

LEMMA ReadFrame ==
  ASSUME ReadInv,
         UNCHANGED <<source, reads, readFifo, rpc, readError, readQueued, readDone, rcur, cursor>>
  PROVE  ReadInv'
BY SameHunks DEF ReadInv, Reading, Spawning, Unread, ReadEnd

LEMMA SlotFrame ==
  ASSUME SlotInv, Front' = Front, readError => readError',
         UNCHANGED <<writeHunk, readQueued, rcur, status, hunknum>>
  PROVE  SlotInv'
BY DEF SlotInv

LEMMA FifoFrame ==
  ASSUME FifoInv, Front' = Front, UNCHANGED <<workFifo, writeHunk, status, osd>>
  PROVE  FifoInv'
BY DEF FifoInv

LEMMA WorkFrame ==
  ASSUME WorkInv, Front' = Front,
         UNCHANGED <<source, wpc, whunk, workFifo, writeHunk, status, osd>>
  PROVE  WorkInv'
BY SameHunks DEF WorkInv

LEMMA HashFrame ==
  ASSUME HashInv, Front' = Front,
         UNCHANGED <<source, wpc, whunk, hash, data, comp, currentMap, writeHunk, status>>
  PROVE  HashInv'
BY SameHunks DEF HashInv, Hashed, Compressed, Mapped

LEMMA OsdFrame ==
  ASSUME OsdInv, Front' = Front, pc = "clear" => pc' = "clear",
         UNCHANGED <<source, osd, rcur, mosd, writeHunk>>
  PROVE  OsdInv'
BY SameHunks DEF OsdInv, cur

LEMMA MainFrame ==
  ASSUME MainInv, Front' = Front, readError => readError', mosd' = mosd \/ pc # "release",
         UNCHANGED <<input, pc, writeHunk, status, rawmap, currentMap, err, file, result>>
  PROVE  MainInv'
BY SameHunks DEF MainInv, Writing, cur, input

-----------------------------------------------------------------------------
(* compress_begin *)

LEMMA InitInv == Init => IInv
<1> SUFFICES ASSUME Init PROVE IInv
  OBVIOUS
<1>1. source \in Sources /\ compressed \in Modes
  BY DEF Init
<1>2. Hunks = 0..(HunkCount - 1) /\ HunkCount \in Nat
  BY <1>1, HunkFacts
<1>3. TypeOK
  <2>1. /\ osd \in [Hunks -> {"none", "queued", "completed", "deleted"}]
        /\ rawmap \in [Hunks -> [kind : {"unwritten"}] \cup [kind : {"data"}, value : Values]
                                  \cup [kind : {"self"}, ref : Hunks]]
    BY DEF Init, Hunks
  <2>2. workFifo \in Seq(Hunks) /\ sha \in Seq(Values) /\ taken \in Seq(Values)
    BY DEF Init
  <2>3. {readError, err, cancelled, derived, handler, crashed, file} \subseteq BOOLEAN
    BY DEF Init
  <2> QED
    BY <1>1, <1>2, <2>1, <2>2, <2>3, ValueAssumption DEF Init, TypeOK, MainPCs
<1>4. ReadInv
  BY <1>2, Ring DEF Init, ReadInv, Reading, Spawning, Unread
<1>5. SlotInv
  BY Ring, SlotType DEF Init, SlotInv, Front
<1>6. FifoInv /\ WorkInv
  BY DEF Init, FifoInv, WorkInv
<1>7. HashInv
  BY <1>2 DEF Init, HashInv, Front
<1>8. OsdInv
  BY <1>2 DEF Init, OsdInv, Front, Hunks
<1>9. MainInv
  BY <1>2 DEF Init, MainInv, Writing, Hunks
<1> QED
  BY <1>3, <1>4, <1>5, <1>6, <1>7, <1>8, <1>9 DEF IInv

-----------------------------------------------------------------------------
(* The read thread *)

LEMMA ReadTakeInv == ASSUME IInv, ReadTake PROVE IInv'
<1> USE DEF ReadTake, input, slotVars, workVars, mainVars, lifeVars
<1>1. TypeOK'
  BY SameHunks DEF IInv, TypeOK
<1>2. Front' = Front
  BY DEF Front
<1>3. ReadInv'
  BY SameHunks, HunkFacts, Ring
     DEF IInv, TypeOK, ReadInv, Reading, Spawning, Unread, Halves, ReadEnd
<1>4. SlotInv' /\ FifoInv' /\ WorkInv'
  BY <1>2, SlotFrame, FifoFrame, WorkFrame DEF IInv
<1>5. HashInv' /\ OsdInv' /\ MainInv'
  BY <1>2, HashFrame, OsdFrame, MainFrame DEF IInv
<1> QED
  BY <1>1, <1>3, <1>4, <1>5 DEF IInv

\* The half buffer that async_read is about to fill.
LEMMA HalfBuffer ==
  ASSUME IInv, rpc = "read"
  PROVE  /\ ~readError /\ cursor = readDone /\ rcur = readDone /\ readDone < HunkCount
         /\ readDone < ReadEnd /\ ReadEnd <= readQueued /\ ReadEnd <= HunkCount
         /\ ReadEnd \in Nat /\ readDone \in Nat
BY HunkFacts, Ring DEF IInv, TypeOK, ReadInv, Reading, Spawning, Unread, Halves, ReadEnd

\* What a half buffer gives to the hunks in it.
Typed(d) == /\ d \in Seq(Values) /\ Len(d) = ReadEnd - readDone
LEMMA DeliveredFacts ==
  ASSUME IInv, Reading, ~readError, NEW b \in [Slots -> Values]
  PROVE  Typed(Delivered(b))
<1>1. readDone \in Nat /\ ReadEnd \in Nat /\ readDone <= ReadEnd
  BY HunkFacts, Ring DEF IInv, TypeOK, ReadEnd
<1>2. \A n \in 1..(ReadEnd - readDone) : b[Slot(readDone + n - 1)] \in Values
  BY <1>1, SlotType
<1>3. ReadEnd - readDone \in Nat
  BY <1>1
<1> QED
  BY <1>2, <1>3 DEF Delivered, Typed

LEMMA ReadDataInv == ASSUME IInv, ReadData PROVE IInv'
<1> USE DEF input, osdVars, workVars, mainVars
<1>1. /\ UNCHANGED <<input, status, hunknum, mosd, hash, comp, osdVars, readDone, sha,
                 workVars, mainVars, derived, handler, file, result>>
      /\ rpc = "read" /\ (readError => readError')
  BY HalfBuffer DEF ReadData
<1>2. rcur' = rcur /\ Front' = Front
  BY HalfBuffer DEF ReadData, Front
<1>3. ReadInv'
  <2>1. \/ rpc' = "aborted" /\ UNCHANGED <<cursor, readError>>
        \/ cursor' = ReadEnd /\ rpc' = "spawn" /\ UNCHANGED readError
        \/ readError' = TRUE /\ rpc' = "finish" /\ UNCHANGED cursor
    BY DEF ReadData
  <2> QED
    BY <1>1, <1>2, <2>1, SameHunks, HunkFacts, HalfBuffer, Ring
       DEF IInv, TypeOK, ReadInv, Reading, Spawning, Unread, Halves, ReadEnd
<1>4. data' \in [Slots -> Values]
  <2>1. CASE data' = data
    BY <2>1 DEF IInv, TypeOK
  <2>2. CASE data' = [s \in Slots |-> IF \E h \in readDone..(ReadEnd - 1) : Slot(h) = s
                                   THEN source[CHOOSE h \in readDone..(ReadEnd - 1) : Slot(h) = s]
                                   ELSE data[s]]
    <3> SUFFICES ASSUME NEW s \in Slots, NEW g \in readDone..(ReadEnd - 1), Slot(g) = s
                 PROVE  source[CHOOSE h \in readDone..(ReadEnd - 1) : Slot(h) = s] \in Values
      BY <2>2 DEF IInv, TypeOK
    <3>1. (CHOOSE h \in readDone..(ReadEnd - 1) : Slot(h) = s) \in readDone..(ReadEnd - 1)
      OBVIOUS
    <3>2. readDone..(ReadEnd - 1) \subseteq Hunks
      BY <1>1, HalfBuffer, HunkFacts, SMTT(30) DEF IInv, TypeOK
    <3> QED
      BY <3>1, <3>2, HunkFacts DEF IInv, TypeOK
  <2> QED
    BY <2>1, <2>2 DEF ReadData
<1>5. TypeOK'
  <2>1. /\ rpc' \in {"idle", "read", "spawn", "assign", "finish", "aborted"}
        /\ cursor' \in 0..HunkCount
    BY <1>1, HalfBuffer, HunkFacts DEF ReadData, IInv, TypeOK
  <2>2. readError' \in BOOLEAN /\ crashed' \in BOOLEAN
    BY DEF ReadData, IInv, TypeOK
  <2>3. taken' \in Seq(Values)
    <3> DEFINE new == Delivered(data')
    <3>1. taken' = taken \/ taken' = taken \o new
      BY DEF ReadData
    <3>2. new \in Seq(Values)
      BY <1>1, <1>4, HalfBuffer, DeliveredFacts DEF Reading, Typed
    <3>3. taken \in Seq(Values)
      BY DEF IInv, TypeOK
    <3> HIDE DEF new
    <3>4. taken \o new \in Seq(Values)
      BY <3>2, <3>3
    <3> QED
      BY <3>1, <3>3, <3>4
  <2> QED
    BY <1>1, <1>2, <1>4, <2>1, <2>2, <2>3, SameHunks DEF IInv, TypeOK
\* No slot with a hunk in it is overwritten.
<1>6. ASSUME NEW h \in Hunks, writeHunk <= h, h < Front
      PROVE  data'[Slot(h)] = data[Slot(h)]
  <2>0. h \in Nat
    BY HunkFacts DEF IInv, TypeOK
  <2>1. \A g \in readDone..(ReadEnd - 1) : Slot(g) # Slot(h)
    BY <1>1, <1>6, <2>0, HalfBuffer, Window, SlotInjective DEF IInv, Front
  <2>2. Slot(h) \in Slots
    BY <2>0, SlotType
  <2> QED
    BY <2>1, <2>2 DEF ReadData
<1>7. HashInv'
  <2>1. \A w \in Workers : wpc[w] \in {"compress", "complete"} =>
           whunk[w] \in Hunks /\ writeHunk <= whunk[w] /\ whunk[w] < Front
    BY DEF IInv, WorkInv
  <2> QED
    BY <1>1, <1>2, <1>6, <2>1, SameHunks DEF IInv, HashInv, Hashed, Compressed, Mapped
<1>8. SlotInv' /\ FifoInv' /\ WorkInv'
  BY <1>1, <1>2, SlotFrame, FifoFrame, WorkFrame DEF IInv
<1>9. OsdInv' /\ MainInv'
  BY <1>1, <1>2, OsdFrame, MainFrame DEF IInv
<1> QED
  BY <1>3, <1>5, <1>7, <1>8, <1>9 DEF IInv

LEMMA ReadSpawnInv == ASSUME IInv, ReadSpawn PROVE IInv'
<1> USE DEF ReadSpawn, input, workVars, mainVars, lifeVars
<1>1. /\ rpc = "spawn" /\ rcur < ReadEnd /\ ReadEnd = cursor /\ ~readError
      /\ Front = rcur /\ rcur \in Nat /\ rcur \in Hunks
      /\ rcur \in writeHunk..(writeHunk + W - 1) /\ rcur < readQueued
      /\ Front' \in {rcur, rcur + 1}
      /\ rcur' = rcur
  BY HunkFacts, Window, SMTT(40) DEF IInv, TypeOK, ReadInv, Reading, Spawning, Front
<1>2. status[Slot(rcur)] = "READING" /\ osd[rcur] = "none" /\ Slot(rcur) \in Slots
  BY <1>1, SlotType DEF IInv, SlotInv, OsdInv
\* The hunks in the ring before this one have other slots.
<1>3. \A h \in writeHunk..(writeHunk + W - 1) : h # rcur => Slot(h) # Slot(rcur)
  BY <1>1, Window, SlotInjective, SMTT(40) DEF IInv
<1>4. TypeOK'
  <2>1. /\ status' \in [Slots -> {"READY", "READING", "QUEUED", "COMPLETE"}]
        /\ hunknum' \in [Slots -> Hunks \cup {0}]
        /\ osd' \in [Hunks -> {"none", "queued", "completed", "deleted"}]
    BY <1>1, <1>2 DEF IInv, TypeOK
  <2>2. workFifo' \in Seq(Hunks)
    <3>1. workFifo \in Seq(Hunks) /\ Append(workFifo, rcur) \in Seq(Hunks)
      BY <1>1 DEF IInv, TypeOK
    <3> QED
      BY <3>1
  <2>3. /\ rpc' \in {"idle", "read", "spawn", "assign", "finish", "aborted"}
        /\ readError' \in BOOLEAN
    BY DEF IInv, TypeOK
  <2> QED
    BY <2>1, <2>2, <2>3, SameHunks DEF IInv, TypeOK
<1>5. ReadInv'
  BY <1>1, SameHunks, HunkFacts, Ring
     DEF IInv, TypeOK, ReadInv, Reading, Spawning, Unread, Halves, ReadEnd
<1>6. SlotInv'
  <2>1. writeHunk' <= Front' /\ readQueued' <= writeHunk' + W
    BY <1>1, Window DEF IInv, Front
  <2> SUFFICES ASSUME NEW h \in writeHunk..(writeHunk + W - 1)
               PROVE  /\ h < Front' => status'[Slot(h)] \in {"QUEUED", "COMPLETE"} /\ hunknum'[Slot(h)] = h
                      /\ Front' <= h /\ h < readQueued =>
                           \/ status'[Slot(h)] = "READING"
                           \/ readError' /\ h = rcur /\ status'[Slot(h)] = "QUEUED"
                      /\ readQueued <= h => status'[Slot(h)] = "READY"
    BY <2>1, <1>1 DEF SlotInv
  <2>1a. h \in Nat /\ Slot(h) \in Slots
    BY Window, SlotType DEF IInv
  <2>2. CASE h = rcur
    BY <2>2, <1>1, <1>2 DEF IInv, TypeOK, Front
  <2>3. CASE h # rcur
    <3>1. status'[Slot(h)] = status[Slot(h)] /\ hunknum'[Slot(h)] = hunknum[Slot(h)]
      BY <2>3, <2>1a, <1>3 DEF IInv, TypeOK
    <3>2. (h < Front' <=> h < Front)
      BY <2>3, <1>1, <2>1a
    <3> QED
      BY <3>1, <3>2, <2>3, <2>1a, <1>1 DEF IInv, SlotInv
  <2> QED
    BY <2>2, <2>3
\* Hunks that are queued, or being compressed, are not rcur.
<1>7. ASSUME NEW h \in Hunks, writeHunk <= h, h < Front
      PROVE  /\ Slot(h) \in Slots /\ h < Front'
             /\ status'[Slot(h)] = status[Slot(h)]
  <2>1. h \in writeHunk..(writeHunk + W - 1) /\ h # rcur /\ h \in Nat
    BY <1>7, <1>1, HunkFacts, Window, SMTT(40) DEF IInv, TypeOK
  <2> QED
    BY <2>1, <1>1, <1>3, <1>7, SlotType DEF IInv, TypeOK
<1>7a. \A h \in Hunks : h < Front => h # rcur /\ osd'[h] = osd[h] /\ h < Front'
  BY <1>1, HunkFacts DEF IInv, TypeOK
<1>8. FifoInv'
  <2>1. CASE workFifo' = workFifo
    <3>1. \A i \in 1..Len(workFifo) : workFifo[i] \in Hunks
      BY DEF IInv, TypeOK
    <3> QED
      BY <2>1, <3>1, <1>7, <1>7a DEF IInv, FifoInv
  <2>2. CASE workFifo' = Append(workFifo, rcur) /\ rpc' = "assign"
             /\ osd' = [osd EXCEPT ![rcur] = "queued"]
    <3>1. /\ Len(workFifo') = Len(workFifo) + 1 /\ Len(workFifo) \in Nat
          /\ \A i \in 1..Len(workFifo) : workFifo'[i] = workFifo[i] /\ workFifo[i] \in Hunks
          /\ workFifo'[Len(workFifo) + 1] = rcur
      BY <2>2, <1>1 DEF IInv, TypeOK
    <3>2. /\ status'[Slot(rcur)] = "QUEUED" /\ osd'[rcur] = "queued" /\ Front' = rcur + 1
          /\ writeHunk' = writeHunk
      BY <2>2, <1>1, <1>2 DEF IInv, TypeOK, Front
    <3>3. \A i \in 1..Len(workFifo) : workFifo'[i] < rcur
      BY <3>1, <1>1 DEF IInv, FifoInv
    <3>4. \A i \in 1..Len(workFifo) :
            /\ writeHunk <= workFifo[i] /\ workFifo[i] < Front'
            /\ status'[Slot(workFifo[i])] = "QUEUED" /\ osd'[workFifo[i]] = "queued"
      BY <3>1, <1>7, <1>7a DEF IInv, FifoInv
    <3>5. \A i \in 1..Len(workFifo') : i \in 1..Len(workFifo) \/ i = Len(workFifo) + 1
      BY <3>1
    <3>6. \A i \in 1..Len(workFifo') :
            /\ writeHunk' <= workFifo'[i] /\ workFifo'[i] < Front'
            /\ status'[Slot(workFifo'[i])] = "QUEUED" /\ osd'[workFifo'[i]] = "queued"
      BY <3>1, <3>2, <3>4, <3>5, <1>1
    <3>7. \A i, j \in 1..Len(workFifo') : i < j => workFifo'[i] < workFifo'[j]
      BY <3>1, <3>3, <3>5 DEF IInv, FifoInv
    <3> QED
      BY <3>6, <3>7 DEF FifoInv
  <2> QED
    BY <2>1, <2>2
<1>9. WorkInv'
  <2>1. ASSUME NEW w \in Workers, wpc[w] # "idle"
        PROVE /\ whunk[w] \in Hunks /\ whunk[w] < Front' /\ osd'[whunk[w]] = "queued"
              /\ \A i \in 1..Len(workFifo') : whunk[w] < workFifo'[i]
              /\ wpc[w] # "finish" => writeHunk <= whunk[w] /\ status'[Slot(whunk[w])] = "QUEUED"
    <3>1. /\ whunk[w] \in Hunks /\ whunk[w] < Front /\ osd[whunk[w]] = "queued"
          /\ \A i \in 1..Len(workFifo) : whunk[w] < workFifo[i]
          /\ wpc[w] # "finish" => writeHunk <= whunk[w] /\ status[Slot(whunk[w])] = "QUEUED"
      BY <2>1 DEF IInv, WorkInv
    <3>2. \A i \in 1..Len(workFifo') : whunk[w] < workFifo'[i]
      <4>1. workFifo \in Seq(Hunks)
        BY DEF IInv, TypeOK
      <4>2. CASE workFifo' = workFifo
        BY <3>1, <4>2
      <4>3. CASE workFifo' = Append(workFifo, rcur)
        BY <3>1, <1>1, <4>1, <4>3
      <4> QED
        BY <4>2, <4>3
    <3> QED
      BY <3>1, <3>2, <1>7, <1>7a
  <2> QED
    BY <2>1, SameHunks DEF IInv, WorkInv
<1>10. HashInv'
  <2>1. ASSUME NEW h \in Hunks, writeHunk <= h, h < Front', status'[Slot(h)] = "COMPLETE"
        PROVE  h < Front /\ status[Slot(h)] = "COMPLETE"
    <3>1. h # rcur /\ h \in Nat
      BY <2>1, <1>1, <1>2, HunkFacts DEF IInv, TypeOK
    <3>2. h < Front
      BY <2>1, <3>1, <1>1
    <3> QED
      BY <2>1, <3>2, <1>7
  <2> QED
    BY <2>1, SameHunks DEF IInv, HashInv, Hashed, Compressed, Mapped
<1>11. OsdInv'
  <2>1. \A h \in Hunks : /\ osd'[h] = "none" <=> h >= Front'
                         /\ osd'[h] = "deleted" => h < rcur
    BY <1>1, HunkFacts DEF IInv, TypeOK, OsdInv, Front
  <2>2. ASSUME NEW s \in Slots, mosd[s] # Null
        PROVE  /\ mosd[s] < rcur /\ Slot(mosd[s]) = s
               /\ osd'[mosd[s]] = "deleted" => pc = "clear" /\ s = cur
    BY <2>2, <1>1, <1>7a DEF IInv, TypeOK, OsdInv
  <2> QED
    BY <2>1, <2>2, <1>1, SameHunks DEF OsdInv, cur
<1>12. MainInv'
  <2>1. Writing => writeHunk < Front' /\ status'[cur] = "COMPLETE"
    <3> SUFFICES ASSUME Writing PROVE writeHunk < Front' /\ status'[cur] = "COMPLETE"
      OBVIOUS
    <3>1. writeHunk < Front /\ status[cur] = "COMPLETE"
      BY DEF IInv, MainInv
    <3>2. writeHunk \in Hunks
      BY <3>1, Window, HunkFacts DEF IInv, TypeOK
    <3> QED
      BY <3>1, <3>2, <1>7, Window DEF IInv, cur
  <2> QED
    BY <2>1, SameHunks DEF IInv, MainInv, Writing, cur
<1> QED
  BY <1>4, <1>5, <1>6, <1>8, <1>9, <1>10, <1>11, <1>12 DEF IInv

LEMMA ReadAssignInv == ASSUME IInv, ReadAssign PROVE IInv'
<1> USE DEF ReadAssign, input, osdVars, workVars, mainVars, lifeVars
<1>1. /\ rpc = "assign" /\ ~readError /\ rcur \in Nat /\ rcur \in Hunks /\ rcur < cursor
      /\ Front = rcur + 1 /\ Front' = Front /\ rcur' = rcur + 1
      /\ Slot(rcur) \in Slots /\ rcur # Null
  BY HunkFacts, Window, SlotType, NullAssumption, SMTT(40)
     DEF IInv, TypeOK, ReadInv, Reading, Spawning, Front
<1>2. TypeOK'
  <2>1. mosd' \in [Slots -> Hunks \cup {Null}] /\ rcur' \in 0..HunkCount
    BY <1>1, HunkFacts DEF IInv, TypeOK
  <2> QED
    BY <2>1, SameHunks DEF IInv, TypeOK
<1>3. ReadInv'
  BY <1>1, SameHunks, HunkFacts, Ring
     DEF IInv, TypeOK, ReadInv, Reading, Spawning, Unread, ReadEnd
<1>4. SlotInv'
  BY <1>1, Window DEF IInv, SlotInv
<1>5. FifoInv' /\ WorkInv' /\ HashInv'
  BY <1>1, FifoFrame, WorkFrame, HashFrame DEF IInv
<1>6. OsdInv'
  <2>1. \A h \in Hunks : /\ osd[h] = "none" <=> h >= Front
                         /\ osd[h] = "deleted" => h < rcur /\ h < rcur + 1
    BY <1>1, HunkFacts DEF IInv, TypeOK, OsdInv
  <2>2. ASSUME NEW s \in Slots, mosd'[s] # Null
        PROVE  /\ mosd'[s] < rcur + 1 /\ Slot(mosd'[s]) = s
               /\ osd[mosd'[s]] = "deleted" => pc = "clear" /\ s = cur
    <3>1. CASE s = Slot(rcur)
      BY <3>1, <2>1, <1>1 DEF IInv, TypeOK
    <3>2. CASE s # Slot(rcur)
      <4>1. mosd'[s] = mosd[s] /\ mosd[s] \in Nat
        BY <3>2, <2>2, HunkFacts DEF IInv, TypeOK
      <4> QED
        BY <4>1, <2>2, <1>1 DEF IInv, OsdInv
    <3> QED
      BY <3>1, <3>2
  <2> QED
    BY <2>1, <2>2, <1>1, SameHunks DEF OsdInv, cur
<1>7. MainInv'
  <2>1. mosd[cur] # Null => mosd'[cur] # Null
    BY <1>1, Window, SlotType DEF IInv, TypeOK, cur
  <2> QED
    BY <2>1, <1>1, SameHunks DEF IInv, MainInv, Writing, cur
<1> QED
  BY <1>2, <1>3, <1>4, <1>5, <1>6, <1>7 DEF IInv

LEMMA ReadAdvanceInv == ASSUME IInv, ReadAdvance PROVE IInv'
<1> USE DEF ReadAdvance, input, slotVars, osdVars, workVars, mainVars, lifeVars
<1>1. rpc = "spawn" /\ Front' = Front /\ ReadEnd \in 0..HunkCount
  BY Window DEF IInv, TypeOK, ReadInv, Spawning, Front
<1>2. sha' \in Seq(Values)
  <2> DEFINE tail == Delivered(data)
  <2>1. sha \in Seq(Values) /\ data \in [Slots -> Values] /\ ~readError
    BY <1>1 DEF IInv, TypeOK, ReadInv, Reading
  <2>2. tail \in Seq(Values)
    BY <1>1, <2>1, DeliveredFacts DEF Reading, Typed
  <2> HIDE DEF tail
  <2>3. sha \o tail \in Seq(Values)
    BY <2>1, <2>2
  <2> QED
    BY <2>1, <2>3 DEF tail
<1>3. TypeOK'
  BY <1>1, <1>2, SameHunks DEF IInv, TypeOK
<1>4. ReadInv'
  BY <1>1, SameHunks, HunkFacts, Ring
     DEF IInv, TypeOK, ReadInv, Reading, Spawning, Unread, Halves, ReadEnd
<1>5. SlotInv' /\ FifoInv' /\ WorkInv'
  BY <1>1, SlotFrame, FifoFrame, WorkFrame DEF IInv
<1>6. HashInv' /\ OsdInv' /\ MainInv'
  BY <1>1, HashFrame, OsdFrame, MainFrame DEF IInv
<1> QED
  BY <1>3, <1>4, <1>5, <1>6 DEF IInv

LEMMA ReadFinishInv == ASSUME IInv, ReadFinish PROVE IInv'
<1> USE DEF ReadFinish, input, slotVars, workVars, mainVars, lifeVars
<1>1. Front' = Front
  BY DEF Front
<1>2. TypeOK'
  BY SameHunks DEF IInv, TypeOK, ReadInv
<1>3. ReadInv'
  BY SameHunks, HunkFacts, Ring
     DEF IInv, TypeOK, ReadInv, Reading, Spawning, Unread, Halves, ReadEnd
<1>4. SlotInv' /\ FifoInv' /\ WorkInv'
  BY <1>1, SlotFrame, FifoFrame, WorkFrame DEF IInv
<1>5. HashInv' /\ OsdInv' /\ MainInv'
  BY <1>1, HashFrame, OsdFrame, MainFrame DEF IInv
<1> QED
  BY <1>2, <1>3, <1>4, <1>5 DEF IInv

-----------------------------------------------------------------------------
(* The workers *)

\* A worker's hunk before it has published its result: its slot is its own.
LEMMA WorkerHunk ==
  ASSUME IInv, NEW w \in Workers, wpc[w] \in {"hash", "compress", "complete"}
  PROVE  /\ whunk[w] \in Hunks /\ whunk[w] \in Nat /\ Slot(whunk[w]) \in Slots
         /\ writeHunk <= whunk[w] /\ whunk[w] < Front
         /\ status[Slot(whunk[w])] = "QUEUED" /\ osd[whunk[w]] = "queued"
         /\ \A h \in Hunks : writeHunk <= h /\ h < Front /\ h # whunk[w] =>
              Slot(h) # Slot(whunk[w])
         /\ \A v \in Workers : v # w /\ wpc[v] \in {"hash", "compress", "complete"} =>
              whunk[v] # whunk[w] /\ Slot(whunk[v]) # Slot(whunk[w])
<1>1. ASSUME NEW v \in Workers, wpc[v] \in {"hash", "compress", "complete"}
      PROVE  /\ whunk[v] \in Hunks /\ whunk[v] \in Nat /\ Slot(whunk[v]) \in Slots
             /\ writeHunk <= whunk[v] /\ whunk[v] < Front
             /\ status[Slot(whunk[v])] = "QUEUED" /\ osd[whunk[v]] = "queued"
  BY <1>1, HunkFacts, SlotType DEF IInv, TypeOK, WorkInv
<1>2. ASSUME NEW h \in Hunks, writeHunk <= h, h < Front, Slot(h) = Slot(whunk[w])
      PROVE  h = whunk[w]
  <2>1. h \in Nat
    BY HunkFacts DEF IInv, TypeOK
  <2> QED
    BY <1>1, <1>2, <2>1, Window, SlotInjective DEF IInv
<1>3. \A v \in Workers : v # w /\ wpc[v] \in {"hash", "compress", "complete"} => whunk[v] # whunk[w]
  BY DEF IInv, WorkInv
<1> QED
  BY <1>1, <1>2, <1>3

LEMMA FifoTypes ==
  ASSUME TypeOK
  PROVE  \A i \in 1..Len(workFifo) : workFifo[i] \in Hunks /\ workFifo[i] \in Nat
<1>1. workFifo \in Seq(Hunks) /\ \A h \in Hunks : h \in Nat
  BY HunkFacts DEF TypeOK
<1> QED
  BY <1>1

LEMMA WorkTakeInv == ASSUME IInv, NEW w \in Workers, WorkTake(w) PROVE IInv'
<1> USE DEF WorkTake, input, slotVars, readVars, mainVars, lifeVars
<1>1. /\ workFifo \in Seq(Hunks) /\ Len(workFifo) \in Nat /\ Len(workFifo) >= 1
      /\ workFifo' \in Seq(Hunks) /\ Len(workFifo') = Len(workFifo) - 1
      /\ Head(workFifo) = workFifo[1] /\ workFifo[1] \in Hunks
      /\ \A i \in 1..Len(workFifo') : workFifo'[i] = workFifo[i + 1] /\ i + 1 \in 1..Len(workFifo)
  BY DEF IInv, TypeOK
<1>2. Front' = Front
  BY DEF Front
<1>3. TypeOK'
  <2>1. /\ whunk' \in [Workers -> Hunks \cup {Null}]
        /\ wpc' \in [Workers -> {"idle", "hash", "compress", "complete", "finish"}]
    BY <1>1 DEF IInv, TypeOK
  <2> QED
    BY <1>1, <2>1, SameHunks DEF IInv, TypeOK
<1>4. ReadInv' /\ SlotInv'
  BY <1>2, ReadFrame, SlotFrame DEF IInv
<1>5. FifoInv'
  BY <1>1, <1>2 DEF IInv, FifoInv
<1>6. WorkInv'
  <2>1. /\ writeHunk <= workFifo[1] /\ workFifo[1] < Front
        /\ status[Slot(workFifo[1])] = "QUEUED" /\ osd[workFifo[1]] = "queued"
        /\ \A i \in 1..Len(workFifo') : workFifo[1] < workFifo'[i]
    BY <1>1 DEF IInv, FifoInv
  <2>2. \A v \in Workers : /\ v # w => wpc'[v] = wpc[v] /\ whunk'[v] = whunk[v]
                           /\ v = w => wpc'[v] = "hash" /\ whunk'[v] = workFifo[1]
    BY <1>1 DEF IInv, TypeOK
  <2>3. ASSUME NEW v \in Workers, wpc'[v] # "idle"
        PROVE /\ whunk'[v] \in Hunks /\ whunk'[v] < Front' /\ osd'[whunk'[v]] = "queued"
              /\ \A i \in 1..Len(workFifo') : whunk'[v] < workFifo'[i]
              /\ wpc'[v] # "finish" => writeHunk' <= whunk'[v] /\ status'[Slot(whunk'[v])] = "QUEUED"
    <3>1. CASE v = w
      BY <3>1, <2>1, <2>2, <1>1, <1>2
    <3>2. CASE v # w
      BY <3>2, <2>2, <2>3, <1>1, <1>2 DEF IInv, WorkInv
    <3> QED
      BY <3>1, <3>2
  <2>4. \A v \in Workers : v # w /\ wpc[v] # "idle" => whunk[v] # workFifo[1]
    BY <1>1, HunkFacts DEF IInv, TypeOK, WorkInv
  <2>5. \A u, v \in Workers : wpc'[u] # "idle" /\ wpc'[v] # "idle" /\ whunk'[u] = whunk'[v] => u = v
    BY <2>2, <2>4 DEF IInv, WorkInv
  <2> QED
    BY <2>3, <2>5, SameHunks DEF WorkInv
<1>7. HashInv'
  <2>1. \A v \in Workers : wpc'[v] \in {"compress", "complete"} => wpc'[v] = wpc[v] /\ whunk'[v] = whunk[v]
    BY DEF IInv, TypeOK
  <2> QED
    BY <2>1, <1>2, SameHunks DEF IInv, HashInv, Hashed, Compressed, Mapped
<1>8. OsdInv' /\ MainInv'
  BY <1>2, OsdFrame, MainFrame DEF IInv
<1> QED
  BY <1>3, <1>4, <1>5, <1>6, <1>7, <1>8 DEF IInv

LEMMA WorkHashInv == ASSUME IInv, NEW w \in Workers, WorkHash(w) PROVE IInv'
<1> USE DEF WorkHash, input, osdVars, readVars, mainVars, lifeVars
<1>1. Front' = Front
  BY DEF Front
<1>2. /\ wpc[w] = "hash" /\ wpc'[w] = "compress" /\ wpc' \in [Workers -> {"idle", "hash", "compress", "complete", "finish"}]
      /\ \A v \in Workers : v # w => wpc'[v] = wpc[v]
  BY DEF IInv, TypeOK
<1>3. TypeOK'
  <2>1. hash' \in [Slots -> Values \cup {Null}]
    BY <1>2, WorkerHunk DEF IInv, TypeOK
  <2> QED
    BY <1>2, <2>1, SameHunks DEF IInv, TypeOK
<1>4. ReadInv' /\ SlotInv' /\ FifoInv' /\ OsdInv' /\ MainInv'
  BY <1>1, ReadFrame, SlotFrame, FifoFrame, OsdFrame, MainFrame DEF IInv
<1>5. WorkInv'
  BY <1>1, <1>2, SameHunks DEF IInv, WorkInv
<1>6. HashInv'
  <2>1. /\ hash'[Slot(whunk[w])] = data[Slot(whunk[w])]
        /\ \A s \in Slots : s # Slot(whunk[w]) => hash'[s] = hash[s]
    BY <1>2, WorkerHunk DEF IInv, TypeOK
  <2>2. ASSUME NEW v \in Workers
        PROVE  /\ wpc'[v] = "compress" => hash'[Slot(whunk[v])] = data[Slot(whunk[v])]
               /\ wpc'[v] = "complete" => Compressed(Slot(whunk[v]))'
    <3>1. CASE v = w
      BY <3>1, <2>1, <1>2
    <3>2. CASE v # w
      <4>1. wpc[v] \in {"compress", "complete"} => hash'[Slot(whunk[v])] = hash[Slot(whunk[v])]
        BY <3>2, <1>2, <2>1, WorkerHunk
      <4> QED
        BY <3>2, <4>1, <1>2 DEF IInv, HashInv, Hashed, Compressed, Mapped
    <3> QED
      BY <3>1, <3>2
  <2>3. ASSUME NEW h \in Hunks, writeHunk <= h, h < Front, status[Slot(h)] = "COMPLETE"
        PROVE  Compressed(Slot(h))'
    <3>1. Slot(h) # Slot(whunk[w]) /\ Slot(h) \in Slots
      BY <2>3, <1>2, WorkerHunk, HunkFacts, SlotType DEF IInv, TypeOK
    <3> QED
      BY <3>1, <2>1, <2>3 DEF IInv, HashInv, Hashed, Compressed, Mapped
  <2> QED
    BY <2>2, <2>3, <1>1, SameHunks DEF HashInv, Hashed
<1> QED
  BY <1>3, <1>4, <1>5, <1>6 DEF IInv

LEMMA WorkCompressInv == ASSUME IInv, NEW w \in Workers, WorkCompress(w) PROVE IInv'
<1> USE DEF input, osdVars, readVars, mainVars, lifeVars
<1>0. /\ UNCHANGED <<input, status, hunknum, mosd, data, hash, osdVars, readVars, whunk,
                     mainVars, lifeVars>>
      /\ wpc[w] = "compress"
  BY DEF WorkCompress
<1>1. Front' = Front
  BY <1>0 DEF Front
<1>2. /\ wpc'[w] = "complete" /\ wpc' \in [Workers -> {"idle", "hash", "compress", "complete", "finish"}]
      /\ \A v \in Workers : v # w => wpc'[v] = wpc[v]
  BY DEF WorkCompress, IInv, TypeOK
\* Either the map had the digest, or the slot's data has been compressed.
<1>3. /\ comp' \in [Slots -> Values \cup {Null}]
      /\ \A s \in Slots : s # Slot(whunk[w]) => comp'[s] = comp[s]
      /\ Mapped(hash[Slot(whunk[w])]) \/ comp'[Slot(whunk[w])] = data[Slot(whunk[w])]
  <2>1. /\ comp \in [Slots -> Values \cup {Null}] /\ data \in [Slots -> Values]
        /\ Slot(whunk[w]) \in Slots
    BY <1>0, WorkerHunk DEF IInv, TypeOK
  <2>2. \/ comp' = comp /\ Mapped(hash[Slot(whunk[w])])
        \/ comp' = [comp EXCEPT ![Slot(whunk[w])] = data[Slot(whunk[w])]]
    BY DEF WorkCompress
  <2> QED
    BY <2>1, <2>2
<1>4. TypeOK'
  BY <1>0, <1>2, <1>3, SameHunks DEF IInv, TypeOK
<1>5. ReadInv' /\ SlotInv' /\ FifoInv' /\ OsdInv' /\ MainInv'
  BY <1>0, <1>1, ReadFrame, SlotFrame, FifoFrame, OsdFrame, MainFrame DEF IInv
<1>6. WorkInv'
  BY <1>0, <1>1, <1>2, SameHunks DEF IInv, WorkInv
<1>7. HashInv'
  <2>1. ASSUME NEW v \in Workers
        PROVE  /\ wpc'[v] = "compress" => hash[Slot(whunk[v])] = data[Slot(whunk[v])]
               /\ wpc'[v] = "complete" => Compressed(Slot(whunk[v]))'
    <3>1. CASE v = w
      BY <3>1, <1>0, <1>2, <1>3 DEF IInv, HashInv, Hashed, Compressed, Mapped
    <3>2. CASE v # w
      <4>1. wpc[v] \in {"compress", "complete"} => comp'[Slot(whunk[v])] = comp[Slot(whunk[v])]
        BY <3>2, <1>0, <1>3, WorkerHunk
      <4> QED
        BY <3>2, <4>1, <1>0, <1>2 DEF IInv, HashInv, Hashed, Compressed, Mapped
    <3> QED
      BY <3>1, <3>2
  <2>2. ASSUME NEW h \in Hunks, writeHunk <= h, h < Front, status[Slot(h)] = "COMPLETE"
        PROVE  Compressed(Slot(h))'
    <3>1. Slot(h) # Slot(whunk[w]) /\ Slot(h) \in Slots
      BY <2>2, <1>0, WorkerHunk, HunkFacts, SlotType DEF IInv, TypeOK
    <3> QED
      BY <3>1, <1>0, <1>3, <2>2 DEF IInv, HashInv, Hashed, Compressed, Mapped
  <2> QED
    BY <2>1, <2>2, <1>0, <1>1, SameHunks DEF HashInv, Hashed
<1> QED
  BY <1>4, <1>5, <1>6, <1>7 DEF IInv

LEMMA WorkCompleteInv == ASSUME IInv, NEW w \in Workers, WorkComplete(w) PROVE IInv'
<1> USE DEF WorkComplete, input, osdVars, readVars, mainVars, lifeVars
<1>1. Front' = Front
  BY DEF Front
<1>2. /\ wpc[w] = "complete" /\ wpc'[w] = "finish"
      /\ wpc' \in [Workers -> {"idle", "hash", "compress", "complete", "finish"}]
      /\ \A v \in Workers : v # w => wpc'[v] = wpc[v]
  BY DEF IInv, TypeOK
<1>3. /\ status' \in [Slots -> {"READY", "READING", "QUEUED", "COMPLETE"}]
      /\ status'[Slot(whunk[w])] = "COMPLETE"
      /\ \A s \in Slots : s # Slot(whunk[w]) => status'[s] = status[s]
  BY <1>2, WorkerHunk DEF IInv, TypeOK
<1>4. TypeOK'
  BY <1>2, <1>3, SameHunks DEF IInv, TypeOK
<1>5. ReadInv' /\ OsdInv'
  BY <1>1, ReadFrame, OsdFrame DEF IInv
<1>6. SlotInv'
  <2> SUFFICES ASSUME NEW h \in writeHunk..(writeHunk + W - 1)
               PROVE  /\ h < Front => status'[Slot(h)] \in {"QUEUED", "COMPLETE"} /\ hunknum[Slot(h)] = h
                      /\ Front <= h /\ h < readQueued =>
                           \/ status'[Slot(h)] = "READING"
                           \/ readError /\ h = rcur /\ status'[Slot(h)] = "QUEUED"
                      /\ readQueued <= h => status'[Slot(h)] = "READY"
    BY <1>1 DEF IInv, SlotInv
  <2>1. h \in Nat /\ Slot(h) \in Slots
    BY Window, SlotType DEF IInv
  <2>2. CASE h = whunk[w]
    BY <2>1, <2>2, <1>2, <1>3, Window, WorkerHunk DEF IInv, SlotInv
  <2>3. CASE h # whunk[w]
    <3>1. Slot(h) # Slot(whunk[w])
      BY <2>1, <2>3, <1>2, Window, WorkerHunk, SlotInjective DEF IInv
    <3> QED
      BY <3>1, <2>1, <1>3 DEF IInv, SlotInv
  <2> QED
    BY <2>2, <2>3
<1>7. FifoInv'
  <2>1. \A i \in 1..Len(workFifo) : workFifo[i] \in Hunks /\ workFifo[i] # whunk[w] /\ workFifo[i] \in Nat
    BY <1>2, FifoTypes, WorkerHunk DEF IInv, WorkInv
  <2>2. \A i \in 1..Len(workFifo) : Slot(workFifo[i]) # Slot(whunk[w]) /\ Slot(workFifo[i]) \in Slots
    BY <1>2, <2>1, WorkerHunk, SlotType DEF IInv, FifoInv
  <2> QED
    BY <2>2, <1>1, <1>3 DEF IInv, FifoInv
<1>8. WorkInv'
  <2>1. \A v \in Workers : v # w /\ wpc[v] \in {"hash", "compress", "complete"} =>
           status'[Slot(whunk[v])] = status[Slot(whunk[v])]
    BY <1>2, <1>3, WorkerHunk
  <2>2. \A v \in Workers : wpc[v] \in {"idle", "hash", "compress", "complete", "finish"}
    BY DEF IInv, TypeOK
  <2> QED
    BY <2>1, <2>2, <1>1, <1>2, SameHunks DEF IInv, WorkInv
<1>9. HashInv'
  <2>1. ASSUME NEW h \in Hunks, writeHunk <= h, h < Front, status'[Slot(h)] = "COMPLETE"
        PROVE  Compressed(Slot(h))
    <3>1. Slot(h) \in Slots
      BY HunkFacts, SlotType DEF IInv, TypeOK
    <3> QED
      BY <2>1, <3>1, <1>2, <1>3 DEF IInv, HashInv
  <2> QED
    BY <2>1, <1>1, <1>2, SameHunks DEF IInv, HashInv, Hashed, Compressed, Mapped
<1>10. MainInv'
  <2>1. cur \in Slots
    BY Window, SlotType DEF IInv, cur
  <2> QED
    BY <2>1, <1>1, <1>3, SameHunks DEF IInv, MainInv, Writing, cur
<1> QED
  BY <1>4, <1>5, <1>6, <1>7, <1>8, <1>9, <1>10 DEF IInv

LEMMA WorkFinishInv == ASSUME IInv, NEW w \in Workers, WorkFinish(w) PROVE IInv'
<1> USE DEF WorkFinish, input, slotVars, readVars, mainVars, lifeVars
<1>1. Front' = Front
  BY DEF Front
<1>2. /\ wpc[w] = "finish" /\ wpc'[w] = "idle" /\ whunk'[w] = Null
      /\ wpc' \in [Workers -> {"idle", "hash", "compress", "complete", "finish"}]
      /\ whunk' \in [Workers -> Hunks \cup {Null}]
      /\ \A v \in Workers : v # w => wpc'[v] = wpc[v] /\ whunk'[v] = whunk[v]
  BY DEF IInv, TypeOK
<1>3. /\ whunk[w] \in Hunks /\ osd[whunk[w]] = "queued" /\ whunk[w] < Front /\ whunk[w] \in Nat
      /\ osd'[whunk[w]] = "completed"
      /\ osd' \in [Hunks -> {"none", "queued", "completed", "deleted"}]
      /\ \A h \in Hunks : h # whunk[w] => osd'[h] = osd[h]
  <2>0. wpc[w] # "idle" /\ WorkInv
    BY <1>2 DEF IInv
  <2>1. whunk[w] \in Hunks /\ osd[whunk[w]] = "queued" /\ whunk[w] < Front
    BY ONLY <2>0, w \in Workers DEF WorkInv
  <2>2. whunk[w] \in Nat
    BY <2>1, HunkNat DEF IInv
  <2>3. osd \in [Hunks -> {"none", "queued", "completed", "deleted"}]
    BY DEF IInv, TypeOK
  <2> QED
    BY <2>1, <2>2, <2>3
<1>4. TypeOK'
  BY <1>2, <1>3, SameHunks DEF IInv, TypeOK
<1>5. ReadInv' /\ SlotInv' /\ MainInv'
  BY <1>1, ReadFrame, SlotFrame, MainFrame DEF IInv
<1>6. FifoInv'
  <2>1. \A i \in 1..Len(workFifo) : workFifo[i] \in Hunks /\ workFifo[i] # whunk[w]
    BY <1>2, <1>3, FifoTypes DEF IInv, WorkInv
  <2> QED
    BY <2>1, <1>1, <1>3 DEF IInv, FifoInv
<1>7. WorkInv'
  <2>1. \A v \in Workers : v # w /\ wpc[v] # "idle" => osd'[whunk[v]] = osd[whunk[v]]
    BY <1>2, <1>3 DEF IInv, WorkInv
  <2> QED
    BY <2>1, <1>1, <1>2, SameHunks DEF IInv, WorkInv
<1>8. HashInv'
  BY <1>1, <1>2, SameHunks DEF IInv, HashInv, Hashed, Compressed, Mapped
<1>9. OsdInv'
  <2>1. \A h \in Hunks : /\ osd'[h] = "none" <=> h >= Front
                         /\ osd'[h] = "deleted" => h < rcur
    BY <1>3, Window DEF IInv, OsdInv
  <2>2. \A h \in Hunks : osd'[h] = "deleted" => osd[h] = "deleted"
    BY <1>3
  <2>3. \A s \in Slots : mosd[s] # Null => mosd[s] \in Hunks
    BY DEF IInv, TypeOK
  <2> QED
    BY <2>1, <2>2, <2>3, <1>1, SameHunks DEF IInv, OsdInv, cur
<1> QED
  BY <1>4, <1>5, <1>6, <1>7, <1>8, <1>9 DEF IInv

-----------------------------------------------------------------------------
(* The main thread *)

\* Steps of the main thread that touch neither the ring nor the queues.
LEMMA MainLocal ==
  ASSUME IInv, UNCHANGED <<otherThanMain, slotVars, osdVars, readQueued, writeHunk, currentMap>>,
         pc # "clear"
  PROVE  /\ Front' = Front /\ cur' = cur /\ Hunks' = Hunks
         /\ ReadInv' /\ SlotInv' /\ FifoInv' /\ WorkInv' /\ HashInv' /\ OsdInv'
<1> USE DEF otherThanMain, input, slotVars, osdVars, readVars, workVars
<1>1. Front' = Front /\ cur' = cur /\ Hunks' = Hunks
  BY SameHunks DEF Front, cur
<1>2. ReadInv' /\ SlotInv' /\ FifoInv' /\ WorkInv'
  BY <1>1, ReadFrame, SlotFrame, FifoFrame, WorkFrame DEF IInv
<1>3. HashInv' /\ OsdInv'
  BY <1>1, HashFrame, OsdFrame DEF IInv
<1> QED
  BY <1>1, <1>2, <1>3

\* ... and leave the map alone: loop control, the waits and the end of the run.
MainControl ==
  MainLoop \/ MainQueueDone \/ MainFlush \/ MainFinalize \/ MainWait \/ MainDrop
    \/ MainJoinRead \/ MainJoinWork \/ MainReturn

LEMMA MainControlInv == ASSUME IInv, MainControl PROVE IInv'
<1>1. /\ UNCHANGED <<otherThanMain, slotVars, osdVars, readQueued, writeHunk, currentMap, rawmap>>
      /\ pc \in {"loop", "queue", "flush", "finalize", "wait", "drop", "join_read", "join_work", "unlink"}
      /\ pc' \in MainPCs \ {"clear", "add", "advance"}
  BY DEF MainControl, MainLoop, MainQueueDone, MainFlush, MainFinalize, MainWait, MainDrop,
         MainJoinRead, MainJoinWork, MainReturn, MainPCs, lifeVars
<1>2. {readError, err, cancelled, derived, handler, crashed, file}' \subseteq BOOLEAN
  <2>1. {readError, err, cancelled, derived, handler, crashed, file} \subseteq BOOLEAN
    BY DEF IInv, TypeOK
  <2>2. readError' = readError
    BY <1>1 DEF otherThanMain, readVars
  <2>3. err' \in BOOLEAN /\ cancelled' \in BOOLEAN
    BY <2>1 DEF MainControl, MainLoop, MainQueueDone, MainFlush, MainFinalize, MainWait, MainDrop,
                MainJoinRead, MainJoinWork, MainReturn
  <2>4. derived' \in BOOLEAN /\ handler' \in BOOLEAN /\ crashed' \in BOOLEAN
    BY <2>1 DEF MainControl, MainLoop, MainQueueDone, MainFlush, MainFinalize, MainWait, MainDrop,
                MainJoinRead, MainJoinWork, MainReturn, lifeVars
  <2>5. file' \in BOOLEAN
    BY <2>1 DEF MainControl, MainLoop, MainQueueDone, MainFlush, MainFinalize, MainWait, MainDrop,
                MainJoinRead, MainJoinWork, MainReturn, lifeVars
  <2> QED
    BY <2>1, <2>2, <2>3, <2>4, <2>5
<1>3. result' \in {Null, "Ok", "Err", "Cancelled"}
  BY DEF IInv, TypeOK, MainControl, MainLoop, MainQueueDone, MainFlush, MainFinalize, MainWait,
         MainDrop, MainJoinRead, MainJoinWork, MainReturn, lifeVars
<1>4. TypeOK'
  BY <1>1, <1>2, <1>3, SameHunks
     DEF IInv, TypeOK, otherThanMain, input, slotVars, osdVars, readVars, workVars
<1>5. Front' = Front /\ cur' = cur /\ Hunks' = Hunks
      /\ ReadInv' /\ SlotInv' /\ FifoInv' /\ WorkInv' /\ HashInv' /\ OsdInv'
  BY <1>1, MainLocal
<1>6. MainInv'
  <2>1. Writing' => writeHunk < Front /\ status[cur] = "COMPLETE"
    <3> SUFFICES ASSUME Writing' PROVE writeHunk < Front /\ status[cur] = "COMPLETE"
      OBVIOUS
    <3>1. MainFlush
      BY DEF Writing, MainControl, MainLoop, MainQueueDone, MainFinalize, MainWait, MainDrop,
             MainJoinRead, MainJoinWork, MainReturn
    <3>2. status[cur] = "COMPLETE"
      BY <3>1 DEF MainFlush, Writing
    <3>3. writeHunk \in writeHunk..(writeHunk + W - 1)
      BY Window, Ring DEF IInv
    <3> QED
      BY <3>2, <3>3, Window DEF IInv, SlotInv, cur
  <2>2. pc' = "release" => mosd[cur] # Null
    BY DEF MainControl, MainLoop, MainQueueDone, MainFlush, MainFinalize, MainWait, MainDrop,
           MainJoinRead, MainJoinWork, MainReturn
  <2>3. err' => WriteMayFail \/ readError
    BY DEF IInv, MainInv, MainControl, MainLoop, MainQueueDone, MainFlush, MainFinalize, MainWait,
           MainDrop, MainJoinRead, MainJoinWork, MainReturn
  <2>4. /\ pc' # "returned" => file'
        /\ pc' = "returned" /\ result' = "Ok" => file' /\ ~err'
    <3>1. CASE MainReturn
      <4>1. /\ result' = (IF err THEN "Err" ELSE IF cancelled THEN "Cancelled" ELSE "Ok")
            /\ file /\ err' = err /\ pc' = "returned"
            /\ file' \in (IF err \/ cancelled THEN {file, FALSE} ELSE {file})
        BY <1>1, <3>1 DEF MainReturn, IInv, MainInv
      <4> QED
        BY <4>1
    <3>2. CASE ~MainReturn
      <4>1. pc' # "returned" /\ file' = file
        BY <3>2 DEF MainControl, MainLoop, MainQueueDone, MainFlush, MainFinalize, MainWait, MainDrop,
                    MainJoinRead, MainJoinWork, lifeVars
      <4> QED
        BY <1>1, <4>1 DEF IInv, MainInv
    <3> QED
      BY <3>1, <3>2
  <2>5. /\ \A h \in Hunks : rawmap[h].kind = "unwritten" <=> h > writeHunk \/ h = writeHunk
        /\ \A e \in currentMap : e.hunk < writeHunk
    BY <1>1 DEF IInv, MainInv
  <2>6. status' = status /\ mosd' = mosd /\ readError' = readError /\ rawmap' = rawmap
        /\ writeHunk' = writeHunk /\ currentMap' = currentMap
    BY <1>1 DEF otherThanMain, slotVars, readVars
  <2> QED
    BY <1>1, <1>5, <2>1, <2>2, <2>3, <2>4, <2>5, <2>6 DEF MainInv
<1> QED
  BY <1>4, <1>5, <1>6 DEF IInv

LEMMA MainReleaseInv == ASSUME IInv, MainRelease PROVE IInv'
<1> USE DEF MainRelease, otherThanMain, input, slotVars, readVars, workVars, lifeVars
<1> DEFINE m == mosd[cur]
<1>1. cur \in Slots /\ m \in Hunks /\ m # Null /\ m < rcur /\ Slot(m) = cur /\ osd[m] = "completed"
  <2>1. cur \in Slots
    BY Window, SlotType DEF IInv, cur
  <2>2. m # Null /\ m \in Hunks
    BY <2>1 DEF IInv, TypeOK, MainInv
  <2> QED
    BY <2>1, <2>2 DEF IInv, OsdInv
<1>2. Front' = Front /\ cur' = cur /\ Hunks' = Hunks
  BY SameHunks DEF Front, cur
<1> HIDE DEF m
<1>3. /\ osd' \in [Hunks -> {"none", "queued", "completed", "deleted"}]
      /\ osd'[m] = "deleted"
      /\ \A h \in Hunks : h # m => osd'[h] = osd[h]
  BY <1>1 DEF IInv, TypeOK, m
<1>4. TypeOK'
  BY <1>3, SameHunks DEF IInv, TypeOK, MainPCs
<1>5. ReadInv' /\ SlotInv' /\ HashInv'
  BY <1>2, ReadFrame, SlotFrame, HashFrame DEF IInv
<1>6. FifoInv'
  <2>1. \A i \in 1..Len(workFifo) : workFifo[i] \in Hunks
    BY FifoTypes DEF IInv
  <2> QED
    BY <2>1, <1>1, <1>2, <1>3 DEF IInv, FifoInv
<1>7. WorkInv'
  BY <1>1, <1>2, <1>3 DEF IInv, WorkInv
<1>8. OsdInv'
  <2>1. \A h \in Hunks : /\ osd'[h] = "none" <=> h >= Front
                         /\ osd'[h] = "deleted" => h < rcur
    BY <1>1, <1>3 DEF IInv, OsdInv
  <2>2. ASSUME NEW s \in Slots, mosd[s] # Null, osd'[mosd[s]] = "deleted"
        PROVE  s = cur
    <3>1. mosd[s] \in Hunks /\ Slot(mosd[s]) = s /\ (osd[mosd[s]] = "deleted" => s = cur)
      BY <2>2 DEF IInv, TypeOK, OsdInv
    <3> QED
      BY <2>2, <3>1, <1>1, <1>3
  <2> QED
    BY <2>1, <2>2, <1>2 DEF IInv, OsdInv
<1>9. MainInv'
  BY <1>2 DEF IInv, MainInv, Writing
<1> QED
  BY <1>4, <1>5, <1>6, <1>7, <1>8, <1>9 DEF IInv

LEMMA MainClearInv == ASSUME IInv, MainClear PROVE IInv'
<1> USE DEF MainClear, otherThanMain, input, osdVars, readVars, workVars, lifeVars
<1>1. Front' = Front /\ cur' = cur /\ Hunks' = Hunks
  BY SameHunks DEF Front, cur
<1>2. /\ mosd' \in [Slots -> Hunks \cup {Null}]
      /\ \A s \in Slots : mosd'[s] # Null => mosd'[s] = mosd[s] /\ s # cur
  BY DEF IInv, TypeOK
<1>3. TypeOK'
  BY <1>2, SameHunks DEF IInv, TypeOK, MainPCs
<1>4. ReadInv' /\ SlotInv' /\ FifoInv' /\ WorkInv' /\ HashInv'
  BY <1>1, ReadFrame, SlotFrame, FifoFrame, WorkFrame, HashFrame DEF IInv
<1>5. OsdInv'
  BY <1>1, <1>2 DEF IInv, OsdInv
<1>6. MainInv'
  BY <1>1 DEF IInv, MainInv, Writing
<1> QED
  BY <1>3, <1>4, <1>5, <1>6 DEF IInv

\* The hunk that the main thread is about to write out.
LEMMA CurrentHunk ==
  ASSUME IInv, Writing
  PROVE  /\ cur \in Slots /\ writeHunk \in Hunks /\ writeHunk \in Nat /\ writeHunk < Front
         /\ hunknum[cur] = writeHunk /\ status[cur] = "COMPLETE"
         /\ hash[cur] = data[cur] /\ hash[cur] \in Values
         /\ comp[cur] = data[cur] \/ Mapped(hash[cur])
<1>1. cur \in Slots /\ writeHunk \in Nat
  BY Window, SlotType DEF IInv, cur
<1>2. writeHunk < Front /\ status[cur] = "COMPLETE"
  BY DEF IInv, MainInv
<1>3. writeHunk \in Hunks
  BY <1>1, <1>2, Window, HunkFacts DEF IInv, TypeOK
<1>4. writeHunk \in writeHunk..(writeHunk + W - 1)
  BY <1>1, Ring
<1>5. hunknum[cur] = writeHunk
  BY <1>2, <1>4 DEF IInv, SlotInv, cur
<1>6. hash[cur] = data[cur] /\ (comp[cur] = data[cur] \/ Mapped(hash[cur]))
  BY <1>1, <1>2, <1>3 DEF IInv, HashInv, Hashed, Compressed, cur
<1>7. data[cur] \in Values
  BY <1>1 DEF IInv, TypeOK
<1> QED
  BY <1>1, <1>2, <1>3, <1>5, <1>6, <1>7

\* The checks of hunk_write_compressed and hunk_copy_from_self accept the hunk.
LEMMA AppendAccepted ==
  ASSUME IInv, pc = "emit"
  PROVE  /\ ProperAppend(hunknum[cur])
         /\ Mapped(hash[cur]) => EarlierCopies # {}
<1>1. writeHunk \in Hunks /\ writeHunk \in Nat /\ hunknum[cur] = writeHunk
  BY CurrentHunk DEF Writing
<1>2. rawmap[writeHunk].kind = "unwritten"
  BY <1>1 DEF IInv, MainInv
<1>3. writeHunk # 0 => rawmap[writeHunk - 1].kind # "unwritten"
  <2> SUFFICES ASSUME writeHunk # 0 PROVE rawmap[writeHunk - 1].kind # "unwritten"
    OBVIOUS
  <2>1. writeHunk - 1 \in Hunks /\ ~(writeHunk - 1 > writeHunk) /\ writeHunk - 1 # writeHunk
    BY <1>1, HunkFacts DEF IInv, TypeOK
  <2> QED
    BY <2>1 DEF IInv, MainInv
<1>4. Mapped(hash[cur]) => EarlierCopies # {}
  BY <1>1 DEF IInv, MainInv, Mapped, EarlierCopies
<1> QED
  BY <1>1, <1>2, <1>3, <1>4 DEF ProperAppend

LEMMA MainEmitInv == ASSUME IInv, MainEmit PROVE IInv'
<1>0. /\ UNCHANGED <<otherThanMain, slotVars, osdVars, readQueued, writeHunk, currentMap, cancelled, lifeVars>>
      /\ pc = "emit" /\ pc' \in {"drop", "add", "advance"}
  BY DEF MainEmit, EmitRaw, EmitSelf, EmitCompressed, EmitFails
<1>1. /\ Front' = Front /\ cur' = cur /\ Hunks' = Hunks
      /\ ReadInv' /\ SlotInv' /\ FifoInv' /\ WorkInv' /\ HashInv' /\ OsdInv'
  BY <1>0, MainLocal
<1>2. /\ cur \in Slots /\ writeHunk \in Hunks /\ writeHunk \in Nat /\ writeHunk < Front
      /\ hunknum[cur] = writeHunk /\ status[cur] = "COMPLETE"
      /\ hash[cur] = data[cur] /\ hash[cur] \in Values
      /\ comp[cur] = data[cur] \/ Mapped(hash[cur])
  BY <1>0, CurrentHunk DEF Writing
\* Either the write fails, or the hunk's map entry is filled in.
<1>3. \/ pc' = "drop" /\ err' = TRUE /\ WriteMayFail /\ rawmap' = rawmap
      \/ /\ pc' = "advance" \/ (pc' = "add" /\ compressed)
         /\ err' = err
         /\ \E e \in [kind : {"data"}, value : Values] \cup [kind : {"self"}, ref : Hunks] :
              e.kind # "unwritten" /\ rawmap' = [rawmap EXCEPT ![writeHunk] = e]
  <2>1. CASE EmitRaw
    <3>1. data[cur] \in Values
      BY <1>2
    <3> QED
      BY <2>1, <3>1, <1>2 DEF EmitRaw
  <2>2. CASE EmitSelf
    <3>1. PICK e \in EarlierCopies : rawmap' = [rawmap EXCEPT ![hunknum[cur]] = [kind |-> "self", ref |-> e.hunk]]
      BY <2>2 DEF EmitSelf
    <3>2. e.hunk \in Hunks
      BY DEF EarlierCopies, IInv, TypeOK
    <3> QED
      BY <2>2, <3>1, <3>2, <1>2 DEF EmitSelf
  <2>3. CASE EmitCompressed
    <3>1. comp[cur] \in Values
      BY <2>3, <1>2 DEF EmitCompressed
    <3> QED
      BY <2>3, <3>1, <1>2 DEF EmitCompressed
  <2>4. CASE EmitFails
    BY <2>4, <1>0, AppendAccepted DEF EmitFails
  <2> QED
    BY <2>1, <2>2, <2>3, <2>4 DEF MainEmit
<1>4. /\ rawmap' \in [Hunks -> [kind : {"unwritten"}] \cup [kind : {"data"}, value : Values]
                            \cup [kind : {"self"}, ref : Hunks]]
      /\ \A h \in Hunks : h # writeHunk => rawmap'[h] = rawmap[h]
      /\ pc' # "drop" => rawmap'[writeHunk].kind # "unwritten"
      /\ pc' = "drop" => rawmap' = rawmap
  <2>1. rawmap \in [Hunks -> [kind : {"unwritten"}] \cup [kind : {"data"}, value : Values]
                            \cup [kind : {"self"}, ref : Hunks]]
    BY DEF IInv, TypeOK
  <2> QED
    BY <1>2, <1>3, <2>1
<1>5. TypeOK'
  <2>1. err' \in BOOLEAN /\ pc' \in MainPCs
    BY <1>3 DEF IInv, TypeOK, MainPCs
  <2> QED
    BY <1>0, <1>4, <2>1, SameHunks
       DEF IInv, TypeOK, otherThanMain, input, slotVars, osdVars, readVars, workVars, lifeVars
<1>6. MainInv'
  <2>1. \A h \in Hunks : rawmap'[h].kind = "unwritten"
                        <=> h > writeHunk \/ (h = writeHunk /\ pc' \notin {"add", "advance"})
    <3>1. \A h \in Hunks : rawmap[h].kind = "unwritten" <=> h > writeHunk \/ h = writeHunk
      BY <1>0 DEF IInv, MainInv
    <3> QED
      BY <1>0, <1>2, <1>4, <3>1
  <2>2. \A e \in currentMap : e.hunk < writeHunk
    BY <1>0 DEF IInv, MainInv
  <2>3. err' => WriteMayFail \/ readError
    BY <1>3 DEF IInv, MainInv
  <2>4. /\ status' = status /\ readError' = readError /\ compressed' = compressed
        /\ writeHunk' = writeHunk /\ currentMap' = currentMap
    BY <1>0 DEF otherThanMain, input, slotVars, readVars
  <2>5. file'
    <3>1. file' = file
      BY <1>0 DEF lifeVars
    <3>2. file
      BY <1>0 DEF IInv, MainInv
    <3> QED
      BY <3>1, <3>2
  <2> QED
    BY <1>0, <1>1, <1>2, <1>3, <2>1, <2>2, <2>3, <2>4, <2>5 DEF MainInv
<1> QED
  BY <1>1, <1>5, <1>6 DEF IInv

LEMMA MainAddInv == ASSUME IInv, MainAdd PROVE IInv'
<1> USE DEF MainAdd, otherThanMain, input, slotVars, osdVars, readVars, workVars, lifeVars
<1> DEFINE e == [value |-> hash[cur], hunk |-> hunknum[cur]]
<1>1. Front' = Front /\ cur' = cur /\ Hunks' = Hunks
  BY SameHunks DEF Front, cur
<1>2. writeHunk \in Hunks /\ writeHunk < Front /\ hunknum[cur] = writeHunk /\ hash[cur] \in Values
      /\ status[cur] = "COMPLETE"
  BY CurrentHunk DEF Writing
<1>3. e \in [value : Values, hunk : Hunks] /\ e.hunk = writeHunk /\ currentMap' = currentMap \cup {e}
  BY <1>2
<1> HIDE DEF e
<1>4. TypeOK'
  <2>1. currentMap' \subseteq [value : Values, hunk : Hunks]
    BY <1>3 DEF IInv, TypeOK
  <2> QED
    BY <2>1, SameHunks DEF IInv, TypeOK, MainPCs
<1>5. ReadInv' /\ SlotInv' /\ FifoInv' /\ WorkInv' /\ OsdInv'
  BY <1>1, ReadFrame, SlotFrame, FifoFrame, WorkFrame, OsdFrame DEF IInv
<1>6. HashInv'
  <2>1. \A v : Mapped(v) => Mapped(v)'
    BY <1>3 DEF Mapped
  <2>2. \A s : Compressed(s) => Compressed(s)'
    BY <2>1 DEF Compressed, Hashed
  <2> QED
    BY <2>2, <1>1 DEF IInv, HashInv, Hashed
<1>7. MainInv'
  BY <1>1, <1>2, <1>3 DEF IInv, MainInv
<1> QED
  BY <1>4, <1>5, <1>6, <1>7 DEF IInv

\* The half buffer claimed is less than a lap ahead of the hunk to be written: one more
\* hunk would have the slot of writeHunk, which is not READY.
LEMMA ClaimFits ==
  ASSUME IInv, MayQueueRead
  PROVE  readQueued + Half <= writeHunk + W
<1> SUFFICES ASSUME readQueued + Half > writeHunk + W PROVE FALSE
  BY Window, Ring DEF IInv
<1>1. writeHunk < readQueued /\ writeHunk + W \in readQueued..(readQueued + Half - 1)
  BY Window, Ring DEF IInv
<1>2. Slot(writeHunk) \in NextHalf
  BY <1>1, Window, SlotShift DEF IInv, NextHalf
<1>3. status[Slot(writeHunk)] = "READY"
  BY <1>2 DEF MayQueueRead
<1>4. writeHunk \in writeHunk..(writeHunk + W - 1)
  BY Window, Ring DEF IInv
<1> QED
  BY <1>1, <1>3, <1>4, Window DEF IInv, SlotInv

LEMMA MainQueueReadInv == ASSUME IInv, MainQueueRead PROVE IInv'
<1> USE DEF MainQueueRead, otherThanMain, input, readVars, workVars, lifeVars
<1>1. Front' = Front /\ cur' = cur /\ Hunks' = Hunks
  BY SameHunks DEF Front, cur
<1>2. /\ readQueued < HunkCount /\ reads < 2 /\ readQueued + Half <= writeHunk + W
      /\ \A s \in NextHalf : status[s] = "READY"
  BY ClaimFits DEF MayQueueRead
<1>3. /\ status' \in [Slots -> {"READY", "READING", "QUEUED", "COMPLETE"}]
      /\ \A s \in Slots : status[s] # "READY" => status'[s] = status[s]
      /\ \A s \in Slots : s \in NextHalf => status'[s] = "READING"
      /\ \A s \in Slots : s \notin NextHalf => status'[s] = status[s]
  BY <1>2 DEF IInv, TypeOK
<1>4. ReadInv'
  BY <1>2, SameHunks, HunkFacts, Ring
     DEF IInv, TypeOK, ReadInv, Reading, Spawning, Unread, Halves, ReadEnd
<1>5. TypeOK'
  <2>1. readFifo' \in 0..2 /\ reads' \in 0..2 /\ readQueued' \in Nat
    BY <1>2, Ring DEF IInv, TypeOK, ReadInv
  <2> QED
    BY <1>3, <2>1, SameHunks DEF IInv, TypeOK, MainPCs
<1>6. SlotInv'
  <2>1. writeHunk' <= Front' /\ readQueued' <= writeHunk' + W
    BY <1>1, <1>2, Window DEF IInv
  <2> SUFFICES ASSUME NEW h \in writeHunk..(writeHunk + W - 1)
               PROVE  /\ h < Front => status'[Slot(h)] \in {"QUEUED", "COMPLETE"} /\ hunknum[Slot(h)] = h
                      /\ Front <= h /\ h < readQueued + Half =>
                           \/ status'[Slot(h)] = "READING"
                           \/ readError /\ h = rcur /\ status'[Slot(h)] = "QUEUED"
                      /\ readQueued + Half <= h => status'[Slot(h)] = "READY"
    BY <1>1, <2>1 DEF SlotInv
  <2>2. h \in Nat /\ Slot(h) \in Slots
    BY Window, SlotType DEF IInv
  <2>3. CASE h < readQueued
    <3>1. status[Slot(h)] # "READY"
      BY <2>2, <2>3, Window DEF IInv, SlotInv
    <3>2. status'[Slot(h)] = status[Slot(h)]
      BY <3>1, <2>2, <1>3
    <3> QED
      BY <2>2, <2>3, <3>2, Window, Ring DEF IInv, SlotInv
  <2>4. CASE readQueued <= h /\ h < readQueued + Half
    <3>1. Slot(h) \in NextHalf
      BY <2>2, <2>4, Window, Ring DEF IInv, NextHalf
    <3> QED
      BY <3>1, <2>2, <2>4, <1>3, Window, Ring DEF IInv
  <2>5. CASE readQueued + Half <= h
    <3>1. Slot(h) \notin NextHalf
      BY <2>2, <2>5, Window, Ring, SlotInjective DEF IInv, NextHalf
    <3> QED
      BY <3>1, <2>2, <2>5, <1>3, Window, Ring DEF IInv, SlotInv
  <2> QED
    BY <2>2, <2>3, <2>4, <2>5, Window, Ring DEF IInv
<1>7. FifoInv'
  <2>1. \A i \in 1..Len(workFifo) : Slot(workFifo[i]) \in Slots
    BY FifoTypes, SlotType DEF IInv
  <2> QED
    BY <2>1, <1>1, <1>3 DEF IInv, FifoInv
<1>8. WorkInv'
  <2>1. \A w \in Workers : wpc[w] # "idle" => Slot(whunk[w]) \in Slots
    BY HunkNat DEF IInv, WorkInv
  <2> QED
    BY <2>1, <1>1, <1>3 DEF IInv, WorkInv
<1>9. HashInv'
  <2>1. \A h \in Hunks : status'[Slot(h)] = "COMPLETE" => status[Slot(h)] = "COMPLETE"
    BY <1>3, HunkNat DEF IInv
  <2> QED
    BY <2>1, <1>1 DEF IInv, HashInv, Hashed, Compressed, Mapped
<1>10. OsdInv'
  BY <1>1, OsdFrame DEF IInv
<1>11. MainInv'
  BY <1>1 DEF IInv, MainInv, Writing
<1> QED
  BY <1>4, <1>5, <1>6, <1>7, <1>8, <1>9, <1>10, <1>11 DEF IInv

LEMMA MainAdvanceInv == ASSUME IInv, MainAdvance PROVE IInv'
<1> USE DEF MainAdvance, otherThanMain, input, osdVars, readVars, workVars, lifeVars
<1>1. Front' = Front /\ Hunks' = Hunks /\ HunkCount' = HunkCount
  BY SameHunks DEF Front
<1>2. /\ cur \in Slots /\ writeHunk \in Hunks /\ writeHunk \in Nat /\ writeHunk < Front
      /\ status[cur] = "COMPLETE"
  BY CurrentHunk DEF Writing
<1>3. /\ status' \in [Slots -> {"READY", "READING", "QUEUED", "COMPLETE"}]
      /\ status'[cur] = "READY"
      /\ \A s \in Slots : s # cur => status'[s] = status[s]
  BY <1>2 DEF IInv, TypeOK
<1>4. TypeOK'
  <2>1. writeHunk' \in 0..HunkCount /\ pc' \in MainPCs
    BY <1>2, HunkNat, Window DEF IInv, MainPCs
  <2> QED
    BY <1>1, <1>3, <2>1 DEF IInv, TypeOK
<1>5. ReadInv'
  BY ReadFrame DEF IInv
<1>6. SlotInv'
  <2>1. writeHunk + 1 <= Front /\ readQueued <= writeHunk + 1 + W
    BY <1>2, Window DEF IInv
  <2> SUFFICES ASSUME NEW h \in (writeHunk + 1)..(writeHunk + 1 + W - 1)
               PROVE  /\ h < Front => status'[Slot(h)] \in {"QUEUED", "COMPLETE"} /\ hunknum[Slot(h)] = h
                      /\ Front <= h /\ h < readQueued =>
                           \/ status'[Slot(h)] = "READING"
                           \/ readError /\ h = rcur /\ status'[Slot(h)] = "QUEUED"
                      /\ readQueued <= h => status'[Slot(h)] = "READY"
    BY <1>1, <2>1 DEF SlotInv
  <2>2. h \in Nat /\ Slot(h) \in Slots
    BY <1>2, Window, SlotType DEF IInv
  <2>3. CASE h = writeHunk + W
    <3>1. Slot(h) = cur
      BY <2>3, <1>2, SlotShift DEF cur
    <3> QED
      BY <3>1, <2>3, <1>2, <1>3, Window DEF IInv
  <2>4. CASE h # writeHunk + W
    <3>1. h \in writeHunk..(writeHunk + W - 1) /\ h # writeHunk
      BY <2>4, <1>2, Window DEF IInv
    <3>2. Slot(h) # cur
      BY <3>1, <2>2, <1>2, Window, SlotInjective DEF IInv, cur
    <3> QED
      BY <3>1, <3>2, <2>2, <1>3 DEF IInv, SlotInv
  <2> QED
    BY <2>3, <2>4
\* A hunk that is not COMPLETE is not the one just written out.
<1>7. ASSUME NEW h \in Hunks, writeHunk <= h, status[Slot(h)] = "QUEUED"
      PROVE  writeHunk + 1 <= h /\ status'[Slot(h)] = "QUEUED"
  <2>1. h \in Nat /\ Slot(h) \in Slots
    BY HunkNat DEF IInv
  <2> QED
    BY <2>1, <1>2, <1>3, <1>7 DEF cur
<1>8. FifoInv'
  <2>1. \A i \in 1..Len(workFifo) : workFifo[i] \in Hunks
    BY FifoTypes DEF IInv
  <2> QED
    BY <2>1, <1>1, <1>7 DEF IInv, FifoInv
<1>9. WorkInv'
  BY <1>1, <1>7 DEF IInv, WorkInv
<1>10. HashInv'
  <2>1. ASSUME NEW h \in Hunks, writeHunk + 1 <= h, status'[Slot(h)] = "COMPLETE"
        PROVE  writeHunk <= h /\ status[Slot(h)] = "COMPLETE"
    <3>1. h \in Nat /\ Slot(h) \in Slots
      BY HunkNat DEF IInv
    <3> QED
      BY <2>1, <3>1, <1>2, <1>3
  <2> QED
    BY <2>1, <1>1 DEF IInv, HashInv, Hashed, Compressed, Mapped
<1>11. OsdInv'
  BY <1>1 DEF IInv, OsdInv
<1>12. MainInv'
  <2>1. \A h \in Hunks : h \in Nat
    BY HunkNat DEF IInv
  <2>2. \A h \in Hunks : rawmap[h].kind = "unwritten" <=> h > writeHunk + 1 \/ h = writeHunk + 1
    BY <2>1, <1>2 DEF IInv, MainInv
  <2>3. \A e \in currentMap : e.hunk < writeHunk + 1
    <3> SUFFICES ASSUME NEW e \in currentMap PROVE e.hunk < writeHunk + 1
      OBVIOUS
    <3>1. e.hunk \in Nat
      BY <2>1 DEF IInv, TypeOK
    <3>2. e.hunk < writeHunk \/ e.hunk = writeHunk
      BY DEF IInv, MainInv
    <3> QED
      BY <3>1, <3>2, <1>2
  <2> QED
    BY <1>1, <2>2, <2>3 DEF IInv, MainInv, Writing
<1> QED
  BY <1>4, <1>5, <1>6, <1>8, <1>9, <1>10, <1>11, <1>12 DEF IInv

-----------------------------------------------------------------------------
(* The invariant, and what it gives *)

LEMMA StepInv == ASSUME IInv, [Next]_vars PROVE IInv'
<1>1. CASE ReadThread
  BY <1>1, ReadTakeInv, ReadDataInv, ReadSpawnInv, ReadAssignInv, ReadAdvanceInv, ReadFinishInv
     DEF ReadThread
<1>2. ASSUME NEW w \in Workers, WorkThread(w) PROVE IInv'
  BY <1>2, WorkTakeInv, WorkHashInv, WorkCompressInv, WorkCompleteInv, WorkFinishInv
     DEF WorkThread
<1>3. CASE MainThread
  BY <1>3, MainControlInv, MainQueueReadInv, MainReleaseInv, MainClearInv, MainEmitInv,
     MainAddInv, MainAdvanceInv
     DEF MainThread, MainControl
<1>4. CASE UNCHANGED vars
  <2> USE <1>4 DEF vars, input, slotVars, osdVars, readVars, workVars, mainVars, lifeVars
  <2>1. Front' = Front
    BY DEF Front
  <2>2. TypeOK'
    BY SameHunks DEF IInv, TypeOK
  <2>3. ReadInv' /\ SlotInv' /\ FifoInv' /\ WorkInv'
    BY <2>1, ReadFrame, SlotFrame, FifoFrame, WorkFrame DEF IInv
  <2>4. HashInv' /\ OsdInv' /\ MainInv'
    BY <2>1, HashFrame, OsdFrame, MainFrame DEF IInv
  <2> QED
    BY <2>2, <2>3, <2>4 DEF IInv
<1> QED
  BY <1>1, <1>2, <1>3, <1>4 DEF Next, Terminated

\* The inductive invariant of the pipeline holds in every reachable state.
THEOREM Invariance == SafeSpec => []IInv
<1>1. IInv /\ [Next]_vars => IInv'
  BY StepInv
<1> QED
  BY InitInv, <1>1, PTL DEF SafeSpec

\* Type correctness: in particular the digests of a slot that is written out have been
\* computed, and no counter leaves its range.
THEOREM TypeCorrect == SafeSpec => []TypeOK
<1>1. IInv => TypeOK
  BY DEF IInv
<1> QED
  BY <1>1, Invariance, PTL

LEMMA LapFromInv == ASSUME IInv PROVE NoLapOverrun
<1> SUFFICES ASSUME rpc = "read", NEW h \in readDone..(ReadEnd - 1)
             PROVE  /\ status[Slot(h)] = "READING"
                    /\ \A w \in Workers : Slot(h) \notin UsedBy(w)
                    /\ h - WORK_BUFFER_HUNKS < writeHunk
  BY DEF NoLapOverrun
<1>1. /\ h \in Nat /\ h >= rcur /\ Front = rcur /\ h < readQueued /\ ~readError
      /\ h \in writeHunk..(writeHunk + W - 1)
  BY HalfBuffer, Window DEF IInv, Front
<1>2. status[Slot(h)] = "READING"
  BY <1>1 DEF IInv, SlotInv
<1>3. ASSUME NEW w \in Workers PROVE Slot(h) \notin UsedBy(w)
  BY <1>2, WorkerHunk DEF UsedBy
<1>4. h - WORK_BUFFER_HUNKS < writeHunk
  BY <1>1, Window, Ring DEF IInv
<1> QED
  BY <1>2, <1>3, <1>4

\* async_read never overwrites a half buffer that a worker or the main thread still
\* needs: testing the slots for WS_READY and allowing two reads is enough, for any ring.
THEOREM LapsApart == SafeSpec => []NoLapOverrun
<1>1. IInv => NoLapOverrun
  BY LapFromInv
<1> QED
  BY <1>1, Invariance, PTL

LEMMA OsdFromInv == ASSUME IInv PROVE NoDanglingOsd
<1>1. cur \in Slots
  BY Window, SlotType DEF IInv, cur
<1>2. ASSUME mosd[cur] # Null, pc # "clear"
      PROVE  osd[mosd[cur]] \in {"queued", "completed"}
  <2>1. mosd[cur] \in Hunks /\ mosd[cur] \in Nat
    BY <1>1, <1>2, HunkNat DEF IInv, TypeOK
  <2>2. osd[mosd[cur]] \in {"none", "queued", "completed", "deleted"}
    BY <2>1 DEF IInv, TypeOK
  <2>3. mosd[cur] < rcur /\ osd[mosd[cur]] # "deleted"
    BY <1>1, <1>2 DEF IInv, OsdInv
  <2>4. osd[mosd[cur]] # "none"
    BY <2>1, <2>3, Window DEF IInv, OsdInv
  <2> QED
    BY <2>2, <2>3, <2>4
<1> QED
  BY <1>2 DEF NoDanglingOsd, IInv, MainInv

\* The main thread passes no dangling m_osd to the OSD layer, although the read thread
\* stores m_osd without any ordering with the worker and the main thread.
THEOREM OsdItemsLive == SafeSpec => []NoDanglingOsd
<1>1. IInv => NoDanglingOsd
  BY OsdFromInv
<1> QED
  BY <1>1, Invariance, PTL

\* Every read_data call starts where the last one ended and stays inside the source, so
\* the assertions of StreamingSource::read_data hold.
THEOREM Ordered == SafeSpec => []ReadsInOrder
<1>1. IInv => ReadsInOrder
  BY HalfBuffer DEF ReadsInOrder
<1> QED
  BY <1>1, Invariance, PTL

-----------------------------------------------------------------------------
(* Lifetime.  When no write fails and the 30s wait does not expire, the main *)
(* thread drops the compressor only with no read outstanding, or after a     *)
(* read error, which makes async_read return at once.                        *)

After == {"drop", "join_read", "join_work", "unlink", "returned"}

LifeInv ==
  /\ ~crashed
  /\ pc \in After => readError \/ reads = 0
  /\ ~derived => pc \in After \ {"drop"}
  /\ pc \in {"join_work", "unlink", "returned"} => rpc = "idle" /\ readFifo = 0
  /\ ~handler => pc \in {"unlink", "returned"}
  /\ pc \in {"unlink", "returned"} => workFifo = <<>> /\ \A w \in Workers : wpc[w] = "idle"

\* While async_read works on a half buffer the main thread is still compressing.
LEMMA ReadingMeansAlive ==
  ASSUME IInv, LifeInv, Reading
  PROVE  pc \notin After /\ derived /\ handler
<1>1. ~readError /\ reads # 0
  BY DEF IInv, TypeOK, ReadInv, Reading
<1> QED
  BY <1>1 DEF LifeInv, After

LEMMA LifeRead == ASSUME IInv, LifeInv, ReadThread PROVE LifeInv'
<1> USE DEF input, slotVars, osdVars, workVars, mainVars, lifeVars
<1>1. CASE ReadTake
  BY <1>1 DEF ReadTake, LifeInv, After
<1>2. CASE ReadData
  <2>1. pc \notin After /\ derived /\ handler
    BY <1>2, ReadingMeansAlive DEF ReadData, Reading
  <2> QED
    BY <1>2, <2>1 DEF ReadData, LifeInv, After
<1>3. CASE ReadSpawn
  <2>1. pc \notin After /\ derived /\ handler
    BY <1>3, ReadingMeansAlive DEF ReadSpawn, Reading
  <2> QED
    BY <1>3, <2>1 DEF ReadSpawn, LifeInv, After
<1>4. CASE ReadAssign
  BY <1>4 DEF ReadAssign, LifeInv, After
<1>5. CASE ReadAdvance
  BY <1>5 DEF ReadAdvance, LifeInv, After
<1>6. CASE ReadFinish
  <2>1. reads # 0
    BY <1>6 DEF ReadFinish, IInv, TypeOK, ReadInv
  <2> QED
    BY <1>6, <2>1 DEF ReadFinish, LifeInv, After
<1> QED
  BY <1>1, <1>2, <1>3, <1>4, <1>5, <1>6 DEF ReadThread

LEMMA LifeWork == ASSUME IInv, LifeInv, NEW w \in Workers, WorkThread(w) PROVE LifeInv'
<1> USE DEF input, slotVars, osdVars, readVars, mainVars, lifeVars
<1>1. pc \notin {"unlink", "returned"}
  <2>1. workFifo # <<>> \/ wpc[w] # "idle"
    BY DEF WorkThread, WorkTake, WorkHash, WorkCompress, WorkComplete, WorkFinish
  <2> QED
    BY <2>1 DEF LifeInv
<1>2. UNCHANGED <<readFifo, reads, readVars, mainVars, lifeVars>>
  <2>1. CASE WorkTake(w)
    BY <2>1 DEF WorkTake
  <2>2. CASE WorkHash(w) \/ WorkCompress(w)
    BY <2>2 DEF WorkHash, WorkCompress
  <2>3. CASE WorkComplete(w) \/ WorkFinish(w)
    BY <2>3 DEF WorkComplete, WorkFinish
  <2> QED
    BY <2>1, <2>2, <2>3 DEF WorkThread
<1>3. /\ crashed' = crashed /\ pc' = pc /\ readError' = readError /\ reads' = reads
      /\ derived' = derived /\ rpc' = rpc /\ readFifo' = readFifo /\ handler' = handler
  BY <1>2
<1> QED
  BY <1>1, <1>3 DEF LifeInv

LEMMA LifeMain ==
  ASSUME ~WriteMayFail, ~WaitMayTimeOut, IInv, LifeInv, MainThread
  PROVE  LifeInv'
<1> USE DEF otherThanMain, input, slotVars, osdVars, readVars, workVars, lifeVars
<1>1. CASE MainLoop
  BY <1>1 DEF MainLoop, LifeInv, After
<1>2. CASE \/ MainQueueRead \/ MainQueueDone \/ MainFlush
           \/ MainRelease \/ MainClear \/ MainAdd \/ MainAdvance \/ MainWait
  <2>1. pc \notin After /\ pc' \notin After
    BY <1>2 DEF MainQueueRead, MainQueueDone, MainFlush,
                MainRelease, MainClear, MainAdd, MainAdvance, MainWait, After
  <2>2. crashed' = crashed /\ derived' = derived /\ handler' = handler
    BY <1>2 DEF MainQueueRead, MainQueueDone, MainFlush,
                MainRelease, MainClear, MainAdd, MainAdvance, MainWait
  <2> QED
    BY <2>1, <2>2 DEF LifeInv, After
<1>3. CASE MainEmit
  <2>1. ~EmitFails
    BY <1>3, AppendAccepted DEF MainEmit, EmitFails
  <2>2. pc' \in {"add", "advance"}
    BY <1>3, <2>1 DEF MainEmit, EmitRaw, EmitSelf, EmitCompressed
  <2> QED
    BY <1>3, <2>2 DEF MainEmit, LifeInv, After
<1>4. CASE MainFinalize
  BY <1>4 DEF MainFinalize, LifeInv, After
<1>5. CASE MainDrop \/ MainJoinRead
  BY <1>5 DEF MainDrop, MainJoinRead, LifeInv, After
<1>6. CASE MainJoinWork
  BY <1>6 DEF MainJoinWork, LifeInv, After
<1>7. CASE MainReturn
  <2>1. /\ pc = "unlink" /\ pc' = "returned"
        /\ UNCHANGED <<readError, reads, derived, handler, crashed, rpc, readFifo, workFifo, wpc>>
    BY <1>7 DEF MainReturn
  <2> QED
    BY <2>1 DEF LifeInv, After
<1> QED
  BY <1>1, <1>2, <1>3, <1>4, <1>5, <1>6, <1>7 DEF MainThread

\* read_data is never called on a destroyed compressor, and the handler outlives every
\* thread, if no write fails and the wait for the reads does not expire; reads may throw.
THEOREM AliveDuringCalls ==
  ASSUME ~WriteMayFail, ~WaitMayTimeOut
  PROVE  SafeSpec => []NoCallAfterDestroy
<1>1. Init => LifeInv
  BY DEF Init, LifeInv, After
<1>2. IInv /\ LifeInv /\ [Next]_vars => LifeInv'
  <2> SUFFICES ASSUME IInv, LifeInv, [Next]_vars PROVE LifeInv'
    OBVIOUS
  <2>1. CASE UNCHANGED vars
    BY <2>1 DEF vars, osdVars, readVars, workVars, mainVars, lifeVars, LifeInv
  <2> QED
    BY <2>1, LifeRead, LifeWork, LifeMain DEF Next, Terminated
<1>3. LifeInv => NoCallAfterDestroy
  BY DEF LifeInv, NoCallAfterDestroy
<1> QED
  BY <1>1, <1>2, <1>3, Invariance, PTL DEF SafeSpec

-----------------------------------------------------------------------------
(* What is stored.  The hunks that read_data delivered, in the history taken, *)
(* are those that the ring, the map and the digest speak of, whatever reads   *)
(* throw or come back short, writes fail or waits expire.                     *)

\* The last lap of hunks read is in the ring.
DataInv ==
  /\ Len(taken) = cursor
  /\ \A h \in Hunks : h < cursor /\ cursor <= h + W => data[Slot(h)] = taken[h + 1]

\* The map: a hunk's own data, or a reference to an earlier hunk with the same data.
Plain(h, v) == rawmap[h] = [kind |-> "data", value |-> v]
MapInv ==
  /\ \A h \in Hunks : rawmap[h].kind # "unwritten" =>
       \/ Plain(h, taken[h + 1])
       \/ \E r \in Hunks : /\ r < h /\ Plain(r, taken[h + 1])
                           /\ rawmap[h] = [kind |-> "self", ref |-> r]
  /\ \A e \in currentMap : Plain(e.hunk, e.value)
  /\ pc = "add" => Plain(writeHunk, taken[writeHunk + 1])

\* The running SHA-1 covers the hunks read, in order.
Heads(k) == [n \in 1..k |-> taken[n]]
ShaInv == compressed => sha = Heads(readDone)

EndInv ==
  /\ readError => rcur < HunkCount /\ ReadMayThrow
  /\ err => pc \in After
  /\ pc = "finalize" => writeHunk = HunkCount
  /\ pc \notin After => rawSha = Null
  /\ pc \in After /\ ~err => writeHunk = HunkCount
  /\ pc \in After /\ ~err /\ compressed => WaitMayTimeOut \/ rawSha = taken
  /\ result = Null <=> pc # "returned"

RInv == DataInv /\ MapInv /\ ShaInv /\ EndInv

LEMMA DataFrame ==
  ASSUME DataInv, UNCHANGED <<source, data, cursor, taken>>
  PROVE  DataInv'
BY SameHunks DEF DataInv

LEMMA MapFrame ==
  ASSUME MapInv, UNCHANGED <<source, rawmap, currentMap, taken>>,
         pc' = "add" => pc = "add" /\ writeHunk' = writeHunk
  PROVE  MapInv'
BY SameHunks DEF MapInv, Plain

LEMMA ShaFrame ==
  ASSUME ShaInv, UNCHANGED <<input, sha, readDone, taken>>
  PROVE  ShaInv'
BY DEF ShaInv, Heads, input

LEMMA EndFrame ==
  ASSUME EndInv, UNCHANGED <<input, readError, rcur, err, pc, writeHunk, rawSha, result, taken>>
  PROVE  EndInv'
BY SameHunks DEF EndInv, input

LEMMA InitR == Init => RInv
<1> SUFFICES ASSUME Init PROVE RInv
  OBVIOUS
<1>1. Hunks = 0..(HunkCount - 1) /\ HunkCount \in Nat
  BY HunkFacts DEF Init
<1>2. DataInv
  BY <1>1 DEF Init, DataInv
<1>3. MapInv
  BY DEF Init, MapInv, Hunks
<1>4. ShaInv
  <2>1. Heads(0) = <<>>
    BY DEF Heads
  <2> QED
    BY <2>1 DEF Init, ShaInv
<1>5. EndInv
  BY DEF Init, EndInv, After
<1> QED
  BY <1>2, <1>3, <1>4, <1>5 DEF RInv

\* A hunk in the map has been read.
LEMMA WrittenWasRead ==
  ASSUME IInv, NEW h \in Hunks, rawmap[h].kind # "unwritten" \/ (pc = "add" /\ h = writeHunk)
  PROVE  h < cursor
<1>1. h \in Nat
  BY HunkNat DEF IInv
<1>2. h < writeHunk \/ (h = writeHunk /\ Writing)
  BY <1>1, Window DEF IInv, MainInv, Writing
<1>3. Writing => writeHunk < Front
  BY DEF IInv, MainInv
<1> QED
  BY <1>1, <1>2, <1>3, Window DEF IInv, TypeOK

\* One sequence behind another.
LEMMA Appended ==
  ASSUME NEW s \in Seq(Values), NEW t \in Seq(Values)
  PROVE  /\ s \o t \in Seq(Values) /\ Len(s \o t) = Len(s) + Len(t)
         /\ \A i \in 1..(Len(s) + Len(t)) : (s \o t)[i] = IF i <= Len(s) THEN s[i] ELSE t[i - Len(s)]
<1>1. s \o t \in Seq(Values)
  BY SMTT(30)
<1>2. Len(s \o t) = Len(s) + Len(t)
  BY SMTT(30)
<1>3. ASSUME NEW i \in 1..(Len(s) + Len(t))
      PROVE  (s \o t)[i] = IF i <= Len(s) THEN s[i] ELSE t[i - Len(s)]
  BY SMTT(30)
<1> QED
  BY <1>1, <1>2, <1>3

\* A half buffer is appended to the hunks read: none of those before it changes.
Grown(new) == /\ Len(taken') = ReadEnd /\ taken' \in Seq(Values)
              /\ \A h \in 0..(ReadEnd - 1) : taken'[h + 1] = IF h < readDone THEN taken[h + 1]
                                                            ELSE new[h + 1 - readDone]
LEMMA GrownTaken ==
  ASSUME IInv, DataInv, rpc = "read", NEW new, Typed(new), taken' = taken \o new
  PROVE  Grown(new)
<1>1. /\ taken \in Seq(Values) /\ Len(taken) = readDone
      /\ new \in Seq(Values) /\ Len(new) = ReadEnd - readDone
      /\ readDone \in Nat /\ ReadEnd \in Nat
  BY HalfBuffer DEF IInv, TypeOK, DataInv, Typed
<1>2. Len(taken') = ReadEnd /\ taken' \in Seq(Values)
  <2>1. taken \in Seq(Values) /\ new \in Seq(Values)
    BY <1>1
  <2>2. Len(taken \o new) = Len(taken) + Len(new)
    BY <2>1, Appended
  <2>3. taken \o new \in Seq(Values)
    BY <2>1, Appended
  <2>4. Len(taken) + Len(new) = ReadEnd
    BY <1>1
  <2> QED
    BY <2>2, <2>3, <2>4
<1>3. ASSUME NEW h \in 0..(ReadEnd - 1)
      PROVE  taken'[h + 1] = IF h < readDone THEN taken[h + 1] ELSE new[h + 1 - readDone]
  <2>1. \A i \in 1..(Len(taken) + Len(new)) :
           (taken \o new)[i] = IF i <= Len(taken) THEN taken[i] ELSE new[i - Len(taken)]
    BY <1>1, Appended
  <2>2. h + 1 \in 1..(Len(taken) + Len(new)) /\ (h + 1 <= Len(taken) <=> h < readDone)
    BY <1>1
  <2> QED
    BY <1>1, <2>1, <2>2
<1> QED
  BY <1>2, <1>3 DEF Grown

LEMMA ReadDataR == ASSUME IInv, RInv, ReadData PROVE RInv'
<1> USE DEF input, mainVars
<1>1. /\ UNCHANGED <<input, readDone, sha, mainVars, result>> /\ rpc = "read"
  BY DEF ReadData
<1>2. /\ ~readError /\ cursor = readDone /\ rcur = readDone /\ readDone < HunkCount
      /\ readDone < ReadEnd /\ ReadEnd <= readQueued /\ ReadEnd <= HunkCount
      /\ ReadEnd \in Nat /\ readDone \in Nat
  BY <1>1, HalfBuffer
<1>3. rcur' = rcur
  BY <1>2 DEF ReadData
\* The main thread still waits for the hunks to be read.
<1>4. pc \notin After \/ err
  <2>1. writeHunk < HunkCount
    BY <1>1, <1>2, Window DEF IInv, Front
  <2> QED
    BY <2>1, Window DEF RInv, EndInv, IInv
<1>5. readError' => ReadMayThrow
  BY <1>2 DEF ReadData
<1>6. EndInv'
  BY <1>1, <1>2, <1>3, <1>4, <1>5, SameHunks DEF RInv, EndInv
<1>7. CASE UNCHANGED <<data, cursor, taken>>
  BY <1>1, <1>6, <1>7, DataFrame, MapFrame, ShaFrame DEF RInv
<1>8. CASE /\ cursor' = ReadEnd /\ taken' = taken \o Delivered(data')
           /\ data' \in [Slots -> Values]
           /\ \A s \in Slots : (\A h \in readDone..(ReadEnd - 1) : Slot(h) # s) => data'[s] = data[s]
  <2> DEFINE new == Delivered(data')
  <2>1. Typed(new)
    BY <1>1, <1>2, <1>8, DeliveredFacts DEF Reading
  <2>2. \A h \in 0..(ReadEnd - 1) : h >= readDone => new[h + 1 - readDone] = data'[Slot(h)]
    <3> SUFFICES ASSUME NEW h \in 0..(ReadEnd - 1), h >= readDone
                 PROVE  new[h + 1 - readDone] = data'[Slot(h)]
      OBVIOUS
    <3>1. h + 1 - readDone \in 1..(ReadEnd - readDone) /\ readDone + (h + 1 - readDone) - 1 = h
      BY <1>2
    <3> QED
      BY <3>1 DEF Delivered
  <2> HIDE DEF new
  <2>3. Grown(new)
    <3>1. taken' = taken \o new
      BY <1>8 DEF new
    <3> QED
      BY <1>1, <2>1, <3>1, GrownTaken DEF RInv
  <2>4. \A h \in Hunks : h < cursor => taken'[h + 1] = taken[h + 1]
    BY <1>2, <2>3, HunkNat DEF Grown, IInv
  <2>5. DataInv'
    <3>0. Len(taken') = cursor' /\ Hunks' = Hunks
      BY <1>1, <1>8, <2>3, SameHunks DEF Grown
    <3> SUFFICES ASSUME NEW h \in Hunks, h < ReadEnd, ReadEnd <= h + W
                 PROVE  data'[Slot(h)] = taken'[h + 1]
      BY <1>8, <3>0 DEF DataInv
    <3>1. h \in Nat /\ Slot(h) \in Slots
      BY HunkNat DEF IInv
    <3>2. \A g \in readDone..(ReadEnd - 1) : Slot(g) = Slot(h) => g = h
      BY <1>2, <3>1, Window, SlotInjective DEF IInv
    <3>3. CASE h < readDone
      <4>1. data'[Slot(h)] = data[Slot(h)]
        BY <1>8, <3>1, <3>2, <3>3, <1>2
      <4>2. h < cursor /\ cursor <= h + W
        BY <3>1, <3>3, <1>2, Window DEF IInv
      <4> QED
        BY <4>1, <4>2, <2>4 DEF RInv, DataInv
    <3>4. CASE readDone <= h
      <4>1. h \in 0..(ReadEnd - 1) /\ ~(h < readDone)
        BY <3>1, <3>4, <1>2
      <4> QED
        BY <3>4, <4>1, <2>2, <2>3 DEF Grown
    <3> QED
      BY <3>1, <3>3, <3>4, <1>2
  <2>6. MapInv'
    <3>1. /\ \A h \in Hunks : rawmap[h].kind # "unwritten" => taken'[h + 1] = taken[h + 1]
          /\ pc = "add" => taken'[writeHunk + 1] = taken[writeHunk + 1]
      <4>1. pc = "add" => writeHunk \in Hunks
        BY CurrentHunk DEF Writing
      <4> QED
        BY <2>4, <4>1, WrittenWasRead
    <3> QED
      BY <1>1, <3>1, SameHunks DEF RInv, MapInv, Plain
  <2>7. ShaInv'
    <3>1. \A n \in 1..readDone : taken'[n] = taken[n]
      <4> SUFFICES ASSUME NEW n \in 1..readDone PROVE taken'[n] = taken[n]
        OBVIOUS
      <4>1. n - 1 \in Hunks /\ n - 1 < cursor /\ (n - 1) + 1 = n
        BY <1>2, HunkFacts DEF IInv, TypeOK
      <4> QED
        BY <4>1, <2>4
    <3> QED
      BY <1>1, <3>1 DEF RInv, ShaInv, Heads
  <2> QED
    BY <1>6, <2>5, <2>6, <2>7 DEF RInv
<1>9. \/ UNCHANGED <<data, cursor, taken>>
      \/ cursor' = ReadEnd /\ taken' = taken \o Delivered(data') /\ data' = data
      \/ /\ cursor' = ReadEnd /\ taken' = taken \o Delivered(data')
         /\ \A s \in Slots : (\A h \in readDone..(ReadEnd - 1) : Slot(h) # s) => data'[s] = data[s]
  <2>1. ASSUME cursor' = ReadEnd, taken' = taken \o Delivered(data), UNCHANGED data
        PROVE  taken' = taken \o Delivered(data')
    BY <2>1
  <2> QED
    BY <2>1 DEF ReadData
<1>10. data' \in [Slots -> Values]
  BY ReadDataInv DEF IInv, TypeOK
<1> QED
  BY <1>7, <1>8, <1>9, <1>10 DEF IInv, TypeOK

LEMMA ReadAdvanceR == ASSUME IInv, RInv, ReadAdvance PROVE RInv'
<1> USE DEF ReadAdvance, input, slotVars, mainVars, lifeVars
<1>1. /\ rpc = "spawn" /\ cursor = ReadEnd /\ readDone \in Nat /\ ReadEnd \in Nat
      /\ readDone <= ReadEnd /\ ReadEnd <= HunkCount /\ ReadEnd <= readDone + W /\ ~readError
  BY HunkFacts, Ring DEF IInv, TypeOK, ReadInv, Spawning, Reading, ReadEnd
<1>2. DataInv' /\ MapInv' /\ EndInv'
  BY DataFrame, MapFrame, EndFrame DEF RInv
<1>3. ShaInv'
  <2> SUFFICES ASSUME compressed PROVE sha' = Heads(ReadEnd)
    BY DEF ShaInv, Heads
  <2> DEFINE new == Delivered(data)
  <2>1. sha = Heads(readDone) /\ sha' = sha \o new
    BY DEF RInv, ShaInv
  <2>2. \A n \in 1..(ReadEnd - readDone) : new[n] = taken[readDone + n]
    <3> SUFFICES ASSUME NEW n \in 1..(ReadEnd - readDone)
                 PROVE  data[Slot(readDone + n - 1)] = taken[readDone + n]
      BY DEF Delivered
    <3>1. /\ readDone + n - 1 \in Hunks /\ (readDone + n - 1) + 1 = readDone + n
          /\ readDone + n - 1 < cursor /\ cursor <= readDone + n - 1 + W
      <4>1. HunkCount \in Nat /\ Hunks = 0..(HunkCount - 1) /\ W \in Nat
        BY HunkFacts, Ring DEF IInv, TypeOK
      <4> QED
        BY <1>1, <4>1
    <3> QED
      BY <3>1 DEF RInv, DataInv
  <2>3. sha \in Seq(Values) /\ Len(sha) = readDone
    BY <2>1, <1>1 DEF IInv, TypeOK, Heads
  <2>4. new \in Seq(Values) /\ Len(new) = ReadEnd - readDone
    BY <1>1, DeliveredFacts DEF Reading, Typed, IInv, TypeOK
  <2> HIDE DEF new
  <2>5. /\ Len(sha \o new) = ReadEnd /\ sha \o new \in Seq(Values)
        /\ \A i \in 1..readDone : (sha \o new)[i] = taken[i]
        /\ \A i \in 1..ReadEnd : i > readDone => (sha \o new)[i] = new[i - readDone]
    <3>1. /\ sha \o new \in Seq(Values) /\ Len(sha \o new) = Len(sha) + Len(new)
          /\ \A i \in 1..(Len(sha) + Len(new)) :
               (sha \o new)[i] = IF i <= Len(sha) THEN sha[i] ELSE new[i - Len(sha)]
      BY <2>3, <2>4, Appended
    <3>2. \A i \in 1..readDone : sha[i] = taken[i]
      BY <2>1 DEF Heads
    <3> QED
      BY <1>1, <2>3, <2>4, <3>1, <3>2
  <2>6. \A i \in 1..ReadEnd : i > readDone => new[i - readDone] = taken[i]
    <3> SUFFICES ASSUME NEW i \in 1..ReadEnd, i > readDone PROVE new[i - readDone] = taken[i]
      OBVIOUS
    <3>1. i - readDone \in 1..(ReadEnd - readDone) /\ readDone + (i - readDone) = i
      BY <1>1
    <3> QED
      BY <3>1, <2>2
  <2>7. ASSUME NEW i \in 1..ReadEnd PROVE (sha \o new)[i] = taken[i]
    <3>1. i \in 1..readDone \/ i > readDone
      BY <1>1
    <3> QED
      BY <2>5, <2>6, <3>1
  <2> DEFINE all == sha \o new
  <2>8. all \in Seq(Values) /\ Len(all) = ReadEnd /\ \A i \in 1..ReadEnd : all[i] = taken[i]
    BY <2>5, <2>7
  <2> HIDE DEF all
  <2>9. all = [i \in 1..ReadEnd |-> taken[i]]
    BY <2>8, <1>1
  <2> QED
    BY <2>1, <2>9 DEF Heads, all
<1> QED
  BY <1>2, <1>3 DEF RInv

LEMMA ReadR == ASSUME IInv, RInv, ReadThread PROVE RInv'
<1> USE DEF input, slotVars, workVars, mainVars, lifeVars, osdVars
<1>1. CASE ReadTake \/ ReadFinish
  <2>1. UNCHANGED <<input, slotVars, rcur, readDone, readError, sha, cursor, taken, mainVars, lifeVars>>
    BY <1>1 DEF ReadTake, ReadFinish
  <2> QED
    BY <2>1, DataFrame, MapFrame, ShaFrame, EndFrame DEF RInv
<1>2. CASE ReadSpawn
  <2>1. UNCHANGED <<input, data, rcur, readDone, sha, cursor, taken, mainVars, lifeVars>>
        /\ (readError' => readError \/ ReadMayThrow)
    BY <1>2 DEF ReadSpawn
  <2>2. rcur < HunkCount
    BY <1>2, HunkFacts, Ring DEF ReadSpawn, IInv, TypeOK, ReadInv, ReadEnd
  <2>3. EndInv'
    BY <2>1, <2>2, SameHunks DEF RInv, EndInv
  <2> QED
    BY <2>1, <2>3, DataFrame, MapFrame, ShaFrame DEF RInv
<1>3. CASE ReadAssign
  <2>1. UNCHANGED <<input, data, readDone, readError, sha, cursor, taken, mainVars, lifeVars>>
    BY <1>3 DEF ReadAssign
  <2>2. ~readError
    BY <1>3 DEF ReadAssign, IInv, ReadInv, Reading
  <2>3. EndInv'
    BY <2>1, <2>2, SameHunks DEF RInv, EndInv
  <2> QED
    BY <2>1, <2>3, DataFrame, MapFrame, ShaFrame DEF RInv
<1> QED
  BY <1>1, <1>2, <1>3, ReadDataR, ReadAdvanceR DEF ReadThread

LEMMA WorkR == ASSUME RInv, NEW w \in Workers, WorkThread(w) PROVE RInv'
<1> USE DEF input, slotVars, osdVars, readVars, mainVars, lifeVars
<1>1. UNCHANGED <<input, data, readVars, mainVars, lifeVars>>
  <2>1. CASE WorkTake(w) \/ WorkFinish(w)
    BY <2>1 DEF WorkTake, WorkFinish
  <2>2. CASE WorkHash(w) \/ WorkCompress(w) \/ WorkComplete(w)
    BY <2>2 DEF WorkHash, WorkCompress, WorkComplete
  <2> QED
    BY <2>1, <2>2 DEF WorkThread
<1> QED
  BY <1>1, DataFrame, MapFrame, ShaFrame, EndFrame DEF RInv

\* The hunk about to be written out is the one that was read.
LEMMA CurrentData ==
  ASSUME IInv, RInv, Writing
  PROVE  data[cur] = taken[writeHunk + 1] /\ data[cur] \in Values
<1>1. writeHunk \in Hunks /\ writeHunk < Front
  BY CurrentHunk
<1>2. writeHunk < cursor /\ cursor <= writeHunk + W
  BY <1>1, Window DEF IInv, TypeOK, ReadInv
<1>3. data[cur] \in Values
  BY CurrentHunk
<1> QED
  BY <1>1, <1>2, <1>3 DEF RInv, DataInv, cur

LEMMA MainEmitR == ASSUME IInv, RInv, MainEmit PROVE RInv'
<1> USE DEF otherThanMain, input, slotVars, osdVars, readVars, lifeVars
<1>0. /\ UNCHANGED <<otherThanMain, slotVars, writeHunk, currentMap, rawSha, lifeVars>>
      /\ pc = "emit" /\ Writing
  BY DEF MainEmit, Writing
<1>1. /\ cur \in Slots /\ writeHunk \in Hunks /\ writeHunk \in Nat
      /\ hunknum[cur] = writeHunk /\ hash[cur] = data[cur]
      /\ comp[cur] = data[cur] \/ Mapped(hash[cur])
      /\ data[cur] = taken[writeHunk + 1]
  BY <1>0, CurrentHunk, CurrentData
<1>2. DataInv' /\ ShaInv'
  BY <1>0, DataFrame, ShaFrame DEF RInv
<1>3. /\ pc' \in {"drop", "add", "advance"}
      /\ pc' = "drop" => err' = TRUE
      /\ pc' # "drop" => err' = err
  BY DEF MainEmit, EmitRaw, EmitSelf, EmitCompressed, EmitFails
<1>4. EndInv'
  BY <1>0, <1>3, SameHunks DEF RInv, EndInv, After
\* The entry written is the hunk's data, or refers to an earlier hunk that has it.
<1>5. \/ rawmap' = rawmap /\ pc' = "drop"
      \/ rawmap' = [rawmap EXCEPT ![writeHunk] = [kind |-> "data", value |-> taken[writeHunk + 1]]]
      \/ /\ pc' # "add"
         /\ \E r \in Hunks :
              /\ r < writeHunk /\ Plain(r, taken[writeHunk + 1])
              /\ rawmap' = [rawmap EXCEPT ![writeHunk] = [kind |-> "self", ref |-> r]]
  <2>1. CASE EmitRaw
    BY <2>1, <1>1 DEF EmitRaw
  <2>2. CASE EmitSelf
    <3>1. PICK e \in EarlierCopies : rawmap' = [rawmap EXCEPT ![hunknum[cur]] = [kind |-> "self", ref |-> e.hunk]]
      BY <2>2 DEF EmitSelf
    <3>2. e \in currentMap /\ e.value = taken[writeHunk + 1] /\ e.hunk < writeHunk
      BY <1>1 DEF EarlierCopies
    <3>3. e.hunk \in Hunks
      BY <3>2 DEF IInv, TypeOK
    <3>4. Plain(e.hunk, taken[writeHunk + 1])
      BY <3>2 DEF RInv, MapInv
    <3> QED
      BY <2>2, <3>1, <3>2, <3>3, <3>4, <1>1 DEF EmitSelf
  <2>3. CASE EmitCompressed
    BY <2>3, <1>1 DEF EmitCompressed
  <2>4. CASE EmitFails
    BY <2>4 DEF EmitFails
  <2> QED
    BY <2>1, <2>2, <2>3, <2>4 DEF MainEmit
<1>6. MapInv'
  <2>1. CASE rawmap' = rawmap /\ pc' = "drop"
    BY <2>1, <1>0, MapFrame DEF RInv
  <2>2. CASE \/ rawmap' = [rawmap EXCEPT ![writeHunk] = [kind |-> "data", value |-> taken[writeHunk + 1]]]
             \/ /\ pc' # "add"
                /\ \E r \in Hunks :
                     /\ r < writeHunk /\ Plain(r, taken[writeHunk + 1])
                     /\ rawmap' = [rawmap EXCEPT ![writeHunk] = [kind |-> "self", ref |-> r]]
    <3>1. \A h \in Hunks : h # writeHunk => rawmap'[h] = rawmap[h]
      BY <2>2 DEF IInv, TypeOK
    <3>2. \/ rawmap'[writeHunk] = [kind |-> "data", value |-> taken[writeHunk + 1]]
          \/ /\ pc' # "add"
             /\ \E r \in Hunks : /\ r < writeHunk /\ Plain(r, taken[writeHunk + 1])
                                 /\ rawmap'[writeHunk] = [kind |-> "self", ref |-> r]
      BY <2>2, <1>1 DEF IInv, TypeOK
    \* Only hunks already in the map are referred to, and writeHunk is not.
    <3>3. \A h \in Hunks : \A v : Plain(h, v) => Plain(h, v)'
      <4>1. rawmap[writeHunk].kind = "unwritten"
        BY <1>0, <1>1 DEF IInv, MainInv
      <4>2. \A v : ~Plain(writeHunk, v)
        BY <4>1 DEF Plain
      <4> QED
        BY <3>1, <4>2 DEF Plain
    <3>4. \A e \in currentMap : Plain(e.hunk, e.value)'
      <4>1. \A e \in currentMap : e.hunk \in Hunks
        BY DEF IInv, TypeOK
      <4> QED
        BY <3>3, <4>1 DEF RInv, MapInv
    <3>5. ASSUME NEW h \in Hunks, rawmap'[h].kind # "unwritten"
          PROVE  \/ Plain(h, taken[h + 1])'
                 \/ \E r \in Hunks : /\ r < h /\ Plain(r, taken[h + 1])'
                                     /\ rawmap'[h] = [kind |-> "self", ref |-> r]
      <4>1. CASE h = writeHunk
        BY <4>1, <3>2, <3>3, <1>0 DEF Plain
      <4>2. CASE h # writeHunk
        <5>1. \/ Plain(h, taken[h + 1])
              \/ \E r \in Hunks : /\ r < h /\ Plain(r, taken[h + 1])
                                  /\ rawmap[h] = [kind |-> "self", ref |-> r]
          BY <4>2, <3>1, <3>5 DEF RInv, MapInv
        <5> QED
          BY <4>2, <5>1, <3>1, <3>3, <1>0 DEF Plain
      <4> QED
        BY <4>1, <4>2
    <3>6. pc' = "add" => Plain(writeHunk, taken[writeHunk + 1])'
      BY <3>2, <1>0 DEF Plain
    <3> QED
      BY <3>4, <3>5, <3>6, <1>0, SameHunks DEF MapInv, Plain
  <2> QED
    BY <1>5, <2>1, <2>2
<1> QED
  BY <1>2, <1>4, <1>6 DEF RInv

LEMMA MainAddR == ASSUME IInv, RInv, MainAdd PROVE RInv'
<1> USE DEF MainAdd, otherThanMain, input, slotVars, readVars, lifeVars
<1>1. hunknum[cur] = writeHunk /\ hash[cur] = taken[writeHunk + 1]
  BY CurrentHunk, CurrentData DEF Writing
<1>2. DataInv' /\ ShaInv'
  BY DataFrame, ShaFrame DEF RInv
<1>3. EndInv'
  BY SameHunks DEF RInv, EndInv, After
<1>4. MapInv'
  <2>1. \A e \in currentMap' : Plain(e.hunk, e.value)
    BY <1>1 DEF RInv, MapInv
  <2> QED
    BY <2>1, SameHunks DEF RInv, MapInv, Plain
<1> QED
  BY <1>2, <1>3, <1>4 DEF RInv

\* All hunks are written: all have been read, and no error was met on the way.
LEMMA AllRead ==
  ASSUME IInv, RInv, writeHunk = HunkCount
  PROVE  cursor = HunkCount /\ Front = HunkCount /\ ~readError
<1>1. cursor = HunkCount /\ Front = HunkCount
  BY Window DEF IInv, TypeOK
<1>2. rpc = "assign" => ~readError
  BY DEF IInv, ReadInv, Reading
<1> QED
  BY <1>1, <1>2, Window DEF IInv, RInv, EndInv, Front

\* When in addition no read is outstanding the SHA-1 covers all of them.
LEMMA ShaWhole ==
  ASSUME IInv, RInv, pc = "finalize", reads = 0, compressed
  PROVE  sha = taken
<1>0. writeHunk = HunkCount
  BY DEF RInv, EndInv
<1>1. /\ writeHunk = HunkCount /\ cursor = HunkCount /\ Front = HunkCount /\ ~readError
      /\ HunkCount \in Nat /\ rpc = "idle" /\ readFifo = 0
  <2>1. cursor = HunkCount /\ Front = HunkCount /\ ~readError
    BY <1>0, AllRead
  <2>2. HunkCount \in Nat
    BY Window DEF IInv
  <2>3. rpc = "idle" /\ readFifo = 0
    BY DEF IInv, TypeOK, ReadInv
  <2> QED
    BY <1>0, <2>1, <2>2, <2>3
<1>2. readQueued >= HunkCount /\ readQueued \in Nat
  BY <1>1, Window DEF IInv
<1>3. readDone = HunkCount
  BY <1>1, <1>2 DEF IInv, ReadInv, Unread, Reading
<1>4. sha = [n \in 1..HunkCount |-> taken[n]] /\ taken \in Seq(Values) /\ Len(taken) = HunkCount
  BY <1>1, <1>3 DEF RInv, ShaInv, Heads, DataInv, IInv, TypeOK
<1> QED
  BY <1>1, <1>4

LEMMA MainR == ASSUME IInv, RInv, MainThread PROVE RInv'
<1> USE DEF otherThanMain, input, slotVars, osdVars, readVars, workVars, lifeVars
<1>1. CASE MainQueueRead \/ MainQueueDone \/ MainFlush \/ MainRelease \/ MainClear \/ MainWait
  <2>1. /\ UNCHANGED <<input, data, readVars, writeHunk, currentMap, rawmap, rawSha, err, result>>
        /\ pc \notin After /\ pc' \notin After \cup {"add", "finalize"} /\ pc # "returned" /\ pc' # "returned"
    BY <1>1 DEF MainQueueRead, MainQueueDone, MainFlush, MainRelease, MainClear, MainWait, After
  <2>2. EndInv'
    BY <2>1, SameHunks DEF RInv, EndInv
  <2> QED
    BY <2>1, <2>2, DataFrame, MapFrame, ShaFrame DEF RInv
<1>2. CASE MainDrop \/ MainJoinRead \/ MainJoinWork
  <2>1. /\ UNCHANGED <<input, data, readVars, writeHunk, currentMap, rawmap, rawSha, err, result>>
        /\ pc \in After /\ pc' \in After /\ pc # "returned" /\ pc' # "returned"
    BY <1>2 DEF MainDrop, MainJoinRead, MainJoinWork, After
  <2>2. EndInv'
    BY <2>1, SameHunks DEF RInv, EndInv, After
  <2> QED
    BY <2>1, <2>2, DataFrame, MapFrame, ShaFrame DEF RInv, After
<1>3. CASE MainLoop
  <2>1. /\ UNCHANGED <<input, data, readVars, writeHunk, currentMap, rawmap, rawSha, result>>
        /\ pc = "loop" /\ err' = readError /\ pc' = IF readError THEN "drop" ELSE "queue"
    BY <1>3 DEF MainLoop
  <2>2. EndInv'
    BY <2>1, SameHunks DEF RInv, EndInv, After
  <2> QED
    BY <2>1, <2>2, DataFrame, MapFrame, ShaFrame DEF RInv
<1>4. CASE MainAdvance
  <2>1. /\ UNCHANGED <<input, data, readVars, currentMap, rawmap, rawSha, err, result>>
        /\ pc = "advance" /\ pc' \in {"finalize", "flush"}
        /\ pc' = "finalize" => writeHunk' = HunkCount
    BY <1>4 DEF MainAdvance
  <2>2. EndInv'
    BY <2>1, SameHunks DEF RInv, EndInv, After
  <2> QED
    BY <2>1, <2>2, DataFrame, MapFrame, ShaFrame DEF RInv
<1>5. CASE MainFinalize
  <2>1. /\ UNCHANGED <<input, data, readVars, writeHunk, currentMap, rawmap, result>>
        /\ pc = "finalize" /\ pc' = "drop" /\ (reads = 0 \/ WaitMayTimeOut)
        /\ \/ rawSha' = (IF compressed THEN sha ELSE Null) /\ err' = err
           \/ err' = TRUE
    BY <1>5 DEF MainFinalize
  <2>2. writeHunk = HunkCount /\ (compressed => WaitMayTimeOut \/ sha = taken)
    BY <2>1, ShaWhole DEF RInv, EndInv
  <2>3. EndInv'
    BY <2>1, <2>2, SameHunks DEF RInv, EndInv, After
  <2> QED
    BY <2>1, <2>3, DataFrame, MapFrame, ShaFrame DEF RInv
<1>6. CASE MainReturn
  <2>1. /\ UNCHANGED <<input, data, readVars, writeHunk, currentMap, rawmap, rawSha, err>>
        /\ pc = "unlink" /\ pc' = "returned" /\ result' \in {"Ok", "Err", "Cancelled"}
    BY <1>6 DEF MainReturn
  <2>2. EndInv'
    BY <2>1, SameHunks, NullAssumption DEF RInv, EndInv, After
  <2> QED
    BY <2>1, <2>2, DataFrame, MapFrame, ShaFrame DEF RInv
<1> QED
  BY <1>1, <1>2, <1>3, <1>4, <1>5, <1>6, MainEmitR, MainAddR DEF MainThread

LEMMA StepR == ASSUME IInv, RInv, [Next]_vars PROVE RInv'
<1>1. CASE UNCHANGED vars
  BY <1>1, DataFrame, MapFrame, ShaFrame, EndFrame
     DEF RInv, vars, input, slotVars, readVars, mainVars, lifeVars
<1> QED
  BY <1>1, ReadR, WorkR, MainR DEF Next, Terminated

\* A hunk that has been written out is stored as it was read.
LEMMA StoredAsRead ==
  ASSUME IInv, RInv, NEW h \in Hunks, h < writeHunk
  PROVE  rawmap[h].kind # "unwritten" /\ Stored(h) = taken[h + 1]
<1>1. h \in Nat /\ writeHunk \in Nat
  BY HunkNat, Window DEF IInv
<1>2. rawmap[h].kind # "unwritten"
  BY <1>1 DEF IInv, MainInv
<1>3. CASE Plain(h, taken[h + 1])
  BY <1>2, <1>3 DEF Stored, Plain
<1>4. ASSUME NEW r \in Hunks, Plain(r, taken[h + 1]), rawmap[h] = [kind |-> "self", ref |-> r]
      PROVE  Stored(h) = taken[h + 1]
  BY <1>4 DEF Stored, Plain
<1> QED
  BY <1>2, <1>3, <1>4 DEF RInv, MapInv

\* When run_compression says Ok the file is whole, whatever reads and writes did: the
\* main thread saw no error, so it wrote out every hunk, so the read thread spawned
\* every hunk and met none either.
LEMMA WholeFromInv == ASSUME IInv, RInv PROVE OkIsWhole
<1> SUFFICES ASSUME result = "Ok" PROVE OkIsWhole
  BY DEF OkIsWhole
<1>1. pc = "returned"
  BY NullAssumption DEF RInv, EndInv
<1>2. file /\ ~err
  BY <1>1 DEF IInv, MainInv
<1>3. writeHunk = HunkCount /\ (compressed => WaitMayTimeOut \/ rawSha = taken)
  BY <1>1, <1>2 DEF RInv, EndInv, After
<1>4. cursor = HunkCount /\ ~readError /\ Len(taken) = HunkCount
  BY <1>3, AllRead DEF RInv, DataInv
<1>5. \A h \in Hunks : rawmap[h].kind # "unwritten" /\ Stored(h) = taken[h + 1]
  BY <1>3, HunkNat, StoredAsRead DEF IInv
<1> QED
  BY <1>2, <1>3, <1>4, <1>5 DEF OkIsWhole

\* run_compression says Ok only for a whole file: every hunk that read_data delivered is
\* stored as it was delivered and no error of the read thread was lost; the digest is
\* theirs unless the wait for the reads expired.
THEOREM OutcomeHonest == SafeSpec => []OkIsWhole
<1>1. IInv /\ RInv /\ [Next]_vars => RInv'
  BY StepR
<1>2. IInv /\ RInv => OkIsWhole
  BY WholeFromInv
<1> QED
  BY InitR, Invariance, <1>1, <1>2, PTL DEF SafeSpec

-----------------------------------------------------------------------------
(* Refinement of CompressorAbstract, when read_data fills the buffer it is   *)
(* given and the wait for the reads does not expire; writes may fail and     *)
(* reads may throw.                                                          *)

\* What is read is the source.
Prefix(k) == [n \in 1..k |-> source[n - 1]]
SourceInv == taken = Prefix(cursor)

LEMMA InitSource == Init => SourceInv
BY DEF Init, SourceInv, Prefix

LEMMA StepSource ==
  ASSUME ~ReadMayBeShort, IInv, RInv, SourceInv, [Next]_vars
  PROVE  SourceInv'
<1> USE DEF input, slotVars, osdVars, readVars, workVars, mainVars, lifeVars, otherThanMain
<1>1. CASE UNCHANGED <<source, taken, cursor>>
  BY <1>1 DEF SourceInv, Prefix
<1>2. CASE ReadData /\ ~UNCHANGED <<source, taken, cursor>>
  <2>1. /\ cursor' = ReadEnd /\ taken' = taken \o Delivered(data') /\ source' = source
        /\ rpc = "read"
        /\ data' = [s \in Slots |-> IF \E h \in readDone..(ReadEnd - 1) : Slot(h) = s
                                   THEN source[CHOOSE h \in readDone..(ReadEnd - 1) : Slot(h) = s]
                                   ELSE data[s]]
    BY <1>2 DEF ReadData
  <2>2. /\ ~readError /\ cursor = readDone /\ readDone < ReadEnd /\ ReadEnd <= HunkCount
        /\ ReadEnd <= readQueued /\ ReadEnd \in Nat /\ readDone \in Nat /\ rcur = readDone
    BY <2>1, HalfBuffer
  <2> DEFINE new == Delivered(data')
  <2>3. Grown(new)
    <3>1. data' \in [Slots -> Values]
      BY <1>2, ReadDataInv DEF IInv, TypeOK
    <3>2. Typed(new)
      BY <2>1, <2>2, <3>1, DeliveredFacts DEF Reading
    <3> HIDE DEF new
    <3>3. taken' = taken \o new
      BY <2>1 DEF new
    <3> QED
      BY <2>1, <3>2, <3>3, GrownTaken DEF RInv
  <2>4. ASSUME NEW h \in 0..(ReadEnd - 1), h >= readDone PROVE new[h + 1 - readDone] = source[h]
    <3>1. h + 1 - readDone \in 1..(ReadEnd - readDone) /\ readDone + (h + 1 - readDone) - 1 = h
      BY <2>2, <2>4
    <3>2. new[h + 1 - readDone] = data'[Slot(h)]
      BY <3>1 DEF Delivered
    <3>3. h \in Nat /\ h \in readDone..(ReadEnd - 1) /\ Slot(h) \in Slots
      BY <2>2, <2>4, SlotType
    <3>4. \A g \in readDone..(ReadEnd - 1) : Slot(g) = Slot(h) => g = h
      BY <2>2, <3>3, Window, SlotInjective DEF IInv
    <3>5. (CHOOSE g \in readDone..(ReadEnd - 1) : Slot(g) = Slot(h)) = h
      BY <3>3, <3>4
    <3> QED
      BY <2>1, <3>2, <3>3, <3>5
  <2> HIDE DEF new
  <2>5. \A h \in 0..(ReadEnd - 1) : taken'[h + 1] = source[h]
    <3> SUFFICES ASSUME NEW h \in 0..(ReadEnd - 1) PROVE taken'[h + 1] = source[h]
      OBVIOUS
    <3>1. CASE h >= readDone
      BY <2>2, <2>3, <2>4, <3>1 DEF Grown
    <3>2. CASE h < readDone
      <4>1. taken[h + 1] = source[(h + 1) - 1] /\ (h + 1) - 1 = h
        BY <2>2, <3>2 DEF SourceInv, Prefix
      <4> QED
        BY <2>2, <2>3, <3>2, <4>1 DEF Grown
    <3> QED
      BY <2>2, <3>1, <3>2
  <2>6. \A n \in 1..ReadEnd : taken'[n] = source[n - 1]
    <3> SUFFICES ASSUME NEW n \in 1..ReadEnd PROVE taken'[n] = source[n - 1]
      OBVIOUS
    <3>1. n - 1 \in 0..(ReadEnd - 1) /\ (n - 1) + 1 = n
      BY <2>2
    <3> QED
      BY <2>5, <3>1
  <2>7. taken' \in Seq(Values) /\ Len(taken') = ReadEnd
    BY <2>3 DEF Grown
  <2> DEFINE new2 == taken'
  <2> HIDE DEF new2
  <2>8. new2 = [n \in 1..ReadEnd |-> source[n - 1]]
    BY <2>2, <2>6, <2>7 DEF new2
  <2> QED
    BY <2>1, <2>8 DEF SourceInv, Prefix, new2
<1>3. CASE ReadThread /\ ~ReadData
  <2>1. UNCHANGED <<source, taken, cursor>>
    BY <1>3 DEF ReadThread, ReadTake, ReadSpawn, ReadAssign, ReadAdvance, ReadFinish
  <2> QED
    BY <1>1, <2>1
<1>4. ASSUME NEW w \in Workers, WorkThread(w) PROVE UNCHANGED <<source, taken, cursor>>
  <2>1. CASE WorkTake(w) \/ WorkFinish(w)
    BY <2>1 DEF WorkTake, WorkFinish
  <2>2. CASE WorkHash(w) \/ WorkCompress(w) \/ WorkComplete(w)
    BY <2>2 DEF WorkHash, WorkCompress, WorkComplete
  <2> QED
    BY <1>4, <2>1, <2>2 DEF WorkThread
<1>5. CASE MainThread
  <2>1. CASE MainLoop \/ MainQueueRead \/ MainQueueDone \/ MainFlush \/ MainRelease \/ MainClear
    BY <1>1, <2>1 DEF MainLoop, MainQueueRead, MainQueueDone, MainFlush, MainRelease, MainClear
  <2>2. CASE MainEmit \/ MainAdd \/ MainAdvance \/ MainFinalize \/ MainWait
    BY <1>1, <2>2 DEF MainEmit, MainAdd, MainAdvance, MainFinalize, MainWait
  <2>3. CASE MainDrop \/ MainJoinRead \/ MainJoinWork \/ MainReturn
    BY <1>1, <2>3 DEF MainDrop, MainJoinRead, MainJoinWork, MainReturn
  <2> QED
    BY <1>5, <2>1, <2>2, <2>3 DEF MainThread
<1>6. CASE UNCHANGED vars
  BY <1>1, <1>6 DEF vars
<1> QED
  BY <1>1, <1>2, <1>3, <1>4, <1>5, <1>6 DEF Next, Terminated

\* What a reader gets for the hunks written so far is the source.
OutInv == [n \in 1..writeHunk |-> Stored(n - 1)] = Prefix(writeHunk)

LEMMA OutIsSource == ASSUME IInv, RInv, SourceInv PROVE OutInv
<1> SUFFICES ASSUME NEW n \in 1..writeHunk PROVE Stored(n - 1) = source[n - 1]
  BY DEF OutInv, Prefix
<1>1. n - 1 \in Hunks /\ n - 1 < writeHunk /\ (n - 1) + 1 = n /\ n \in 1..cursor
  BY HunkFacts, Window DEF IInv, TypeOK
<1>2. Stored(n - 1) = taken[n]
  BY <1>1, StoredAsRead
<1> QED
  BY <1>1, <1>2 DEF SourceInv, Prefix

\* Once every hunk is written out the source has been read to its end.
LEMMA SourceWhole ==
  ASSUME IInv, RInv, SourceInv, writeHunk = HunkCount
  PROVE  taken = Prefix(HunkCount)
BY AllRead DEF SourceInv

\* Only these steps of the main thread show.
LEMMA Invisible ==
  ASSUME Next, ~MainAdvance, ~MainFinalize, ~MainReturn
  PROVE  UNCHANGED <<input, writeHunk, rawSha, result>>
<1> USE DEF input, slotVars, osdVars, readVars, workVars, mainVars, lifeVars
<1>1. CASE ReadThread
  BY <1>1 DEF ReadThread, ReadTake, ReadData, ReadSpawn, ReadAssign, ReadAdvance, ReadFinish
<1>2. ASSUME NEW w \in Workers, WorkThread(w) PROVE UNCHANGED <<input, writeHunk, rawSha, result>>
  <2>1. CASE WorkTake(w) \/ WorkFinish(w)
    BY <2>1 DEF WorkTake, WorkFinish
  <2>2. CASE WorkHash(w) \/ WorkCompress(w) \/ WorkComplete(w)
    BY <2>2 DEF WorkHash, WorkCompress, WorkComplete
  <2> QED
    BY <1>2, <2>1, <2>2 DEF WorkThread
<1>3. CASE MainThread
  <2>1. CASE MainLoop \/ MainQueueRead \/ MainQueueDone \/ MainFlush \/ MainRelease \/ MainClear
    BY <2>1 DEF MainLoop, MainQueueRead, MainQueueDone, MainFlush, MainRelease, MainClear, otherThanMain
  <2>2. CASE MainEmit \/ MainAdd \/ MainWait \/ MainDrop \/ MainJoinRead \/ MainJoinWork
    BY <2>2 DEF MainEmit, MainAdd, MainWait, MainDrop, MainJoinRead, MainJoinWork, otherThanMain
  <2> QED
    BY <1>3, <2>1, <2>2 DEF MainThread
<1>4. CASE UNCHANGED vars
  BY <1>4 DEF vars
<1> QED
  BY <1>1, <1>2, <1>3, <1>4 DEF Next, Terminated

LEMMA InitRefines == Init => Sequential!Init
<1> SUFFICES ASSUME Init PROVE Sequential!Init
  OBVIOUS
<1>1. [n \in 1..writeHunk |-> Stored(n - 1)] = <<>>
  BY DEF Init
<1> QED
  BY <1>1 DEF Init, Sequential!Init

LEMMA StepRefines ==
  ASSUME ~WaitMayTimeOut, IInv, RInv, SourceInv, OutInv, OutInv', [Next]_vars
  PROVE  [Sequential!Next]_(Sequential!vars)
<1> DEFINE out == [n \in 1..writeHunk |-> Stored(n - 1)]
           outcome == IF result = Null THEN "running" ELSE result
<1>1. out = Prefix(writeHunk) /\ out' = Prefix(writeHunk)'
  BY DEF OutInv
<1>2. writeHunk \in Nat /\ writeHunk <= HunkCount /\ HunkCount \in Nat /\ source \in [Hunks -> Values]
      /\ Hunks = 0..(HunkCount - 1)
  BY HunkFacts, Window DEF IInv, TypeOK
<1>3. out \in Seq(Values) /\ Len(out) = writeHunk
  <2>1. \A n \in 1..writeHunk : source[n - 1] \in Values
    BY <1>2
  <2>2. Prefix(writeHunk) \in Seq(Values) /\ Len(Prefix(writeHunk)) = writeHunk
    BY <1>2, <2>1 DEF Prefix
  <2> QED
    BY <1>1, <2>2
<1>4. CASE UNCHANGED <<input, writeHunk, rawSha, result>>
  <2>1. out' = out /\ outcome' = outcome
    BY <1>1, <1>4 DEF Prefix, input
  <2> QED
    BY <1>4, <2>1 DEF Sequential!vars, input
<1>5. CASE MainAdvance
  <2>1. pc = "advance" /\ writeHunk < HunkCount /\ writeHunk' = writeHunk + 1
        /\ UNCHANGED <<source, compressed, rawSha, result>>
    BY <1>5, <1>2, CurrentHunk DEF MainAdvance, Writing, otherThanMain, input, lifeVars
  <2>2. outcome = "running" /\ outcome' = outcome
    BY <2>1 DEF RInv, EndInv
  <2>3. out' = Append(out, source[writeHunk])
    <3>1. out' = [n \in 1..(writeHunk + 1) |-> source[n - 1]]
      BY <1>1, <2>1 DEF Prefix
    <3>2. Append(out, source[writeHunk]) = [n \in 1..(writeHunk + 1) |-> source[n - 1]]
      <4>1. out = [n \in 1..writeHunk |-> source[n - 1]]
        BY <1>1 DEF Prefix
      <4> HIDE DEF out
      <4> QED
        BY <1>2, <1>3, <4>1
    <3> QED
      BY <3>1, <3>2
  <2>4. Sequential!Store
    <3>1. Len(out) \in DOMAIN source
      BY <1>2, <1>3, <2>1 DEF Hunks
    <3> QED
      BY <1>3, <2>1, <2>2, <2>3, <3>1 DEF Sequential!Store, Sequential!AllStored
  <2> QED
    BY <2>4 DEF Sequential!Next
<1>6. CASE MainFinalize
  <2>1. pc = "finalize" /\ UNCHANGED <<source, compressed, writeHunk, result>> /\ reads = 0
        /\ \/ rawSha' = (IF compressed THEN sha ELSE Null)
           \/ rawSha' = rawSha
    BY <1>6 DEF MainFinalize, otherThanMain, input, lifeVars
  <2>2. writeHunk = HunkCount /\ rawSha = Null /\ result = Null
    BY <2>1 DEF RInv, EndInv, After
  <2>3. out' = out /\ outcome' = outcome /\ outcome = "running"
    BY <1>1, <2>1, <2>2 DEF Prefix
  <2>4. CASE rawSha' = rawSha
    BY <2>1, <2>3, <2>4 DEF Sequential!vars
  <2>5. CASE rawSha' = sha /\ compressed
    <3>1. sha = Prefix(HunkCount)
      BY <2>1, <2>2, <2>5, ShaWhole, SourceWhole
    <3>2. rawSha' = out /\ Len(out) \notin DOMAIN source
      BY <1>1, <1>2, <1>3, <2>2, <2>5, <3>1 DEF Hunks
    <3>3. Sequential!Seal
      BY <2>1, <2>2, <2>3, <2>5, <3>2 DEF Sequential!Seal, Sequential!AllStored
    <3> QED
      BY <3>3 DEF Sequential!Next
  <2> QED
    BY <2>1, <2>2, <2>4, <2>5
<1>7. CASE MainReturn
  <2>1. /\ pc = "unlink" /\ UNCHANGED <<source, compressed, writeHunk, rawSha>>
        /\ result' = (IF err THEN "Err" ELSE IF cancelled THEN "Cancelled" ELSE "Ok")
    BY <1>7 DEF MainReturn, otherThanMain, input
  <2>2. result = Null /\ (~err => writeHunk = HunkCount /\ (compressed => rawSha = Prefix(HunkCount)))
    BY <2>1, SourceWhole DEF RInv, EndInv, After
  <2>3. out' = out /\ outcome = "running" /\ outcome' = result'
    BY <1>1, <2>1, <2>2, NullAssumption DEF Prefix
  <2>4. result' = "Err" \/ (~err /\ result' \in {"Ok", "Cancelled"})
    BY <2>1
  <2>5. ~err => Sequential!Complete
    <3>1. ~err => Len(out) \notin DOMAIN source /\ (compressed => rawSha = out)
      BY <1>1, <1>2, <1>3, <2>2 DEF Hunks
    <3> QED
      BY <3>1 DEF Sequential!Complete, Sequential!AllStored
  \* An error comes from a failing write or a throwing read.
  <2>6. err => WriteMayFail \/ ReadMayThrow
    BY DEF IInv, MainInv, RInv, EndInv
  <2>7. Sequential!Return
    BY <2>1, <2>3, <2>4, <2>5, <2>6 DEF Sequential!Return
  <2> QED
    BY <2>7 DEF Sequential!Next
<1>8. CASE UNCHANGED vars
  BY <1>4, <1>8 DEF vars, input, mainVars, lifeVars
<1> QED
  BY <1>4, <1>5, <1>6, <1>7, <1>8, Invisible

\* The pipeline implements CompressorAbstract: whatever the threads do, hunks are stored
\* in the source's order with the source's contents, the digest is that of all of them,
\* and run_compression says Ok, or Cancelled, only for a complete, sealed file, and Err
\* only where a write can fail or a read can throw.
THEOREM Refinement ==
  ASSUME ~ReadMayBeShort, ~WaitMayTimeOut
  PROVE  SafeSpec => Sequential!SafeSpec
<1>1. IInv /\ RInv /\ [Next]_vars => RInv'
  BY StepR
<1>2. IInv /\ RInv /\ SourceInv /\ [Next]_vars => SourceInv'
  BY StepSource
<1>3. IInv /\ RInv /\ SourceInv => OutInv
  BY OutIsSource
<1>4. IInv /\ RInv /\ SourceInv /\ OutInv /\ OutInv' /\ [Next]_vars
        => [Sequential!Next]_(Sequential!vars)
  BY StepRefines
<1> QED
  BY InitR, InitSource, InitRefines, Invariance, <1>1, <1>2, <1>3, <1>4, PTL
     DEF SafeSpec, Sequential!SafeSpec

===============================================================================
