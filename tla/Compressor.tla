------------------------------ MODULE Compressor ------------------------------
(***************************************************************************)
(* chd_file_compressor (lib/util/chd.cpp) driven by run_compression        *)
(* (src/streaming.rs): the main thread, the single thread of the read      *)
(* queue, and the threads of the work queue share a ring of                *)
(* WORK_BUFFER_HUNKS work items.                                           *)
(*                                                                         *)
(* The two OSD queues appear as WorkQueueAbstract specifies them: FIFO,    *)
(* each item runs once, completion is published after the callback.  The   *)
(* OSD item created for hunk h is named h.  A hunk's content is a value;   *)
(* CRC-16 and SHA-1 of a hunk are the value itself (no collisions), and    *)
(* the running SHA-1 is the sequence of the values appended.               *)
(*                                                                         *)
(* No parent: the crate never gives a compressor one, so m_walking_parent  *)
(* stays false.                                                            *)
(***************************************************************************)
EXTENDS Integers, Sequences, FiniteSets

CONSTANTS WORK_BUFFER_HUNKS, \* slots in the ring (256 in chd.h)
          Workers,           \* threads of m_work_queue
          Values,            \* contents a hunk can have
          Zero,              \* the all-zero content, in Values
          Sources,           \* inputs: functions from hunk numbers to Values
          Modes,             \* values of compressed() to explore
          WriteMayFail,      \* writes to the output file may fail
          ReadMayThrow,      \* read_data, or queueing work, may throw
          ReadMayBeShort,    \* read_data may fill nothing and return 0
          WaitMayTimeOut,    \* the 30s wait for the reads may expire
          Null               \* nullptr, and "not set"

ASSUME RingAssumption ==
  /\ WORK_BUFFER_HUNKS \in Nat \ {0} /\ WORK_BUFFER_HUNKS % 2 = 0
ASSUME ValueAssumption == Zero \in Values
ASSUME SourceAssumption ==
  \A s \in Sources : /\ IsFiniteSet(DOMAIN s)
                     /\ s \in [0..(Cardinality(DOMAIN s) - 1) -> Values]
ASSUME NullAssumption == Null \notin Nat /\ Null \notin {"Ok", "Err", "Cancelled"}
ASSUME FlagAssumption ==
  Modes \cup {WriteMayFail, ReadMayThrow, ReadMayBeShort, WaitMayTimeOut} \subseteq BOOLEAN

Slots == 0..(WORK_BUFFER_HUNKS - 1)
Half == WORK_BUFFER_HUNKS \div 2
Slot(h) == h % WORK_BUFFER_HUNKS

VARIABLES
  source,      \* what the data handler delivers, one value per hunk
  compressed,  \* compressed(): some codec is configured
  \* work_item m_work_item[WORK_BUFFER_HUNKS]
  status,      \* "READY" | "READING" | "QUEUED" | "COMPLETE"
  hunknum,     \* m_hunknum
  mosd,        \* m_osd: an OSD item or Null
  data,        \* m_data: the slot's part of m_work_buffer
  hash,        \* m_hash[0]
  comp,        \* m_compressed, m_complen, m_compression: the value they encode
  \* OSD queues
  osd,         \* OSD item of each hunk: "none" | "queued" | "completed" | "deleted"
  workFifo,    \* m_work_queue: hunks not yet taken by a worker
  readFifo,    \* m_read_queue: async_read calls not yet started
  reads,       \* osd_work_queue_items(m_read_queue)
  \* the read thread
  rpc, rcur, readDone, readError, sha, cursor,
  taken,       \* history: what read_data left in the buffer for each hunk
  \* the workers
  wpc, whunk,
  \* the main thread
  pc, readQueued, writeHunk, currentMap, rawmap, rawSha, err, cancelled,
  \* lifetime of the objects, and what run_compression leaves behind
  derived,     \* the derived compressor (and its vtable) is alive
  handler,     \* the boxed ChdDataHandler is alive
  crashed,     \* a virtual call was made on a destroyed object
  file,        \* the output file exists
  result       \* what run_compression returned

slotVars == <<status, hunknum, mosd, data, hash, comp>>
osdVars == <<osd, workFifo, readFifo, reads>>
readVars == <<rpc, rcur, readDone, readError, sha, cursor, taken>>
workVars == <<wpc, whunk>>
mainVars == <<pc, readQueued, writeHunk, currentMap, rawmap, rawSha, err, cancelled>>
lifeVars == <<derived, handler, crashed, file, result>>
input == <<source, compressed>>
vars == <<input, slotVars, osdVars, readVars, workVars, mainVars, lifeVars>>

Hunks == DOMAIN source
HunkCount == Cardinality(Hunks)

\* compress_begin on a freshly created file: the work buffer is zeroed.
Init ==
  /\ source \in Sources /\ compressed \in Modes
  /\ status = [s \in Slots |-> "READY"]
  /\ hunknum = [s \in Slots |-> 0]
  /\ mosd = [s \in Slots |-> Null]
  /\ data = [s \in Slots |-> Zero]
  /\ hash = [s \in Slots |-> Null]
  /\ comp = [s \in Slots |-> Null]
  /\ osd = [h \in DOMAIN source |-> "none"]
  /\ workFifo = <<>> /\ readFifo = 0 /\ reads = 0
  /\ rpc = "idle" /\ rcur = 0 /\ readDone = 0 /\ readError = FALSE
  /\ sha = <<>> /\ cursor = 0 /\ taken = <<>>
  /\ wpc = [w \in Workers |-> "idle"] /\ whunk = [w \in Workers |-> Null]
  /\ pc = "loop" /\ readQueued = 0 /\ writeHunk = 0 /\ currentMap = {}
  /\ rawmap = [h \in DOMAIN source |-> [kind |-> "unwritten"]]
  /\ rawSha = Null /\ err = FALSE /\ cancelled = FALSE
  /\ derived = TRUE /\ handler = TRUE /\ crashed = FALSE
  /\ file = TRUE /\ result = Null

-----------------------------------------------------------------------------
(* async_read, on the thread of m_read_queue *)

ReadEnd == IF readDone + Half > HunkCount THEN HunkCount ELSE readDone + Half

\* The hunks in the half buffer at readDone.
Delivered(buffer) == [n \in 1..(ReadEnd - readDone) |-> buffer[Slot(readDone + n - 1)]]

ReadTake ==
  /\ rpc = "idle" /\ readFifo > 0
  /\ readFifo' = readFifo - 1
  /\ rpc' = IF readError THEN "finish" ELSE "read"
  /\ UNCHANGED <<input, slotVars, osd, workFifo, reads, rcur, readDone, readError,
                 sha, cursor, taken, workVars, mainVars, lifeVars>>

\* read_data is virtual: the call dispatches to the derived class, whose handler
\* fills the half buffer.  The return value is not looked at.
ReadData ==
  /\ rpc = "read"
  /\ \/ /\ ~derived
        /\ crashed' = TRUE /\ rpc' = "aborted"
        /\ UNCHANGED <<data, cursor, taken, rcur, readError>>
     \/ /\ derived
        /\ data' = [s \in Slots |-> IF \E h \in readDone..(ReadEnd - 1) : Slot(h) = s
                                   THEN source[CHOOSE h \in readDone..(ReadEnd - 1) : Slot(h) = s]
                                   ELSE data[s]]
        /\ cursor' = ReadEnd /\ taken' = taken \o Delivered(data')
        /\ rcur' = readDone /\ rpc' = "spawn"
        /\ UNCHANGED <<readError, crashed>>
     \/ /\ derived /\ ReadMayBeShort
        /\ cursor' = ReadEnd /\ taken' = taken \o Delivered(data)
        /\ rcur' = readDone /\ rpc' = "spawn"
        /\ UNCHANGED <<data, readError, crashed>>
     \/ /\ derived /\ ReadMayThrow
        /\ readError' = TRUE /\ rpc' = "finish"
        /\ UNCHANGED <<data, cursor, taken, rcur, crashed>>
  /\ UNCHANGED <<input, status, hunknum, mosd, hash, comp, osdVars, readDone, sha,
                 workVars, mainVars, derived, handler, file, result>>

\* One turn of the loop that spawns work, up to the moment the OSD item is queued;
\* allocating it may throw.
ReadSpawn ==
  /\ rpc = "spawn" /\ rcur < ReadEnd
  /\ status' = [status EXCEPT ![Slot(rcur)] = "QUEUED"]
  /\ hunknum' = [hunknum EXCEPT ![Slot(rcur)] = rcur]
  /\ \/ /\ osd' = [osd EXCEPT ![rcur] = "queued"]
        /\ workFifo' = Append(workFifo, rcur)
        /\ rpc' = "assign"
        /\ UNCHANGED readError
     \/ /\ ReadMayThrow
        /\ readError' = TRUE /\ rpc' = "finish"
        /\ UNCHANGED <<osd, workFifo>>
  /\ UNCHANGED <<input, mosd, data, hash, comp, readFifo, reads, rcur, readDone,
                 sha, cursor, taken, workVars, mainVars, lifeVars>>

\* ... and the assignment of its pointer to item.m_osd, which nothing orders with
\* the workers and the main thread.
ReadAssign ==
  /\ rpc = "assign"
  /\ mosd' = [mosd EXCEPT ![Slot(rcur)] = rcur]
  /\ rcur' = rcur + 1
  /\ rpc' = "spawn"
  /\ UNCHANGED <<input, status, hunknum, data, hash, comp, osdVars, readDone,
                 readError, sha, cursor, taken, workVars, mainVars, lifeVars>>

\* Mutant: advance by the whole buffer instead of the bytes read.
ReadAdvance_WholeBuffer ==
  /\ rpc = "spawn" /\ rcur = ReadEnd
  /\ readDone' = readDone + WORK_BUFFER_HUNKS
  /\ rpc' = "finish"
  /\ UNCHANGED <<input, slotVars, osdVars, rcur, readError, sha, cursor, taken, workVars,
                 mainVars, lifeVars>>

\* Continue the running SHA-1 over the bytes just read; advance the read pointer.
ReadAdvance ==
  /\ rpc = "spawn" /\ rcur = ReadEnd
  /\ sha' = IF compressed
            THEN sha \o Delivered(data)
            ELSE sha
  /\ readDone' = ReadEnd
  /\ rpc' = "finish"
  /\ UNCHANGED <<input, slotVars, osdVars, rcur, readError, cursor, taken, workVars,
                 mainVars, lifeVars>>

\* The read queue's thread counts the item off.
ReadFinish ==
  /\ rpc = "finish"
  /\ reads' = reads - 1
  /\ rpc' = "idle"
  /\ UNCHANGED <<input, slotVars, osd, workFifo, readFifo, rcur, readDone,
                 readError, sha, cursor, taken, workVars, mainVars, lifeVars>>

ReadThread == ReadTake \/ ReadData \/ ReadSpawn \/ ReadAssign \/ ReadAdvance \/ ReadFinish

-----------------------------------------------------------------------------
(* async_compress_hunk, on a thread of m_work_queue *)

WorkTake(w) ==
  /\ wpc[w] = "idle" /\ workFifo # <<>>
  /\ whunk' = [whunk EXCEPT ![w] = Head(workFifo)]
  /\ workFifo' = Tail(workFifo)
  /\ wpc' = [wpc EXCEPT ![w] = "hash"]
  /\ UNCHANGED <<input, slotVars, osd, readFifo, reads, readVars, mainVars, lifeVars>>

WorkHash(w) ==
  /\ wpc[w] = "hash"
  /\ hash' = [hash EXCEPT ![Slot(whunk[w])] = data[Slot(whunk[w])]]
  /\ wpc' = [wpc EXCEPT ![w] = "compress"]
  /\ UNCHANGED <<input, status, hunknum, mosd, data, comp, osdVars, readVars, whunk,
                 mainVars, lifeVars>>

Mapped(v) == \E e \in currentMap : e.value = v

\* A hunk found in m_current_map is not compressed: the slot keeps the result of
\* whatever it held before.  The lookup is a data race with hashmap::add (the code
\* says so); one that overlaps an add may miss an entry that is in the map.
WorkCompress(w) ==
  /\ wpc[w] = "compress"
  /\ \/ Mapped(hash[Slot(whunk[w])]) /\ UNCHANGED comp
     \/ /\ ~Mapped(hash[Slot(whunk[w])]) \/ pc = "add"
        /\ comp' = [comp EXCEPT ![Slot(whunk[w])] = data[Slot(whunk[w])]]
  /\ wpc' = [wpc EXCEPT ![w] = "complete"]
  /\ UNCHANGED <<input, status, hunknum, mosd, data, hash, osdVars, readVars, whunk,
                 mainVars, lifeVars>>

WorkComplete(w) ==
  /\ wpc[w] = "complete"
  /\ status' = [status EXCEPT ![Slot(whunk[w])] = "COMPLETE"]
  /\ wpc' = [wpc EXCEPT ![w] = "finish"]
  /\ UNCHANGED <<input, hunknum, mosd, data, hash, comp, osdVars, readVars, whunk,
                 mainVars, lifeVars>>

\* The callback has returned: the queue publishes the OSD item's completion.
WorkFinish(w) ==
  /\ wpc[w] = "finish"
  /\ osd' = [osd EXCEPT ![whunk[w]] = "completed"]
  /\ whunk' = [whunk EXCEPT ![w] = Null]
  /\ wpc' = [wpc EXCEPT ![w] = "idle"]
  /\ UNCHANGED <<input, slotVars, workFifo, readFifo, reads, readVars, mainVars, lifeVars>>

WorkThread(w) == WorkTake(w) \/ WorkHash(w) \/ WorkCompress(w) \/ WorkComplete(w) \/ WorkFinish(w)

-----------------------------------------------------------------------------
(* The main thread: run_compression around compress_continue *)

otherThanMain == <<input, readVars, workVars>>

\* Mutant: stop driving the compressor as soon as cancellation is seen.
MainLoop_StopsOnCancel ==
  /\ pc = "loop"
  /\ cancelled' \in {cancelled, TRUE}
  /\ err' = readError
  /\ pc' = IF readError \/ cancelled' THEN "drop" ELSE "queue"
  /\ UNCHANGED <<otherThanMain, slotVars, osdVars, readQueued, writeHunk, currentMap,
                 rawmap, rawSha, lifeVars>>

\* The top of run_compression's loop samples the cancel callback; the first thing
\* compress_continue does is to return a pending read error.
MainLoop ==
  /\ pc = "loop"
  /\ cancelled' \in {cancelled, TRUE}
  /\ err' = readError
  /\ pc' = IF readError THEN "drop" ELSE "queue"
  /\ UNCHANGED <<otherThanMain, slotVars, osdVars, readQueued, writeHunk, currentMap,
                 rawmap, rawSha, lifeVars>>

NextHalf == {Slot(h) : h \in readQueued..(readQueued + Half - 1)}

\* Mutant: test only the first slot of the half buffer.
MayQueueRead_FirstSlot == /\ readQueued < HunkCount
                          /\ reads < 2
                          /\ status[Slot(readQueued)] = "READY"

MayQueueRead == /\ readQueued < HunkCount
                /\ reads < 2
                /\ \A s \in NextHalf : status[s] = "READY"

\* Claim the next half buffer and queue the read that fills it.
MainQueueRead ==
  /\ pc = "queue"
  /\ MayQueueRead
  /\ status' = [s \in Slots |-> IF s \in NextHalf THEN "READING" ELSE status[s]]
  /\ readFifo' = readFifo + 1
  /\ reads' = reads + 1
  /\ readQueued' = readQueued + Half
  /\ UNCHANGED <<otherThanMain, hunknum, mosd, data, hash, comp, osd, workFifo, pc,
                 writeHunk, currentMap, rawmap, rawSha, err, cancelled, lifeVars>>

MainQueueDone ==
  /\ pc = "queue"
  /\ ~MayQueueRead
  /\ pc' = "flush"
  /\ UNCHANGED <<otherThanMain, slotVars, osdVars, readQueued, writeHunk, currentMap,
                 rawmap, rawSha, err, cancelled, lifeVars>>

cur == Slot(writeHunk)

\* Mutant: start on a slot as soon as its hunk is queued.
MainFlush_Queued ==
  /\ pc = "flush"
  /\ pc' = IF status[cur] \notin {"QUEUED", "COMPLETE"} THEN "wait"
           ELSE IF mosd[cur] # Null THEN "release" ELSE "emit"
  /\ UNCHANGED <<otherThanMain, slotVars, osdVars, readQueued, writeHunk, currentMap,
                 rawmap, rawSha, err, cancelled, lifeVars>>

\* The head of the flush loop: is the next hunk in file order complete, and is
\* there an OSD item to free?
MainFlush ==
  /\ pc = "flush"
  /\ pc' = IF status[cur] # "COMPLETE" THEN "wait"
           ELSE IF mosd[cur] # Null THEN "release" ELSE "emit"
  /\ UNCHANGED <<otherThanMain, slotVars, osdVars, readQueued, writeHunk, currentMap,
                 rawmap, rawSha, err, cancelled, lifeVars>>

\* osd_work_item_release waits for the item, then deletes it.
MainRelease ==
  /\ pc = "release"
  /\ osd[mosd[cur]] = "completed"
  /\ osd' = [osd EXCEPT ![mosd[cur]] = "deleted"]
  /\ pc' = "clear"
  /\ UNCHANGED <<otherThanMain, slotVars, workFifo, readFifo, reads, readQueued, writeHunk,
                 currentMap, rawmap, rawSha, err, cancelled, lifeVars>>

\* Mutant: leave the released pointer in m_osd.
MainClear_KeepsPointer ==
  /\ pc = "clear"
  /\ pc' = "emit"
  /\ UNCHANGED <<otherThanMain, slotVars, osdVars, readQueued,
                 writeHunk, currentMap, rawmap, rawSha, err, cancelled, lifeVars>>

MainClear ==
  /\ pc = "clear"
  /\ mosd' = [mosd EXCEPT ![cur] = Null]
  /\ pc' = "emit"
  /\ UNCHANGED <<otherThanMain, status, hunknum, data, hash, comp, osdVars, readQueued,
                 writeHunk, currentMap, rawmap, rawSha, err, cancelled, lifeVars>>

\* verify_proper_compression_append
ProperAppend(h) == /\ rawmap[h].kind = "unwritten"
                   /\ h # 0 => rawmap[h - 1].kind # "unwritten"

\* hunk_copy_from_self only accepts a reference to an earlier hunk.
EarlierCopies == {e \in currentMap : e.value = hash[cur] /\ e.hunk < hunknum[cur]}

\* Mutant: run_compression leaves its loop without keeping the error.
EmitFails_Dropped == /\ \/ compressed /\ ~ProperAppend(hunknum[cur])
                        \/ compressed /\ Mapped(hash[cur]) /\ EarlierCopies = {}
                        \/ WriteMayFail /\ (IF compressed THEN ~Mapped(hash[cur]) ELSE data[cur] # Zero)
                     /\ pc' = "drop"
                     /\ UNCHANGED <<err, rawmap>>

\* The error paths of a write: the append or reference check rejects the hunk, or
\* the file I/O fails (a copy, or a raw hunk of zeros, does none).
EmitFails == /\ \/ compressed /\ ~ProperAppend(hunknum[cur])
                \/ compressed /\ Mapped(hash[cur]) /\ EarlierCopies = {}
                \/ WriteMayFail /\ (IF compressed THEN ~Mapped(hash[cur]) ELSE data[cur] # Zero)
             /\ err' = TRUE /\ pc' = "drop"
             /\ UNCHANGED rawmap

EmitRaw == /\ ~compressed
           /\ rawmap' = [rawmap EXCEPT ![hunknum[cur]] = [kind |-> "data", value |-> data[cur]]]
           /\ pc' = "advance"
           /\ UNCHANGED err

EmitSelf == /\ compressed /\ Mapped(hash[cur]) /\ ProperAppend(hunknum[cur])
            /\ \E e \in EarlierCopies :
                 rawmap' = [rawmap EXCEPT ![hunknum[cur]] = [kind |-> "self", ref |-> e.hunk]]
            /\ pc' = "advance"
            /\ UNCHANGED err

EmitCompressed ==
  /\ compressed /\ ~Mapped(hash[cur]) /\ ProperAppend(hunknum[cur])
  /\ rawmap' = [rawmap EXCEPT ![hunknum[cur]] = [kind |-> "data", value |-> comp[cur]]]
  /\ pc' = "add"
  /\ UNCHANGED err

\* Write the hunk out: write_hunk, hunk_copy_from_self or hunk_write_compressed.
MainEmit ==
  /\ pc = "emit"
  /\ EmitRaw \/ EmitSelf \/ EmitCompressed \/ EmitFails
  /\ UNCHANGED <<otherThanMain, slotVars, osdVars, readQueued, writeHunk, currentMap,
                 rawSha, cancelled, lifeVars>>

MainAdd ==
  /\ pc = "add"
  /\ currentMap' = currentMap \cup {[value |-> hash[cur], hunk |-> hunknum[cur]]}
  /\ pc' = "advance"
  /\ UNCHANGED <<otherThanMain, slotVars, osdVars, readQueued, writeHunk, rawmap,
                 rawSha, err, cancelled, lifeVars>>

\* Recycle the slot and go on to the next hunk.
MainAdvance ==
  /\ pc = "advance"
  /\ status' = [status EXCEPT ![cur] = "READY"]
  /\ writeHunk' = writeHunk + 1
  /\ pc' = IF writeHunk + 1 = HunkCount THEN "finalize" ELSE "flush"
  /\ UNCHANGED <<otherThanMain, hunknum, mosd, data, hash, comp, osdVars, readQueued,
                 currentMap, rawmap, rawSha, err, cancelled, lifeVars>>

\* All hunks are out: wait for the reads, then write the SHA-1 and the map.
MainFinalize ==
  /\ pc = "finalize"
  /\ reads = 0 \/ WaitMayTimeOut
  /\ \/ rawSha' = (IF compressed THEN sha ELSE Null) /\ UNCHANGED err
     \/ WriteMayFail /\ compressed /\ err' = TRUE /\ UNCHANGED rawSha
  /\ pc' = "drop"
  /\ UNCHANGED <<otherThanMain, slotVars, osdVars, readQueued, writeHunk, currentMap,
                 rawmap, cancelled, lifeVars>>

\* The loop at the end of compress_continue.  While its condition holds the thread
\* calls osd_work_item_wait, for at most a second, again and again; then it returns
\* COMPRESSING and run_compression goes round its own loop.
MainWait ==
  /\ pc = "wait"
  /\ pc' = IF status[cur] \in {"READY", "COMPLETE"} \/ mosd[cur] = Null
           THEN "loop" ELSE "wait"
  /\ UNCHANGED <<otherThanMain, slotVars, osdVars, readQueued, writeHunk, currentMap,
                 rawmap, rawSha, err, cancelled, lifeVars>>

\* drop(compressor): the derived destructor body is over when the base destructor
\* frees the read queue, then the work queue; each joins its threads.
MainDrop ==
  /\ pc = "drop"
  /\ derived' = FALSE
  /\ pc' = "join_read"
  /\ UNCHANGED <<otherThanMain, slotVars, osdVars, readQueued, writeHunk, currentMap,
                 rawmap, rawSha, err, cancelled, handler, crashed, file, result>>

MainJoinRead ==
  /\ pc = "join_read"
  /\ rpc = "idle" /\ readFifo = 0
  /\ pc' = "join_work"
  /\ UNCHANGED <<otherThanMain, slotVars, osdVars, readQueued, writeHunk, currentMap,
                 rawmap, rawSha, err, cancelled, lifeVars>>

\* The last thread is joined; ChdCompressor::drop then frees the handler.
MainJoinWork ==
  /\ pc = "join_work"
  /\ workFifo = <<>> /\ \A w \in Workers : wpc[w] = "idle"
  /\ handler' = FALSE
  /\ pc' = "unlink"
  /\ UNCHANGED <<otherThanMain, slotVars, osdVars, readQueued, writeHunk, currentMap,
                 rawmap, rawSha, err, cancelled, derived, crashed, file, result>>

\* The end of run_compression: after an error or a cancellation it tries to remove the
\* file, and does not look whether that worked.
MainReturn ==
  /\ pc = "unlink"
  /\ result' = (IF err THEN "Err" ELSE IF cancelled THEN "Cancelled" ELSE "Ok")
  /\ file' \in (IF err \/ cancelled THEN {file, FALSE} ELSE {file})
  /\ pc' = "returned"
  /\ UNCHANGED <<otherThanMain, slotVars, osdVars, readQueued, writeHunk, currentMap,
                 rawmap, rawSha, err, cancelled, derived, handler, crashed>>

MainThread ==
  \/ MainLoop \/ MainQueueRead \/ MainQueueDone \/ MainFlush \/ MainRelease \/ MainClear
  \/ MainEmit \/ MainAdd \/ MainAdvance \/ MainFinalize \/ MainWait
  \/ MainDrop \/ MainJoinRead \/ MainJoinWork \/ MainReturn

Terminated == (pc = "returned" \/ crashed) /\ UNCHANGED vars

Next == \/ /\ ~crashed
           /\ ReadThread \/ (\E w \in Workers : WorkThread(w)) \/ MainThread
        \/ Terminated

\* Every thread that can run does; callbacks and I/O calls return.
Fairness == /\ WF_vars(~crashed /\ ReadThread)
            /\ \A w \in Workers : WF_vars(~crashed /\ WorkThread(w))
            /\ WF_vars(~crashed /\ MainThread)

SafeSpec == Init /\ [][Next]_vars
Spec == SafeSpec /\ Fairness
-----------------------------------------------------------------------------
(* Properties *)

MainPCs == {"loop", "queue", "flush", "release", "clear", "emit", "add", "advance",
            "finalize", "wait", "drop", "join_read", "join_work", "unlink", "returned"}

TypeOK ==
  /\ source \in Sources /\ compressed \in Modes
  /\ status \in [Slots -> {"READY", "READING", "QUEUED", "COMPLETE"}]
  /\ hunknum \in [Slots -> Hunks \cup {0}]
  /\ mosd \in [Slots -> Hunks \cup {Null}]
  /\ data \in [Slots -> Values]
  /\ hash \in [Slots -> Values \cup {Null}]
  /\ comp \in [Slots -> Values \cup {Null}]
  /\ osd \in [Hunks -> {"none", "queued", "completed", "deleted"}]
  /\ workFifo \in Seq(Hunks)
  /\ readFifo \in 0..2 /\ reads \in 0..2
  /\ rpc \in {"idle", "read", "spawn", "assign", "finish", "aborted"}
  /\ rcur \in 0..HunkCount /\ readDone \in 0..HunkCount /\ cursor \in 0..HunkCount
  /\ sha \in Seq(Values) /\ taken \in Seq(Values)
  /\ wpc \in [Workers -> {"idle", "hash", "compress", "complete", "finish"}]
  /\ whunk \in [Workers -> Hunks \cup {Null}]
  /\ pc \in MainPCs
  /\ readQueued \in Nat /\ writeHunk \in 0..HunkCount
  /\ currentMap \subseteq [value : Values, hunk : Hunks]
  /\ rawmap \in [Hunks -> [kind : {"unwritten"}] \cup [kind : {"data"}, value : Values]
                            \cup [kind : {"self"}, ref : Hunks]]
  /\ {readError, err, cancelled, derived, handler, crashed, file} \subseteq BOOLEAN
  /\ result \in {Null, "Ok", "Err", "Cancelled"}

\* Slots the worker w is reading or writing.
UsedBy(w) == IF wpc[w] \in {"hash", "compress", "complete"} THEN {Slot(whunk[w])} ELSE {}

\* async_read overwrites a half buffer only when no worker is hashing or compressing
\* in it and the main thread has written out every hunk it held: the WS_READY test of
\* compress_continue is all that separates one lap of the ring from the next.
NoLapOverrun ==
  rpc = "read" =>
    \A h \in readDone..(ReadEnd - 1) :
      /\ status[Slot(h)] = "READING"
      /\ \A w \in Workers : Slot(h) \notin UsedBy(w)
      /\ h - WORK_BUFFER_HUNKS < writeHunk

\* The main thread never passes a dangling m_osd to osd_work_item_release or
\* osd_work_item_wait, although the read thread stores m_osd without any ordering
\* and m_osd may still be that of an earlier lap.
NoDanglingOsd ==
  /\ pc = "release" => mosd[cur] # Null /\ osd[mosd[cur]] \in {"queued", "completed"}
  /\ pc = "wait" /\ mosd[cur] # Null => osd[mosd[cur]] \in {"queued", "completed"}

\* StreamingSource::read_data asserts that every call starts where the last one
\* ended and stays inside the logical size; a failed assertion aborts.  Reads carry no
\* offset of their own, so this is about what the reads before, short ones and ones of
\* earlier laps too, left in m_read_done_offset.  That two never overlap is not: the
\* read queue has one thread here as in the code (WORK_QUEUE_FLAG_IO).
ReadsInOrder == rpc = "read" => cursor = readDone /\ readDone < HunkCount

\* read_data is never called on a compressor whose derived part, or a handler, is
\* gone: run_compression drops the compressor only when no read is outstanding.
NoCallAfterDestroy ==
  /\ ~crashed
  /\ ~handler => rpc = "idle" /\ readFifo = 0 /\ \A w \in Workers : wpc[w] = "idle"

\* What a reader of the file gets for hunk h.
Stored(h) == LET e == rawmap[h] IN
             IF e.kind = "self" THEN rawmap[e.ref].value ELSE e.value

\* "On Ok(()) the file at output_path is fully written" (streaming.rs:95), whatever writes
\* and reads failed or came back short, and whenever: no error of the read thread was
\* lost on the way, every hunk is stored, directly or through an earlier one, as read_data
\* left it in a buffer that workers and later laps share, and the digest is that of these
\* hunks, unless the 30s wait expired (it then runs with the last append).
OkIsWhole ==
  result = "Ok" =>
    /\ file /\ ~readError /\ Len(taken) = HunkCount
    /\ \A h \in Hunks : rawmap[h].kind # "unwritten" /\ Stored(h) = taken[h + 1]
    /\ compressed => WaitMayTimeOut \/ rawSha = taken

\* The whole pipeline looks to its caller like a loop that reads a hunk and writes
\* it, in order (CompressorAbstract): whatever the threads do, the stored hunks are
\* the source's, an Ok result means all of them and their digest are there, and there is no
\* error but of I/O: the append and reference checks never reject a hunk.
Sequential == INSTANCE CompressorAbstract
                WITH MayFail <- WriteMayFail \/ ReadMayThrow,
                     out <- [n \in 1..writeHunk |-> Stored(n - 1)],
                     digest <- rawSha,
                     outcome <- (IF result = Null THEN "running" ELSE result)
Implements == Sequential!Spec

=============================================================================
