# A TLA+ model of libchdman-rs

libchdman-rs creates, reads and edits CHD images. It is a Rust crate (`src/src`) over C++ shims
(`src/sys`) over MAME's CHD library (`src/mame-chd-src/src/lib/util`), with a small replacement for
MAME's OSD layer (`src/sys/minimal_osd.cpp`). This directory holds TLA+ models of the parts that
carry the crate's logic, the TLC runs that check them, and TLAPS proofs of the central invariants
of the stateful ones.

Line numbers below are those of the source; `chd.cpp`, `minimal_osd.cpp` and so on name the files
above. `PROJECT.json` maps each definition to its lines.

## 1. Inventory

| component | state | operations | talks to |
|---|---|---|---|
| OSD work queue (`minimal_osd.cpp`) | FIFO, `pending_items`, `queue_waiters`, `should_exit`; per item `completed`, `waited_on` | alloc, free, queue, wait (item, queue), release | its worker threads, through one mutex and two condition variables |
| compression pipeline (`chd_file_compressor`) | ring of `WORK_BUFFER_HUNKS` work items, read and write pointers, `m_current_map`, running SHA-1, `m_read_error` | `compress_begin`, `compress_continue`, `async_read`, `async_compress_hunk` | two work queues; `read_data` calls back into Rust; writes the CHD |
| `run_compression`, `ChdCompressor` (`streaming.rs`, `lib.rs`) | cancellation, the boxed data handler, the output path | loop, progress and cancel callbacks, drop, unlink | the pipeline |
| uncompressed hunk store (`chd_file`) | `m_rawmap` and its copy in the file, `m_cache`, `m_cachehunk`, parent | `read_hunk`, `write_hunk`, `read_bytes`, `write_bytes`, `file_append`, close, open | the file, the parent CHD |
| metadata (`chd_file`) | records chained through the file, the head in `m_metaoffset` and in the header | find, read, write, delete, clone, hash | the file |
| files of versions 3 to 5 (`chd_file`) | header, compressed map, `m_rawmap`, hashes, parent | create, open, append a hunk, finish, read, `codec_process_hunk`, `hunk_info` | codecs, map, parent |
| codecs (`chdcodec.cpp`, `avhuff.cpp`, `huffman.cpp`, `flac.cpp`, `bitstream.h`) | accumulators, trees, histories, recycled blocks | compress, decompress, choose the best | third-party libraries |
| digests, check values (`hashing.cpp`, `md5.cpp`) | a partial block and a bit count | append, finish, print, parse | everything |
| CD, GD-ROM (`cdrom.cpp`, `cd_shim.cpp`, `cd.rs`) | table of contents, track inputs, frame layout, an open source file, a cached frame | parse, create, write and parse metadata, read, extract, stream | `run_compression`, metadata, source files |
| streams and files (`ioprocs.cpp`, `corefile.cpp`, `minimal_osd.cpp`) | position, dangling flags, a read buffer, a known size | read, write, seek, length, flush, truncate, load, retry | stdio, Rust objects |
| text (`corefile.cpp`, `unicode.cpp`) | encoding, ring of bytes put back | getc, ungetc, gets, puts, conversions | a file |
| C shims (`chd_shim.cpp`, `cd_shim.cpp`, `shim_guard.h`) | who owns what | allocate, open, hand over, free; guard against exceptions | both languages |
| hard disks and diffs (`hd.rs`) | a diff over a parent | create, open with diff, sector I/O | shims, hunk store |
| DVD, copy, readers, verify (`dvd.rs`, `copy.rs`, `enhancements.rs`) | options, a cursor | create, copy, read, verify | `run_compression`, hunk store |

**What is hard here.** Three kinds of threads share the ring of the pipeline with no lock but
atomics on the slot state; the work queue mixes an unlocked fast path with two condition
variables; `compress_continue` is a poll that must make progress, surface a read error from another
thread, and be safe to abandon. In the store, one write touches the data, the map in memory, the
map in the file and the cache, in that order, and each file operation can fail. The metadata chain
is edited in place with no journal. A hunk read back has gone through a codec chosen by
competition, a bit-packed map with relative references, and perhaps a parent whose hunks lie
elsewhere. A CD goes through four numberings of its frames. Pointers are owned on two sides of a
C boundary, across exceptions.

**What makes each part correct.**

- Work queue: an item runs once, in order; nothing is used after it is deleted; no wakeup is lost;
  freeing drains.
- Pipeline: looks like a sequential loop over the hunks; ends; never touches an overwritten slot or
  a freed OSD item; never calls into a destroyed object; answers Ok only for a whole file.
- Store: is an array of hunks, through any mix of calls, caching, allocation and reopening; hunks
  do not overlap each other or anything else in the file.
- Metadata: the chain ends, a removed record stays removed, a successful call changed its own
  record and no other.
- Files: what is read without an error is what was stored; finished files are readable; header
  hashes are true; a wrong parent is refused.
- Codecs, text, digests: lossless; standard; damage is noticed.
- CDs: every byte of the source is there once, the table of contents survives its metadata, what
  comes out is what went in, by any way of reading.
- Streams: an array of bytes with a position, whatever the host does to the transfers.
- Shims: one owner, one free, no failure that turns into success unheard.

## 2. Modules

| module | models |
|---|---|
| `WorkQueue`, `WorkQueueAbstract`, `WorkQueueProofs` | the work queue at the grain of its critical sections; its promise, a FIFO whose items run once; its invariants and the refinement, proved |
| `Compressor`, `CompressorAbstract`, `CompressorProofs` | `chd_file_compressor`, the reader thread, the workers and `run_compression`; the promise, a sequential loop that ends; its invariants and the refinement, proved |
| `HunkStore`, `HunkArray`, `HunkStoreProofs` | an open uncompressed v5 file with its cache, map and parent; the promise, an array of hunks; typing, non-aliasing, the lagging map and the array, proved |
| `Metadata`, `MetadataProofs` | the metadata chain, record by record and write by write; typing, acyclicity, no resurrection and the effect of each call, proved |
| `ChdFile` over `V5Map`, `ChdFileProofs` | `chd_file` for versions 3, 4 and 5; the v5 map in memory and in the file; its three invariants, proved |
| `BitStream`, `Huffman`, `Flac`, `AvHuff`, `ChdCodec` | the coders, bottom up |
| `CoderProofs` | that numbers written to a bit stream are read back, and what is encoded with the Huffman trees the code builds, proved |
| `CodecAllocator` | the allocator lent to zlib and LZMA |
| `Hashing` | SHA-1, MD5, CRC-16, hashes as text |
| `Unicode`, `Text` | code points and their encodings; `core_text_file` |
| `CdBytes` | ECC, times and tokens of a CD, byte by byte |
| `CodingProofs` | what `CdBytes` and `Unicode` do to every sector, frame and character, and that an allocator's blocks have one user and come back, proved |
| `Codecs` | every coder, text and digest as a job that is encoded and decoded, and the allocator |
| `CdToc`, `CueSheet`, `DiscSheet`, `CdImage` | the table of contents; cue sheets; GDI, NRG, ISO and cdrdao sheets; the CHD of a disc |
| `Cd` | a disc image on its way into a CHD and out again, and `CdCookedReader` |
| `Stdio`, `Streams`, `CoreFile`, `Io`, `ByteStream`, `IoProofs` | a C stream (external); the adapters; core files; a client that calls them; the promise, bytes with a position; the two invariants and the refinement, proved |
| `Shim` | nine functions of the crate as sequences of shim calls with ownership |
| `MC...` | the instances TLC checks |

Composition. `Compressor` uses its two queues as `WorkQueueAbstract` specifies them (first in first
out, run once, completion published after the callback, freeing joins after the last item), and
`WorkQueue` is shown to implement that. `ChdFile` keeps its map through `V5Map`'s bit-packed form,
which is written with `Huffman` over `BitStream`. `ChdCodec` uses `AvHuff`, `Huffman` and `Flac`.
`Cd` takes hunks in order, as `CompressorAbstract` delivers them. `Io` runs the adapters of
`Streams` and `CoreFile` over `Stdio`. `Shim` has the pointers between the parts.

Definitions named `X_Something` before a definition `X` are wrong versions of it. They are not part
of any specification; they show that a property can fail.

### WorkQueue

`WorkerTake`, `WorkerRun`, `WorkerFinish`, `WorkerNotify` are the four stretches of
`worker_thread` (65-93): under the lock up to the pop or the wait; the callback; counting the item
off and publishing `completed`; the notify after the unlock. `QueueMultiple` pushes the items under
the lock and `NotifyOne`/`NotifyAll` follow it. `ItemWait` is split at its unlocked test of
`completed`, `ItemRelease` at the `delete`. A condition variable is the set of threads parked on it
(program counters `sleep`, `item_block`, `queue_block`). Timeouts and spurious wakeups are actions
of their own. Clients use an item's pointer only while they hold it and one at a time, and free the
queue with no other call in progress: that is what `chd_file_compressor` does.

### Compressor

The main thread's program counter walks through `run_compression` and the parts of
`compress_continue` (3040-3178): queueing reads, the flush loop (test, release, clear, emit, add,
advance), finalisation, the wait loop, then the drop, the two joins in the base destructor, the end
of `ChdCompressor::drop` and the unlink, which may fail (its result is ignored,
`streaming.rs:137`, `141`). `taken` remembers what `read_data` left in the buffer. `async_read` (3297-3372) is split at each point another
thread can notice: taking the item, `read_data`, queueing each hunk, *then* storing `m_osd`,
advancing, counting off. `async_compress_hunk` (3251-3270) is split into hashing, lookup and
compression, and the state change. The lookup in `m_current_map` races with `hashmap::add` by
design; while the main thread is inside `add` a lookup may miss an entry.

Abstractions: a hunk is a value and is its own digest (no collisions); a compressed hunk is the
value it decompresses to, kept per slot so that a *stale* result is visible; a read covers half the
ring and is short all or nothing; there is no parent, because the crate never gives a compressor
one. `TypeOK` documents the types and is the first conjunct of the invariant that is proved.

### HunkStore

One action is one turn of the per-hunk loop of `read_bytes`/`write_bytes`, or one
`read_hunk`/`write_hunk`. `StoreHunk` is `write_hunk` with all its exits: skip zeros, allocate,
overwrite, and the three ways to fail (`AppendFails`: padding or data partly written;
`MapWriteFails`: block in `m_rawmap`, map entry not in the file; `OverwriteFails`: part of the
block). File offsets are in units, so alignment and odd metadata sizes are real. `Scanned` is the
part of a hunk the zero test looks at; it is a whole hunk when the hunk size is a multiple of four.
The four bytes of a map entry are written all or not at all. An entry is written once, over a zero, so
a cut write can only leave the old or the new number while block numbers fit one byte, as in the runs;
what a cut write of a larger number leaves is not modelled, and `MapsAgree`, `NoAliasing` and their
theorems do not speak of it.

### Metadata

`Begin`, `FindStep`, `FindEnd` are `metadata_find`; one step is one record read. `WriteUnlinks`,
`WriteAppends` and `WriteLinks` are the three file updates of a `write_metadata` whose data does
not fit; each can fail by itself. A record's offset is the number of the append that created it. A
failed in-place overwrite leaves a mixture (`Torn`). `clone_all_metadata` is a sequence of writes
with index -1 (`CloneIndex`), which never matches an existing record.

### ChdFile and V5Map

`disk` has the files, `chd` the objects; an object creates a file (of its own or over a parent),
appends hunks as `chd_file_compressor` does (self and parent copies, uncompressed and compressed
blocks), writes metadata, finishes (`compress_v5_map`, the hashes) or is closed before that; it
opens files of any version with any parent or none, and reads. A block on the disk may change
(`Fragile`). A SHA-1 is what it was computed from, so equality of hashes is equality of data; the
CRC of a block likewise. `truth` remembers what was stored, and `misled` which files were written
over a parent with other data than its header's hash says; no guard reads either. All files have
hunks of one size. `Chd::create_with_parent` takes any and the code compares unit sizes only
(2446-2449), but `HdImage::open_with_diff`, its caller, gives the parent's, and another cannot work:
a compressor never has a parent in the crate, so that differences are uncompressed, and for a hunk that is
not in the difference the parent's `read_hunk` fills the caller's buffer with a hunk of the parent's size
(1100), which leaves part of it as it was or runs over its end. In `V5Map` an entry is a record, and
the file form is the bit sequence `compress_v5_map` writes: the Huffman tree, the run-length coded
types with promoted references, and the fields in their widths.

### Codecs and what it gathers

A job is one input of one coder; `Encode` and `Decode` are the two calls, `Process` is one round of
a digest, `Allocate` a step of a library that allocates and frees. Bits are sequences of 0 and 1
through the 32-bit accumulator of `bitstream.h`. A byte of compressed data is a *cell* that says
what it encodes, which stands for what a third-party library writes; lengths are real, because
they decide which codec wins and whether a buffer overflows. Digests work on real words (pairs of
16-bit halves) and are compared, round by round, with the standards' formulation in which the
variables move instead of the indices.

`FindBestCompressor` is the loop of `find_best_compressor`: the one test buffer, what a codec leaves in
it when it throws, the length to beat and the copy to the caller's buffer, which holds an older hunk's.
`BestWins` compares what the caller then takes with what each codec makes of the hunk by itself.

### Cd and below

Bytes of a disc are *pieces* `[file, at, len, swap]`, so that "every byte once and in order" can be
said without enumerating bytes. A sheet is its sequence of tokenised lines. `Parse` is
`parse_toc` for the image's extension, `Create` pads the tracks and writes the metadata, `Compress`
is one hunk read through `CdCompressor::read_data`, with `Vanish` for a source file that is deleted
meanwhile, `OpenDisc` parses the metadata and lays the frames out, `Extract` is one of the three
extractors and `ReaderRead`/`ReaderSeek` are `CdCookedReader`.

### Io and below

One step is one call of an adapter's method (`read_some`, `write_some_at`, ...), with every outcome
the host allows: less than asked, interrupted, failed. `Stdio` keeps what the last operation on a C
stream was, so that an input directly after an output is visible as `undefined`. `Streams` has the
adapters, `CoreFile` the buffering of `core_osd_file`, and `Io` the loops of `util::read` and its
kin, the filling wrappers and `core_file::load`.

### Shim

A function of the crate is a table of calls; `Proceed`, `Fail` and `Return` run it. Each call has
the outcomes its shim can give (an error code, an exception caught by the guard, success), an
effect on what is alive and who points to whom, and the locals that exist after it; a failing call
unwinds them in Rust's order. Making a C string of a path is a step too, where the code makes it: it
may fail, and in `Toc::parse` the table is then still behind a bare pointer. `failed` names every call
that ended in an error or an exception, whatever it answers with.

## 3. Runs

| run | states | what it shows |
|---|---|---|
| `workqueue` | 84 k | no use after free, exact `pending_items` and `queue_waiters`, each item once, every call returns, implements `WorkQueueAbstract` |
| `compressor` | 734 k | implements `CompressorAbstract` (contents, order, digest, termination), nothing runs on a destroyed object, with cancellation anywhere, compressed and uncompressed |
| `compressor_faults` | 3.8 M | ring never overrun, no dangling `m_osd`, reads in order, Ok only for a whole file (`OkIsWhole`), with failing writes, throwing and short reads and the 30 s wait expiring |
| `hunkstore_array` | 6.5 k | `read_bytes`/`write_bytes` implement `HunkArray`, across allocation, metadata and reopening |
| `hunkstore_faults` | 111 k | no two hunks, nor a hunk and header, map or metadata, share a place, and the file's map differs from `m_rawmap` only by lagging behind, whatever fails |
| `metadata` | 906 k | links go forward, no removed record returns, successful calls did what they say, every call returns, whatever fails |
| `metadata_grow` | violated | the finding below |
| `chdfile` | 86 k | `HunksReadBack`, `FileDescribesItself`, `WaysAgree` |
| `codecs` | 8.9 k | `CodersLossless`, `BestWins`, `BlocksSound`, `TextTrue`, `ChecksTrue` |
| `cd` | 2.4 k | `NothingLost`, `TocSurvives`, `ExtractionTrue`, `ReadsTrue` |
| `io` | 90 k | `NoUndefinedStdio`, `ShortOnlyAtEnd`, `CallsReturn`, `IsByteStream` |
| `shim` | 277 | `NoUseAfterFree`, `NothingLeaks`, `FailuresReported` |

Several of these are conjunctions whose parts are named and explained where they are defined:

- `HunksReadBack`: `ReadBack` (no other data than was stored, damage and wrong parents included)
  and `FinishedReadable`. `FileDescribesItself`: `HashesTrue` and `InfoAccounts`. `WaysAgree`:
  `Inherits` and `ProcessMatchesRead`.
- `CodersLossless`: bits of any widths, Huffman trees in both stored forms, hunks through any group
  of codecs, A/V frames whole and in configured pieces, the v5 map. `TextTrue`: characters, strings,
  lines, tokens, times, hexadecimal. `ChecksTrue`: padding and length of both digests, their rounds
  against the standards, CRC-16 against bursts, ECC against changed bytes. `BlocksSound`: a block
  has one user, and blocks are reused.
- `BestWins`: what is kept is one codec's stream from end to end, it saves at least a byte, no codec's
  is shorter, and of equal ones it is the first; without one that saves, the hunk itself.
- `NothingLeaks` names the two things that are lost, and when: the reader's box without a wrapper
  (`chd_shim.cpp:139`), the table of contents of a path that is no C string (`cd.rs:140`).
  `FailuresReported` names the two calls whose failures nobody hears of: `check_is_*` answers "no"
  to any error, and `compress_begin` answers nothing.
- `ReadsInOrder` is about offsets. That two reads do not overlap is the read queue's one thread, which
  the model has built in; what a queue does with its items is `workqueue`'s.
- `ExtractionTrue`: `ExtractedIsSource` (bytes) and `ExtractedSheetParses` (the sheet describes the
  disc again). `ReadsTrue`: `SameDisc` (a sector reads the same from the CHD and from the image it
  was made of, but for the frames that `REM LEAD-OUT` loses, see the observations) and `ReaderFaithful`.

### Bounds

- Work queue: 2 workers, 2 clients, 2 items, queued singly or as an auto-released batch. Two of
  each is where every race lives: two workers on one FIFO, a waiter per condition variable, one
  client waiting for an item while the other waits for the queue. The safety invariants are proved
  without these bounds.
- Compressor: a ring of 4 (halves of 2) and 5 hunks, so that the third read wraps, is partial, and
  reuses slots of the first lap; 2 workers; contents `a b a b z` give self copies side by side and
  a lap apart. `compressor_faults` has 6 hunks, so that the third read also fills a slot whose
  neighbour was written out before it; it uses symmetry of the workers, and no liveness is checked
  there.
- Hunk store: 2 hunks of 2 units, 2 unit values, a header that is not a multiple of the hunk size,
  metadata of one unit, room for 4 blocks. One hunk to be cached and one to displace it, partial
  and whole writes of either. `hunkstore_faults` leaves `reply` out of the state by a `VIEW`: no
  guard reads it and the invariants do not mention it.
- Metadata: 2 tags, indices 0 and 1, 2 lengths, 3 appended records: a record can be first, middle
  or last, grow, and be deleted; deeper chains repeat these cases. Acyclicity is proved for any
  number of records.
- Files: 2 objects, a parent and a child; 2 new files and 6 that exist (versions 3 and 4, one with
  a parent, one damaged, one of version 2 that is refused, one with an unknown codec); 2 hunks of
  2 units, contents that repeat, that are shifted by a unit against the parent's, and that no codec
  shrinks.
- Codecs: about 8 900 jobs. Widths around 8 and 32 bits, trees with one, two and escaped lengths,
  sectors with right, wrong and partly wrong codes, frames with and without audio, maps with every
  kind of entry and reference; messages of 0 to 130 bytes in pieces around 55, 56 and 64. Sector
  and block sizes are scaled down (constants in `MCCodecs.cfg`); MD5's counter has 8 bits so that
  it carries.
- CDs: 13 good sheets of all kinds, 18 broken ones, 8 older CHDs; tracks of two to seven frames, so
  that padding to four, splitting and hunks of two frames over a track's end all happen. One fault
  in a behaviour: a source file vanishes or a read of the CHD fails.
- Streams: a file of 4 bytes, three calls, offsets inside and behind the end, a core buffer of 4
  bytes (a request of 1 goes through it, one of 3 does not). Every kind of adapter. Two cases are
  left out by constants because the code does not keep the promise there: `OsdSeekFails` and
  `CutBuffered` (see the observations), and positions behind the end of core files (`PastEnd`).
- Shim: no bound; the functions are finite.

`Items`, `MaxBlocks`, `MaxRecords`, `MaxLive`, `MaxCalls` and `MaxFaults` cap what would otherwise
grow; each is named in its module. Deadlock is not looked for in `codecs`, `chdfile`, `cd` and
`shim`, whose behaviours end.

### Fairness

Weak fairness of each thread's steps: the operating system runs a runnable thread, and callbacks,
codecs and file calls return. Nothing is assumed about timeouts, spurious wakeups, or a client
making a call. In `Compressor`, `run_compression` is a loop with no exit but the end, so its thread
keeps stepping. In `Metadata`, a call that has started goes on. In `Io`, besides weak fairness of a
call in progress, strong fairness of a transfer that is not interrupted: signals do not interrupt
every retry for ever; without it `util::read` may retry without end, by design.
`WorkQueueAbstract` assumes only that what is queued starts and what is started finishes.

### Finding

**Growing metadata** (`metadata_grow`). A record that no longer fits is unlinked and appended again
with a null `next` (1592-1605), and the record before it is pointed at it: whatever followed is off
the chain. `docs/management.md:20` says that blocks are shifted to accommodate metadata changes.

### Observations

Seen while modelling; the models have these steps, or leave them out where the text says so, and
the properties are stated for what remains.

*Pipeline.*
- `async_read` ignores the result of `read_data` (3337), and nothing clears the ring between laps:
  a handler that returns fewer bytes than asked stores what the slot held a lap earlier.
  `copy.rs:43-44` relies on zero filling.
- A failed write ends `run_compression`'s loop with reads still queued; they run while the base
  destructor drains the queue, after the derived part and its `read_data` are gone.
  `streaming.rs:133` says the workers are drained by then, which holds on cancellation.
- With a logical size of zero the condition that ends compression (3138) is never met and
  `run_compression` polls for ever; `docs/format-modules.md:86-88` allows the size.
- `m_osd` is stored after the item is runnable (3348). If the main thread flushes the slot first,
  that OSD item is never released (a leak; `NoDanglingOsd` shows it is nothing worse).
- The 30 s wait before the digest is taken (3152) ignores its result; a digest of a prefix is then
  written. Allowing it breaks `Implements`, which is why `compressor` has it off.
- A read error while the awaited slot is `WS_READING` and holds an earlier lap's `m_osd` leaves the
  loop at 3172 spinning.
- The ring's size (3004) is computed in 32 bits. Metadata must be written before `compress_begin`
  (`lib.rs:674`); an exception in `compress_begin` is swallowed by its guard.
- `run_compression` ignores whether the file could be removed: after an error or a cancellation it may
  still be there (`streaming.rs:100` says best-effort).

*Store and metadata.*
- `write_hunk` of an allocated hunk (1251) leaves a stale copy in `m_cache`: `read_bytes` returns
  it, and the next partial `write_bytes` writes it back.
- `write_hunk` drops zeros for a hunk a diff has not allocated (1206-1222), also when the parent's
  data is not zero; `docs/management.md:14-15` says that all writes go to the child.
- A failed load leaves other contents under the old `m_cachehunk` tag (1332).
- A failed map write (1238) leaves the block in `m_rawmap`; a retry then overwrites in place and
  succeeds, and the hunk is lost on reopening. `MapsAgree` shows that it is only lost.
- `read_bytes` and `write_bytes` of zero bytes at offset 0 run over every hunk (1312).
- The zero scan counts 32-bit words (1211); a hunk size that is not a multiple of four has a tail
  it never looks at.
- An in-place metadata write keeps the record's old flags; a growth that fails after the unlink has
  lost the old record; a failed header write leaves `m_metaoffset` ahead of the file (2866).

*Files.*
- `open_common` compares a parent's SHA-1 and not its unit size, in which references are counted.
- `compress_v5_map`'s buffer can be too small for files of one hunk (the assertion at 2258).
- `codec_process_hunk` truncates a parent reference that does not begin a hunk; `hunk_info` leaves
  its outputs unset for a hunk out of range; a diff over an uncompressed parent has a null parent
  SHA-1.

*Codecs.* `bitstream_in::peek` forgets how much of a byte it has used when it takes a part of that
byte again (121): reading widths 5, 28, 5, 28, 8 back gives a wrong last value. It takes reads of more
than 25 bits, which only the map has, of files with more than 2^25 hunks or parent units. A/V: an audio-only frame, odd widths and noise that does not shrink are encoded to
something the decoder refuses; the decoder of FLAC loops on a truncated stream; the CD compressor
can write its header one byte past a buffer of the exact size.

*CD.*
- A single-file cue sheet with `REM LEAD-OUT`: the track is trimmed to its real frames, and then
  the lead-out gap is added to its padding (2769), so that its last real frames are zeroed.
- Sheets with a one-track file followed by a file of several tracks, GD-ROM sheets over a single
  file, and out-of-order GDI tracks get wrong offsets or lose padding; Nero offsets leave out
  earlier pregaps; a GDI sheet may name 100 tracks; a WAV file whose chunk has no length is scanned
  for ever.
- GD metadata has no mark for pregap data; `MODE2_FORM1` read as `MODE1` takes its data from offset
  24; physical reads of an image that is not a CHD add the pregap; `lba_to_msf` is BCD and
  `msf_to_lba` binary.

*Streams and text.*
- `read_some` behind the end of a core file makes `length()` larger than the file
  (`corefile.cpp:138`); `truncate` does not drop the read buffer; a failed write leaves the known
  size too small.
- `minimal_osd_file` ignores the result of `fseeko` and `fflush` and truncates without flushing.
- The Rust adapter leaves its count unset on failure and maps every error to one, so an
  interruption is not retried; a Rust `write` that returns `Ok(0)` makes `util::write_at` loop
  (asserted not to happen, `ioprocs.cpp:808`).
- `ram_read_copy` with a filler does not set it (872-883).
- Writing no bytes behind the storage of a vector lengthens it (`ioprocsvec.h:163`).
- An invalid character makes `getc` return stale bytes; a mark is seen only in files of at least
  four bytes; `utf16_from_uchar` refuses code points from 0x100000 on.

*Shims.* A null from an allocation is used by `Chd::new`, `ChdCompressor::new` and `Sha1Creator`;
`Chd::open` takes its parent by reference without a lifetime; `Toc::parse` leaks its table for a
path that is not UTF-8 or has a NUL (cd.rs:140); `Chd::info` reports a CHD whose metadata cannot be
read while `check_is_*` look for their tags as none of their kinds, and Ok; `hd.rs:316-321` explains a field order that `chd_file`'s destructor does not need.

## 4. Proofs

All theorems are about the safety part of a specification (`Init /\ [][Next]_vars`, called
`SafeSpec` where `Spec` also has fairness), for every value of the constants that satisfies the
module's `ASSUME`s and, where a theorem states them, its hypotheses. Induction over the length of a
chain or a sequence goes through the least counterexample (`LeastNat`, from the well-foundedness of
`<` in `WellFoundedInduction`).

**WorkQueue** (`Invariance`, `TypeCorrect`, `UseAfterFreeFree`, `CountsCorrect`,
`RunsExactlyOnce`, `Refinement`). Assumes finite non-empty sets of workers and clients, `NoItem`
outside `Items`, and batches of distinct items. None of the invariants is inductive alone: that a
worker's item is alive depends on who may delete it, which depends on `completed`, which depends on
where the worker is. `IInv` is

- `Typed`; `Counted`: both counters are cardinalities of sets of program counters;
- `QueuedInv`: queued items are distinct, alive, not run and in no worker's hands;
- `WorkerInv`: a worker holds a live, unpublished item, alone;
- `FateInv`: a live item is complete, queued or in a worker's hands, and an allocated one has run
  or is on its way;
- `ClientInv`: a client works on a pointer it holds, alone, and deletes only completed items;
- `CloseInv`: workers exit only from a closing, empty queue, and one client is alone inside
  `osd_work_queue_free`.

Each action has its lemma with one step per conjunct it can disturb; the counters use the
cardinality facts of `FiniteSetTheorems`. `Refinement` uses the same invariant: taking an item is
the abstract start, the callback the abstract run, publishing `completed` the abstract end, and
everything else a stutter.

**Compressor** (`Invariance`, `TypeCorrect`, `LapsApart`, `OsdItemsLive`, `Ordered`, `OutcomeHonest`,
`AliveDuringCalls`, `Refinement`). For any even size of the ring, any number of workers, any source,
failing writes, throwing and short reads and an expiring wait, with cancellation anywhere. `IInv` is

- `ReadInv`: what the read pointers say of each other and of the two reads that may be outstanding;
- `SlotInv`: the ring holds, from the write pointer on, hunks queued or complete, then those being
  read, then free slots; after an error one slot more may be queued;
- `FifoInv`, `WorkInv`: queued hunks are in order and not yet written out, and no two workers hold
  one hunk;
- `HashInv`: what the workers leave in a slot belongs to the data in it;
- `OsdInv`: a slot's `m_osd` is its own or an earlier lap's, and dangles only between the release
  and the store that clears it;
- `MainInv`: the map is written up to the write pointer, and an Ok leaves the file and met no error.

The properties follow from it: a slot is free when a read is claimed because all hunks of the lap
before are behind the write pointer, which needs `SlotInv` over a whole lap and the arithmetic of
`h % WORK_BUFFER_HUNKS` (`SlotInjective`). `AliveDuringCalls` (`NoCallAfterDestroy`) assumes that no
write fails and the final wait does not expire: with either, `run_compression` leaves while reads
are queued and the property is false (see the observations).

`OutcomeHonest` (`OkIsWhole`) has no hypotheses. Its invariant `RInv` adds to `IInv` that slots hold
what was left in the buffer (`DataInv`, over `taken`), that every map entry leads to that (`MapInv`),
what the digest covers (`ShaInv`) and what the end of the loop knows (`EndInv`). `Refinement` uses the
same invariant. It assumes that reads deliver what was asked and that the wait does not expire: otherwise a
stale slot is stored, or a digest of a prefix. Then `taken` is the source (`SourceInv`); writing a hunk
out is the abstract `Store`, taking the digest `Seal`, leaving `Return`, with an error only where a
write or a read can fail. It refines the safety part of `CompressorAbstract`.

**HunkStore** (`StoreCorrectlyTyped`, `BlocksNeverAlias`, `FileMapLags`, `StoreIsAnArray`). Assumes
positive sizes, a non-empty header, metadata records of at least one unit, and a parent, if any, of
the same shape; nothing about failures. `NoAliasing` of `m_rawmap` alone does not survive reopening,
which replaces it by the map in the file: the invariant adds that every entry of the file's map is
null or agrees with `m_rawmap` (`MapsAgree`), that header and metadata lie inside the file, and that
a used block ends inside the file, so that a new block, aligned up from its end, is clear of all of
them. `StoreIsAnArray` is the refinement of `HunkArray`, under `PlainUse`: no parent, no failing
I/O, the zero scan covers the whole hunk, and the user calls `read_bytes` and `write_bytes` only.
Each of these is an observation above: with any of them dropped the store is not an array. Its
invariant adds that the cache holds what the file has (`Clean`) and that both maps are the same.

**Metadata** (`MetadataTyped`, `ChainAcyclic`, `GoneForGood`, `CallsDoWhatTheySay`). Assumes natural
indices and positive lengths. `LinksForward` needs where the search stands (`CursorInv`): the record
at hand is the one the previous record points to, and a record being linked is behind all others.
Then unlinking replaces `p -> o -> n` by `p -> n` with `p < o < n`, and linking adds an edge to the
newest record.

`GoneForGood` (`NoResurrection`) needs more, because a failed write leaves the head in the file
behind the one in memory and a reopening goes back to it: there is a set of records (`Live`) that
holds both heads and the cursor, is closed under `next`, has no two records leading to the same one
and contains nothing that is gone. Each step says what the set becomes; the walk stays in it.

`CallsDoWhatTheySay` is the action property `CallEffects`. The walk from `m_metaoffset` is shown to
be the one path of the links (`WalkPath`, `PathUnique`), strictly forward (`PathForward`).
`SearchInv` says at which place of that path the call stands, that no earlier entry is the one
sought, by counting (`CountStep`), and, for a write that has unlinked or not found its record, that
the entries before the place are still those at the call's start. The step that returns then
exhibits the new path: the old one without a record (`Unlinked`), or its beginning followed by the
new record (`WriteLinksSearch`).

**ChdFile** (`ChdInvariant`, `HunksComeBack`, `FilesDescribeThemselves`, `OtherWaysAgree`). For any
number of objects, files, hunks and old files, any codecs, any depth of parents, damage to any file.
Assumes positive sizes, hunks of at least two bytes, CRCs that tell the contents apart, and that the
files that are there at the start (`OldFiles`) are files those versions wrote (`OldFile`). `IInv` is

- `TypeInv`; `FileInv`: what a file stands for. An old file is as it was but for damage. A new one,
  once it is mapped, has a good map: each entry leads to a block with that hunk's contents and CRC,
  to an earlier stored hunk with the same contents, or to a window of the parent (`TrueWindows`);
  blocks are one behind the other and none is left over; the hashes are those of `truth`. One that
  is not mapped may have either hash, but no entry that can be read;
- `ObjectsInv`: what an open object knows. Its fields are the header's (`KnowsFile`); its parent is
  open, not being written to, and has the hash that the file names (`KnowsParent`); while it fills a
  file, its map is good up to the last hunk appended (`FillInv`). Two objects never have one file,
  one file is written at a time, and the objects can be ranked so that parents are lower (`Ranks`).

The rank is what makes `read_hunk` a function: `Reads` and `Processes` are recursive functions on
objects and hunks; `ReadUnfolds` and `ProcessUnfolds`, by the rank and the number of the hunk, are the
facts that each of their values is one step of the code from others, and `ReadBackStep` goes along it. From a hash follows what the parent holds, from
that what is in a window of it, and so that `read_hunk` returns `truth` or an error at any depth.
`truth` changes only for the file being filled, which is nobody's parent.

`ReadBack` is about objects behind which nothing can be misread (`Trusted`): ancestors have one unit
size, a damaged file has CRCs, and none was filled while *its* parent could be misread (`misled`; the
compressor stores a reference to what it reads). `HunksComeBack` and `OtherWaysAgree` assume that no
file is created over an uncompressed one (`UncompressedParents`, FALSE also in the run), since such a
file has no SHA-1 by which a wrong parent could be told. `HunksComeBack` also assumes that
`decompress_v5_map` accepts what `compress_v5_map` wrote for every map a finished file can have
(`MapsComeBack(Nat)`). That is a statement about the Huffman coder and the
map, and not about `chd_file`; `CoderProofs` proves the layers below it (see **Coders**), not the
forms of run lengths, types and entries; `MCChdFile` has it as an `ASSUME` for the maps of its instance, about
900, and `codecs` checks it for others (`MapRoundTrip` in `CodersLossless`).

**Io** (`StdioDefined`, `ReadsReachTheEnd`, `EveryAdapterIsAByteStream`). For any file, offsets, lengths, faults and adapters;
assumes that the seeks inside `minimal_osd_file` succeed, whose results the code ignores (a failing
one lets an input follow an output). The `ASSUME`s say that bytes and places are numbers and that a
vector starts with whole elements. `IoInv` holds for every adapter: `m_dangling_read` and
`m_dangling_write` are set whenever the stream's last operation was one of theirs (`Clean`), a
vector has whole elements (`Whole`), the file's and the adapter's fields are typed (`Good`); during
a call its counts fit what was moved (`Underway`), and after it a success means all or the end
(`Told`). The lemmas go through the adapters' methods one by one, with every way each can fail.

`EveryAdapterIsAByteStream` is the refinement of `ByteStream` (`IsByteStream`). A read gives a piece
of the file (`Gives`); a write leaves the rest of the file alone and the filler in what it skipped,
whether it succeeds or not (`Within`), and took what it says if it does (`Took`): each method is
shown to do one of them, first of the C stream, then adapter by adapter. `ByteInv` adds to `IoInv`
what the contents need (`Kept`): the buffer of a core file is a piece of the file (`Inside`), the
storage of a vector behind its counted size is zero (`SpareZero`), memory has its fixed size; and
that a file being loaded is whole until the first transfer that succeeds (`Loading`), because
another process may cut it. Its hypotheses all hold in the run `io`, and positions behind the end of
a core file, which that run leaves out, are covered: the seeks of `minimal_osd_file` succeed and no
core file is truncated while its buffer has bytes (both are observations above); the client keeps
the position of memory inside it and seeks a Rust stream to places that exist; and it writes at
least one byte a call, since `write_at` of no bytes behind the end of a vector lengthens it, which
`ByteStream` does not allow.

**CodecAllocator** (`BlocksHaveOneUser`, `MemoryBounded`). `AllocSpec` is `AllocInit` and the steps
that the job `Allocate` of `Codecs` takes; no other job touches these variables. Any request sizes
and number of slots. `AllocInv`: the table is filled from its first slot on, a block in it is marked
exactly when it is held, nobody holds a block twice, and `peak` is at least what is held. For
`BlocksSound`, whose second half says that memory does not grow, the hypothesis is that there is a
slot for every block that can be held of each size; a block that finds the table full is not
recycled (`chdcodec.cpp:847`). The code has 64 slots, and zlib and LZMA hold a handful of blocks.
That a size has no more blocks than were held at one time is a counting argument: a new block of a
size is made only when all of that size are held.

**Coders** (`NumbersReadBack`, `CanonicalCodes`, `CodesComeBack`, `BuiltTreesFit`, `ComputedTreesFit`,
`AnythingComesBack`; module `CoderProofs`). Theorems about
the operators of `BitStream` and `Huffman`, for any sequences of numbers and codes, any widths and any
tree; the run `codecs` tries some (in `CodersLossless`). For a stream that is written, `BitsOf` is what
reached the buffer and what is in the accumulator; one call appends its bits to it (`WriteAppends`),
however often it empties the accumulator (`PourLoop`), and `FlushFills` adds zeros only. For one that is
read, `ReadingAt(i, d, p)` says that it has read p bits of d: the accumulator is the window of d that
starts there, and behind it comes byte `doffset`, with `dbitoffs` of its bits taken. Every way
`FetchByte` fills the accumulator, past the end too, keeps to it (`FetchStep`), so that
`peek` shows the next bits (`PeekFills`) and `remove` moves on (`RemoveMoves`). Then what a run of writes
left is the data in which each word has its place (`WordsCarried`), and the reader goes from place to
place. Hypotheses: the buffer was long enough, numbers fit their widths, and these are at most 25, as
many bits as `peek` can promise (see the observations).

Of `assign_canonical_codes` it is proved that no code is the beginning of another (`CanonicalCodes`). If
it reports no error, no half of a start was rounded (`Balanced`), so that the first bits of any longer
code, as a number, are below the codes of their length (`LongerBelow`); codes of one length have
different ranks. The hypothesis `Fits` is that at most two codes of one bit are needed in the end, Kraft's
inequality, without which a start does not fit its length. The code does not test it; an imported tree
need not have it, the trees that `build_tree` makes do:

- `BuiltTreesFit`. `Tally` counts, for each depth, the nodes with codes below them: twice as many as at
  one depth are the nodes and codes of the next. `build_tree`'s list is a `Forest`: each used code is in
  one of its trees, and every tree has a tally. Joining the last two (`JointTree`) adds their tallies one
  deeper, and the list is one shorter (`ForestKept`), until one tree has all codes (`JoinedForest`). Its
  tally is the table of starts that `assign_canonical_codes` computes from the lengths, so nothing is
  rounded and the root remains (`LengthsFit`).
- `ComputedTreesFit`. `compute_tree_from_histo` looks for a scale of the weights by bisection and ends
  only at a tree that is not deeper than `maxbits`; so the lower bound it starts from, 0, must have such
  a tree, and it moves up only to a scale that has one. At scale 0 every used code weighs one. Then no node is more than twice as heavy as the last of the list (`Light`, kept by
  `LightKept`), so a node weighs at least half again as much as its child, and a code deeper than
  `maxbits` would need more codes than there are. `Shallow(n, maxbits)` is that this growth exceeds n,
  the hypothesis, and `CodersShallow` that the coders of the code have it: 16 codes in 8 bits (the map),
  24 in 6 (trees in a stream) and 272 in 16 (sound and video). The loop ends because its interval shrinks
  (`Closer`, `SearchExists`), and with a tree that is shallow (`Bisected`).
- `AnythingComesBack` puts both before `CodesComeBack`: any data that are not empty are decoded again with
  the tree computed for them. How the tree itself is written and read is not part of it.

**Codings** (`GeneratedCodesVerify`, `ClearedCodesComeBack`, `TimesComeBack`, `HeadersNameFrames`,
`Utf8ReadsBack`, `Utf8OneForm`, `PreviousCharFound`, `Utf16ReadsBack`; module `CodingProofs`). These
are theorems about operators, for every input; the run `codecs` tries a few of each (in `ChecksTrue`
and `TextTrue`), and its mutants show that those can fail. No assumption.

- Error correction codes. The code computes a row's two bytes from the sector into the sector. That
  it may is `PReadsData` and `QReadsDataAndP`: no row of the P codes reads a code byte, no row of the
  Q codes reads a Q byte, by arithmetic on the offsets. So equal data have equal codes (`SameRows`),
  whatever `CodesOf` computes: nothing is used of the tables, of the Galois field or of the sums.
  With the three regions of a sector disjoint (`Regions`), what was generated verifies, and
  generating after clearing gives the sector back exactly when it verified. This is the test the CD
  codecs make before they drop the codes (`chdcodec.cpp:371`).
- Times. Division with remainder by 75 and 60, and of the two decimal digits of each part.
- UTF-8. A character is its four groups of six bits (`Sextets`, `Joined`); `Written` says which
  bytes it has, `ReadOne` to `ReadFour` what is read from them. `Utf8OneForm` is the converse: the
  smallest character that needs a length is what excludes a longer form, and `uchar_isvalid`, which
  `uchar_from_utf8` does not call itself, excludes surrogates and what five and six bytes can hold.
  `PreviousCharFound` has only the shape of a character: a first byte that continues nothing and
  bytes that continue it.
- UTF-16. `Utf16ReadsBack` stops at 0x100000, because `utf16_from_uchar` does (see the
  observations).

**Checked by TLC only**, and why:

- Liveness (`CallsReturn`, the end of the pipeline and of the queue in their `Implements`): fairness
  and `ENABLED` are outside the prover's reach.
- `Codecs` (except `BlocksSound`): what its properties say is about whole encoded inputs of all its
  formats. Of `CodersLossless` the part about bit streams, trees and codes is proved of the operators
  (above), and that about trees in a stream and maps is not, of `TextTrue` and `ChecksTrue` that about single characters, error correction codes and
  times; whole strings
  (`UstrFromUtf8`), digests and tokens are inductions over data.
- `Cd`: sheets and layouts are folds over tracks and lines, of which the prover knows nothing, and
  their properties are about what such a fold computes.
- `Shim`: its state space has no parameter, so that the run is exhaustive for the code as it is.

## 5. Not modelled, and why

- What zlib, LZMA, Zstandard, libFLAC and utf8proc compute: external, a lossless function that may
  fail.
- `strformat.h`, `delegate.h`, paths, logging and the parts of the vendored library the crate does
  not link to or call: no state the crate reaches.
- DVD options, `copy.rs`'s and `hd.rs`'s option checks, `compute_chs` and the identification
  blocks: arithmetic and validation of one input before a call that is modelled.
- Verification and the plain readers: loops over `read_hunk` and `read_bytes`.
- The tail of a last partial hunk; lengths of zero; sizes that overflow 32 bits.
- Allocation failures, except in `read_data`, when queueing work, and in the shims.
- The data race on the plain `bool m_read_error`: its value is taken as read atomically.
- A compressor with a parent: the crate never makes one.

## 6. Plan

Done, in this order: the queue and its proofs; the pipeline over it; the hunk store; metadata; the
coders and the v5 map; files of all versions; CDs; streams; text and digests; shims; then the
proofs of the queue, the pipeline, the store, metadata, the dangling flags and loops of the
streams, the allocators, the adapters as arrays of bytes, the codings of sectors, times and
characters, of `chd_file`, and of bit streams, the trees that are built and their codes. Next:

1. `MapsComeBack(Nat)`, on which `HunksComeBack` rests, from `AnythingComesBack` and `NumbersReadBack`:
   run lengths of trees (`ImportRle`) and of types (`DecodeTypes`) come back, each entry is written in
   as many bits as it is read, and the parts of the stream are read one behind the other.
2. `Cd` uses no recursive operator, only folds. A first step is that the layout of a CHD (`LayoutChd`)
   gives the tracks disjoint frames.
