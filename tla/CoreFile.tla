----------------------------- MODULE CoreFile ------------------------------
(***************************************************************************)
(* The binary side of corefile.cpp: core_osd_file, which keeps a small     *)
(* read buffer over an osd_file, core_in_memory_file, and the opening of   *)
(* an osd_file in minimal_osd.cpp.                                         *)
(***************************************************************************)
EXTENDS Streams

CONSTANTS BufferSize,   \* FILE_BUFFER_SIZE (512)
          Garbage       \* a byte outside the memory a file was opened over

ASSUME BufferAssumption == BufferSize \in Nat \ {0} /\ Garbage \in Nat

\* osd_file::open chooses the mode of fopen: with write access and without read access,
\* or to create, an existing file loses its bytes.
OsdOpen(exists, bytes, flags) ==
  IF "read" \in flags /\ "write" \in flags
  THEN IF "create" \in flags THEN Out(Stream(<<>>), "ok", <<>>)
       ELSE IF exists THEN Out(Stream(bytes), "ok", <<>>) ELSE Out(Stream(<<>>), "noent", <<>>)
  ELSE IF "write" \in flags THEN Out(Stream(<<>>), "ok", <<>>)
  ELSE IF exists THEN Out(Stream(bytes), "ok", <<>>) ELSE Out(Stream(<<>>), "noent", <<>>)

\* open_ram and open_ram_copy are for reading only; a copy of nothing may get no memory.
OpenRam(bytes, flags, copy) ==
  IF {"write", "create"} \intersect flags # {} THEN {"invalid"}
  ELSE {"ok"} \union (IF copy /\ bytes = <<>> THEN {"nomem"} ELSE {})

AddOffset(a, n) == [a EXCEPT !.ptr = @ + n, !.size = Most(@, a.ptr + n)]

\* The part of a request that the buffer holds.
Buffered(a, o, n) ==
  IF o >= a.base /\ o < a.base + Len(a.buffer) THEN Piece(a.buffer, o - a.base, n) ELSE <<>>

\* The rest of a request from o on: a small one goes through the buffer.
Refill(f, a, o, n, got) ==
  {IF r.err = "ok" THEN R(r.f, [a EXCEPT !.base = o, !.buffer = r.out], "ok", got \o Piece(r.out, 0, n))
   ELSE R(r.f, [a EXCEPT !.base = o, !.buffer = <<>>], r.err, got) : r \in OsdRead(f, o, BufferSize)}
Direct(f, a, o, n, got) ==
  {R(r.f, a, r.err, IF r.err = "ok" THEN got \o r.out ELSE got) : r \in OsdRead(f, o, n)}
CoreRest(f, a, o, n, got) ==
  IF Len(got) = n THEN {R(f, a, "ok", got)}
  ELSE IF n - Len(got) < BufferSize \div 2 THEN Refill(f, a, o + Len(got), n - Len(got), got)
  ELSE Direct(f, a, o + Len(got), n - Len(got), got)
CoreReadSomeAt(f, a, o, n) == CoreRest(f, a, o, n, Buffered(a, o, n))

CoreWriteSomeAt_KeepBuffer(f, a, o, w) ==
  {IF r.err = "ok" THEN R(r.f, [a EXCEPT !.size = Most(@, o + Len(r.out))], "ok", r.out)
   ELSE R(r.f, a, r.err, <<>>) : r \in OsdWrite(f, o, w)}
CoreWriteSomeAt(f, a, o, w) ==
  {IF r.err = "ok" THEN R(r.f, [a EXCEPT !.buffer = <<>>, !.size = Most(@, o + Len(r.out))], "ok", r.out)
   ELSE R(r.f, [a EXCEPT !.buffer = <<>>], r.err, <<>>) : r \in OsdWrite(f, o, w)}

CoreTruncate(f, a, n) ==
  {R(t.f, IF t.err = "ok" THEN [a EXCEPT !.size = n] ELSE a, t.err, <<>>) : t \in OsdTruncate(f, n)}
CoreFlush(f, a) == {R(g.f, [a EXCEPT !.buffer = <<>>], g.err, <<>>) : g \in OsdFlush(f)}

MemoryReadAt(f, a, o, n) ==
  {R(f, a, "ok", IF o < a.size
                 THEN [k \in 1..Least(a.size - o, n) |-> IF o + k <= Len(f.data) THEN f.data[o + k] ELSE Garbage]
                 ELSE <<>>)}
MemoryTruncate(f, a, n) ==
  {IF a.size < n THEN R(f, a, "io", <<>>) ELSE R(f, [a EXCEPT !.size = n], "ok", <<>>)}
=============================================================================
