------------------------------ MODULE Streams ------------------------------
(***************************************************************************)
(* The adapters of ioprocs.cpp, ioprocsfill.h and ioprocsvec.h that put    *)
(* one interface (random_read_write) over memory, a vector, a C stream, an *)
(* osd_file and, in chd_shim.cpp, an object of the Rust caller.  A method  *)
(* is the set of its outcomes: the host f and the adapter a afterwards,    *)
(* the error, and the bytes read or taken.                                 *)
(***************************************************************************)
EXTENDS Stdio, Integers

CONSTANTS Top,          \* the largest offset (2^64 - 1)
          Width,        \* sizeof(T) of a vector<T>, in bytes
          OsdSeekFails  \* whether a seek inside minimal_osd_file may fail

ASSUME WidthAssumption == Top \in Nat /\ Width \in Nat \ {0} /\ OsdSeekFails \in BOOLEAN

R(f, a, err, out) == [f |-> f, a |-> a, err |-> err, out |-> out]

\* The fields an adapter has: its pointer, the dangling flags of stdio, what it knows of
\* the size, the buffer of a core_osd_file and the filler.
Adapter(size, filler) ==
  [ptr |-> 0, dangling_read |-> TRUE, dangling_write |-> TRUE, size |-> size, elements |-> size \div Width,
   base |-> 0, buffer |-> <<>>, filler |-> filler]

\* seek of the adapters that keep a pointer of their own, from the start, the pointer or
\* the end.
PointerSeek(a, from, offset) ==
  IF from + offset \in 0..Top THEN [a |-> [a EXCEPT !.ptr = from + offset], err |-> "ok"]
  ELSE [a |-> a, err |-> "invalid"]

-----------------------------------------------------------------------------
(* RAM and vectors *)

RamReadAt(f, a, o, n) == {R(f, a, "ok", Piece(f.data, o, n))}

CheckResized(f, a) ==
  IF Len(f.data) \div Width # a.elements
  THEN [a EXCEPT !.elements = Len(f.data) \div Width, !.size = Len(f.data)] ELSE a

VecRead(f, a, o, n) == R(f, a, "ok", Piece(SubSeq(f.data, 1, a.size), o, n))
VecReadAt(f, a, o, n) == {VecRead(f, CheckResized(f, a), o, n)}

Grown(s, n) == s \o Repeat(0, n - Len(s))
Zeroed(s, from, to) == [k \in DOMAIN s |-> IF k > from /\ k <= to THEN 0 ELSE s[k]]

\* The storage s is what resize left of it, of a.elements elements; limit is as far as
\* the write gets in it.
VecStored(f, a, o, w, s, limit, err) ==
  LET took == IF limit > o THEN SubSeq(w, 1, limit - o) ELSE <<>>
      gap  == IF o > a.size THEN Least(Len(s), o) ELSE a.size
  IN  R([f EXCEPT !.data = Overlay(Zeroed(s, a.size, gap), o, took, 0)],
        [a EXCEPT !.elements = Len(s) \div Width, !.size = IF limit > o THEN Most(gap, limit) ELSE gap],
        IF err = "ok" /\ Len(took) < Len(w) THEN "nospace" ELSE err, took)
VecInPlace(f, a, o, w, target) ==
  R([f EXCEPT !.data = Overlay(@, o, w, 0)], [a EXCEPT !.size = IF w = <<>> THEN @ ELSE Most(@, target)], "ok", w)
VecWrite(f, a, o, w, target) ==
  LET required == ((target + Width - 1) \div Width) * Width IN
  IF target <= Len(f.data)
  THEN {VecInPlace(f, a, o, w, target)}
  ELSE {VecStored(f, a, o, w, Grown(f.data, required), target, "ok")}
         \union {VecStored(f, a, o, w, f.data, Least(target, Len(f.data)), "nomem") : e \in Faults \ {"interrupted"}}
VecWriteAt(f, a, o, w) == VecWrite(f, CheckResized(f, a), o, w, o + Len(w))

-----------------------------------------------------------------------------
(* stdio *)

Dangling(a, read, write) == [a EXCEPT !.dangling_read = read, !.dangling_write = write]

\* After fread and fwrite: the error indicator is cleared, and it is noted what the next
\* transfer the other way has to be kept apart from.
ReadDone(a, n, r) ==
  R(Clearerr(r.f), Dangling(a, Len(r.out) = n \/ r.err # "ok", a.dangling_write), r.err, r.out)
WriteDone(a, r) == R(Clearerr(r.f), Dangling(a, a.dangling_read, TRUE), r.err, r.out)
StdioRead(f, a, n) == {ReadDone(a, n, r) : r \in Fread(f, n)}
StdioWrite(f, a, w) == {WriteDone(a, r) : r \in Fwrite(f, w)}

\* The same once a seek s, or a flush g, has kept it apart.
NotDone(a, s) == {R(s.f, a, s.err, <<>>)}
ReadLocated(a, n, s) ==
  IF s.err = "ok" THEN StdioRead(s.f, Dangling(a, a.dangling_read, FALSE), n) ELSE NotDone(a, s)
WriteLocated(a, w, s) ==
  IF s.err = "ok" THEN StdioWrite(s.f, Dangling(a, FALSE, a.dangling_write), w) ELSE NotDone(a, s)
ReadFlushed(a, n, g) ==
  IF g.err = "ok" THEN StdioRead(g.f, Dangling(a, a.dangling_read, FALSE), n)
  ELSE {R(Clearerr(g.f), a, g.err, <<>>)}

\* The end of every method that saved the position: fsetpos, whose failure is reported
\* unless there was an error before.
RestoredBy(r, s) ==
  IF s.err = "ok" THEN R(s.f, Dangling(r.a, FALSE, FALSE), r.err, r.out)
  ELSE R(s.f, r.a, IF r.err = "ok" THEN s.err ELSE r.err, r.out)
Restored(r, old) == {RestoredBy(r, s) : s \in Fseek(r.f, old)}
AllRestored(rs, old) == UNION {Restored(r, old) : r \in rs}
NotLocated(f, a) == {R(f, a, e, <<>>) : e \in Faults}

StdioReadSome(f, a, n) ==
  IF ~a.dangling_write THEN StdioRead(f, a, n) ELSE UNION {ReadFlushed(a, n, g) : g \in Fflush(f)}

StdioReadSomeAt_Stays(f, a, o, n) == UNION {ReadLocated(a, n, s) : s \in Fseek(f, o)}
StdioReadSomeAt(f, a, o, n) ==
  NotLocated(f, a) \union UNION {AllRestored(ReadLocated(a, n, s), f.pos) : s \in Fseek(f, o)}

StdioWriteSome_NoSeek(f, a, w) == StdioWrite(f, a, w)
StdioWriteSome(f, a, w) ==
  IF ~a.dangling_read THEN StdioWrite(f, a, w) ELSE UNION {WriteLocated(a, w, s) : s \in Fseek(f, f.pos)}

StdioWriteSomeAt(f, a, o, w) ==
  NotLocated(f, a) \union UNION {AllRestored(WriteLocated(a, w, s), f.pos) : s \in Fseek(f, o)}

\* length: to the end and back; the answer is in out.
Measured(f, a, s) ==
  IF s.err = "ok" THEN {R(s.f, Dangling(a, FALSE, FALSE), "ok", <<Len(f.data)>>)} ELSE NotDone(a, s)
StdioLength(f, a) ==
  NotLocated(f, a) \union UNION {AllRestored(Measured(f, a, s), f.pos) : s \in Fseek(f, Len(f.data))}

StdioSeek(f, a, to) ==
  IF to \notin 0..Top THEN {R(f, a, "invalid", <<>>)} ELSE UNION {NotDone(a, s) : s \in Fseek(f, to)}

FlushDone(a, g) ==
  IF g.err = "ok" THEN R(g.f, Dangling(a, a.dangling_read, FALSE), "ok", <<>>)
  ELSE R(Clearerr(g.f), a, g.err, <<>>)
StdioFlush(f, a) == {FlushDone(a, g) : g \in Fflush(f)}

\* The filler's writes stand at the end first: behind it, the space in between is filled
\* (in blocks, which fail where one write of them all would); before it, they seek back.
FillDone(a, r) == R(r.f, Dangling(a, FALSE, TRUE), r.err, <<>>)
Filled(f, a, o) == {FillDone(a, r) : r \in Fwrite(f, Repeat(a.filler, o - f.pos))}
SeekBack(f, a, o) == UNION {NotDone(a, s) : s \in Fseek(f, o)}
GapClosed(f, a, o) ==
  IF o > f.pos THEN Filled(f, a, o) ELSE IF o < f.pos THEN SeekBack(f, a, o) ELSE {R(f, a, "ok", <<>>)}

GaveUp(r, s) ==
  R(Clearerr(s.f), IF s.err = "ok" THEN Dangling(r.a, FALSE, FALSE) ELSE r.a, r.err, <<>>)
GiveUp(r, o) == {GaveUp(r, s) : s \in Fseek(r.f, o)}
\* e is the seek to the end, g what closing the gap came to.
WriteBehind(f, g, w) ==
  IF g.err = "ok" THEN StdioWrite(g.f, g.a, w)
  ELSE IF f.pos > Len(f.data) THEN GiveUp(g, f.pos) ELSE {g}
FilledWrite(f, a, w, e) ==
  IF e.err # "ok" THEN GiveUp(R(e.f, a, e.err, <<>>), f.pos)
  ELSE UNION {WriteBehind(f, g, w) : g \in GapClosed(e.f, Dangling(a, FALSE, FALSE), f.pos)}
FillerWriteSome(f, a, w) == NotLocated(f, a) \union UNION {FilledWrite(f, a, w, e) : e \in Fseek(f, Len(f.data))}

WriteBehindAt(g, w) ==
  IF g.err = "ok" THEN StdioWrite(g.f, g.a, w) ELSE {R(Clearerr(g.f), g.a, g.err, <<>>)}
FilledWriteAt(a, o, w, e) ==
  IF e.err # "ok" THEN NotDone(a, e)
  ELSE UNION {WriteBehindAt(g, w) : g \in GapClosed(e.f, Dangling(a, FALSE, FALSE), o)}
FillerWriteSomeAt(f, a, o, w) ==
  NotLocated(f, a) \union UNION {AllRestored(FilledWriteAt(a, o, w, e), f.pos) : e \in Fseek(f, Len(f.data))}

-----------------------------------------------------------------------------
(* osd_file, and the Rust caller's object *)

\* minimal_osd_file: the result of the seek is not looked at, and the error indicator is
\* never cleared.
Transferred(r, n) == Out(r.f, IF r.err = "ok" /\ Len(r.out) < n /\ r.f.bad THEN "io" ELSE r.err, r.out)
OsdTransfer(rs, n) == {Transferred(r, n) : r \in rs}
OsdSeek(f, o) == {s \in Fseek(f, o) : s.err = "ok" \/ OsdSeekFails}
OsdRead(f, o, n) == UNION {OsdTransfer(Fread(s.f, n), n) : s \in OsdSeek(f, o)}
OsdWrite(f, o, w) == UNION {OsdTransfer(Fwrite(s.f, w), Len(w)) : s \in OsdSeek(f, o)}
OsdFlush(f) == {Out(g.f, "ok", <<>>) : g \in Fflush(f)}
OsdTruncate(f, n) ==
  {Out([f EXCEPT !.data = IF n <= Len(@) THEN SubSeq(@, 1, n) ELSE Grown(@, n)], "ok", <<>>)} \union Fail(f)

OsdReadAt(f, a, o, n) == {R(r.f, a, r.err, IF r.err = "ok" THEN r.out ELSE <<>>) : r \in OsdRead(f, o, n)}
OsdWriteAt(f, a, o, w) == {R(r.f, a, r.err, IF r.err = "ok" THEN r.out ELSE <<>>) : r \in OsdWrite(f, o, w)}

\* Read and Write of Rust take what they like of a request; a failed call leaves the
\* count of the shim uninitialised, so that any number of bytes is reported.
Taken(n) == IF n = 0 THEN {0} ELSE 1..n
RustReadAt(f, a, o, n) ==
  {R(f, a, "ok", Piece(f.data, o, k)) : k \in Taken(n)}
    \union {R(f, a, "io", Repeat(0, k)) : k \in {j \in {0, n} : Faults # {}}}
RustWriteAt(f, a, o, w) ==
  {R([f EXCEPT !.data = Overlay(@, o, SubSeq(w, 1, k), 0)], a, "ok", SubSeq(w, 1, k)) : k \in Taken(Len(w))}
    \union {R(f, a, "io", Repeat(0, k)) : k \in {j \in {0, Len(w)} : Faults # {}}}
RustSeek(a, from, offset) == [a |-> [a EXCEPT !.ptr = (from + offset) % (Top + 1)], err |-> "ok"]
=============================================================================
