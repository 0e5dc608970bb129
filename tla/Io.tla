--------------------------------- MODULE Io ---------------------------------
(***************************************************************************)
(* A client of one adapter: the helpers of ioprocs.cpp that repeat a       *)
(* transfer until it is whole, the wrappers of ioprocsfill.h, and          *)
(* core_file::load.  One step is one call of an adapter's method; hosts    *)
(* transfer less than asked, are interrupted and fail.                     *)
(***************************************************************************)
EXTENDS CoreFile, FiniteSets

CONSTANTS Kinds,        \* the adapters
          Initial,      \* the bytes a file has when it is opened
          OpenFlags,    \* how a file is opened
          Offsets,      \* where transfers are aimed
          Targets,      \* where seeks are aimed: whence and offset
          Lengths,      \* how much is read
          Payloads,     \* what is written
          PastEnd,      \* the adapters whose position may lie behind the end
          OutOfRange,   \* the adapters whose client tries positions that do not exist
          CutBuffered,  \* whether a core_osd_file is truncated while its buffer has bytes
          ZeroFiller,   \* the filler of the adapters that fill
          MaxCalls      \* calls of a behaviour

AllKinds == {"ram", "ramfill", "ramcopyfill", "vec", "vecfill", "stdio", "filler", "osd", "rust",
             "core", "proxy", "memory"}

ASSUME KindAssumption == Kinds \subseteq AllKinds
ASSUME BytesAssumption == Initial \in Seq(Nat) /\ Payloads \subseteq Seq(Nat) /\ ZeroFiller \in Nat
\* A vector holds whole elements.
ASSUME VectorAssumption == Kinds \intersect {"vec", "vecfill"} # {} => Len(Initial) % Width = 0
ASSUME PlaceAssumption == /\ Offsets \subseteq Nat /\ Lengths \subseteq Nat /\ MaxCalls \in Nat
                          /\ Targets \subseteq {"set", "cur", "end"} \X Int

VARIABLES kind, f, a, call, calls
vars == <<kind, f, a, call, calls>>

Rams == {"ram", "ramfill", "ramcopyfill"}
Filling == {"ramfill", "ramcopyfill", "vecfill", "filler"}
ReadOnly == Rams \union {"memory"}
Proxied == {"core", "proxy"}         \* core_proxy_file forwards every call
Vectors == {"vec", "vecfill"}
Stdios == {"stdio", "filler"}

\* The filler each factory sets; ram_read_copy does not set the one it is given, and
\* leaves the wrapper's default.
FillerOf(k) == IF k \in Filling \ {"ramcopyfill"} THEN ZeroFiller ELSE 0

\* The file as a reader from the start sees it, and the position of the next transfer.
Contents == CASE kind \in Vectors -> SubSeq(f.data, 1, CheckResized(f, a).size)
              [] kind = "memory" -> SubSeq(f.data, 1, Least(a.size, Len(f.data)))
              [] OTHER -> f.data
Position == IF kind \in Stdios THEN f.pos ELSE a.ptr

-----------------------------------------------------------------------------
(* The methods of an adapter *)

ReadSomeAt(o, n) ==
  CASE kind \in Rams -> RamReadAt(f, a, o, n)
    [] kind \in Vectors -> VecReadAt(f, a, o, n)
    [] kind \in Stdios  -> StdioReadSomeAt(f, a, o, n)
    [] kind = "osd"     -> OsdReadAt(f, a, o, n)
    [] kind = "rust"    -> RustReadAt(f, a, o, n)
    [] kind \in Proxied -> CoreReadSomeAt(f, a, o, n)
    [] kind = "memory"  -> MemoryReadAt(f, a, o, n)

\* read_some where the adapter has a pointer: at the pointer, which moves on.
Moved(r) == R(r.f, IF kind \in Proxied \union {"memory"} THEN AddOffset(r.a, Len(r.out))
                  ELSE [r.a EXCEPT !.ptr = @ + Len(r.out)], r.err, r.out)
ReadSome(n) ==
  IF kind \in Stdios THEN StdioReadSome(f, a, n) ELSE {Moved(r) : r \in ReadSomeAt(a.ptr, n)}

\* random_write_fill_wrapper: what lies between the end and o is written first.
FillWrapperWrite(o, w) ==
  LET b == CheckResized(f, a) IN
  IF b.size >= o THEN VecWriteAt(f, b, o, w)
  ELSE UNION {IF g.err = "ok" THEN VecWriteAt(g.f, g.a, o, w) ELSE {R(g.f, g.a, g.err, <<>>)}
                : g \in VecWriteAt(f, b, b.size, Repeat(b.filler, o - b.size))}

WriteSomeAt(o, w) ==
  CASE kind = "vec"     -> VecWriteAt(f, a, o, w)
    [] kind = "vecfill" -> FillWrapperWrite(o, w)
    [] kind = "stdio"   -> StdioWriteSomeAt(f, a, o, w)
    [] kind = "filler"  -> FillerWriteSomeAt(f, a, o, w)
    [] kind = "osd"     -> OsdWriteAt(f, a, o, w)
    [] kind = "rust"    -> RustWriteAt(f, a, o, w)
    [] kind \in Proxied -> CoreWriteSomeAt(f, a, o, w)
    [] kind \in ReadOnly -> {R(f, a, "badf", <<>>)}

WriteSome(w) ==
  CASE kind = "stdio"  -> StdioWriteSome(f, a, w)
    [] kind = "filler" -> FillerWriteSome(f, a, w)
    [] OTHER -> {Moved(r) : r \in WriteSomeAt(a.ptr, w)}

\* length, whose answer is in out.
Asked(b, n) == R(f, b, "ok", <<n>>)
VecLength == {Asked(CheckResized(f, a), CheckResized(f, a).size)}
RustLength == {Asked(a, Len(f.data))} \union {R(f, a, "io", <<>>) : e \in Faults}
LengthOf ==
  CASE kind \in Stdios -> StdioLength(f, a)
    [] kind = "osd" -> {R(f, a, "unsupported", <<>>)}
    [] kind \in Vectors -> VecLength
    [] kind = "rust" -> RustLength
    [] OTHER -> {Asked(a, a.size)}

\* seek, from the start, the position or the end.
From(whence, end) == CASE whence = "set" -> 0 [] whence = "cur" -> Position [] OTHER -> end
Gone(s) == R(f, s.a, s.err, <<>>)
RamSeek(whence, offset) == {Gone(PointerSeek(a, From(whence, a.size), offset))}
VecSeek(whence, offset) ==
  {Gone(PointerSeek(IF whence = "end" THEN l.a ELSE a, From(whence, l.out[1]), offset)) : l \in VecLength}
OsdAdapterSeek(whence, offset) ==
  {IF whence = "end" THEN R(f, a, "invalid", <<>>) ELSE Gone(PointerSeek(a, From(whence, 0), offset))}
CoreSeek(whence, offset) == {Gone(PointerSeek(a, From(whence, a.size), offset))}
RustSeekTo(whence, offset) ==
  IF whence = "end" THEN {IF l.err = "ok" THEN Gone(RustSeek(a, l.out[1], offset)) ELSE l : l \in RustLength}
  ELSE {Gone(RustSeek(a, From(whence, 0), offset))}
Seeks(whence, offset) ==
  CASE kind \in Stdios -> StdioSeek(f, a, offset + From(whence, Len(f.data)))
    [] kind \in Rams -> RamSeek(whence, offset)
    [] kind \in Vectors -> VecSeek(whence, offset)
    [] kind = "osd" -> OsdAdapterSeek(whence, offset)
    [] kind = "rust" -> RustSeekTo(whence, offset)
    [] OTHER -> CoreSeek(whence, offset)

FlushOf == CASE kind \in Stdios -> StdioFlush(f, a)
             [] kind = "osd" -> {R(g.f, a, g.err, <<>>) : g \in OsdFlush(f)}
             [] kind \in Proxied -> CoreFlush(f, a)
             [] OTHER -> {R(f, a, "ok", <<>>)}
TruncateOf(n) == IF kind = "memory" THEN MemoryTruncate(f, a, n) ELSE CoreTruncate(f, a, n)

-----------------------------------------------------------------------------
(* The calls of the client *)

Idle == [phase |-> "idle", op |-> "none", o |-> 0, n |-> 0, w |-> <<>>, moved |-> 0, got |-> <<>>,
         err |-> "ok", last |-> "ok"]
Call(op, o, n, w) == [Idle EXCEPT !.phase = "busy", !.op = op, !.o = o, !.n = n, !.w = w]
Answer(op, o, r) == [Idle EXCEPT !.phase = "back", !.op = op, !.o = o, !.got = r.out, !.err = r.err]
Effect(r) == f' = r.f /\ a' = r.a

\* What the open of each kind of file makes of the bytes it is given; the client, which
\* writes, opens an osd_file for writing.
Opened(flags) ==
  CASE kind \in Proxied \union {"osd"} -> {OsdOpen(TRUE, Initial, flags).f : w \in flags \intersect {"write"}}
    [] kind = "memory" -> {Stream(Initial) : e \in OpenRam(Initial, flags, TRUE) \intersect {"ok"}}
    [] OTHER -> {Stream(Initial)}

Init == /\ kind \in Kinds
        /\ \E flags \in OpenFlags : f \in Opened(flags)
        /\ a = Adapter(Len(f.data), FillerOf(kind))
        /\ call = Idle /\ calls = 0

NewCall == /\ call.phase # "busy" /\ calls < MaxCalls
                 /\ calls' = calls + 1 /\ UNCHANGED kind

Read(n) == NewCall /\ call' = Call("read", Position, n, <<>>) /\ UNCHANGED <<f, a>>
ReadAt(o, n) == NewCall /\ call' = Call("read_at", o, n, <<>>) /\ UNCHANGED <<f, a>>
Write(w) == /\ NewCall /\ Position + Len(w) <= Top
            /\ call' = Call("write", Position, Len(w), w) /\ UNCHANGED <<f, a>>
WriteAt(o, w) == NewCall /\ call' = Call("write_at", o, Len(w), w) /\ UNCHANGED <<f, a>>

\* load opens the file again and reads as many bytes as it then has.
Load == /\ NewCall /\ kind = "core"
        /\ f' = Stream(f.data) /\ a' = Adapter(Len(f.data), 0)
        /\ call' = Call("load", 0, Len(f.data), <<>>)

\* What is to be done after a method of the adapter gave r: the helpers go on until
\* nothing is left, nothing came or an error other than an interruption did; a filling
\* wrapper reports the last error and gives the rest of the buffer the filler.
GoesOn_StopShort(r, moved) == moved < call.n /\ r.err = "interrupted"
GoesOn_NoEndCheck(r, moved) == moved < call.n /\ r.err \in {"ok", "interrupted"}
GoesOn(r, moved) == moved < call.n /\ (r.err = "interrupted" \/ (r.err = "ok" /\ (r.out # <<>> \/ call.w # <<>>)))
Verdict(r, moved) ==
  CASE call.op = "load" /\ r.err \in {"ok", "interrupted"} -> IF moved = call.n THEN "ok" ELSE "io"
    [] kind \in Filling /\ call.w = <<>> -> r.err
    [] OTHER -> IF r.err = "interrupted" THEN "ok" ELSE r.err
Continued(c, r, moved) ==
  [c EXCEPT !.moved = moved, !.last = r.err,
            !.phase = IF GoesOn(r, moved) THEN "busy" ELSE "back",
            !.err = IF GoesOn(r, moved) THEN "ok" ELSE Verdict(r, moved)]
AfterRead(c, r) ==
  LET d == Continued([c EXCEPT !.got = SubSeq(@, 1, c.moved) \o r.out], r, c.moved + Len(r.out)) IN
  IF kind \in Filling /\ d.phase = "back" /\ d.moved < d.n
  THEN [d EXCEPT !.got = @ \o Repeat(a.filler, d.n - d.moved)] ELSE d
AfterWrite(c, r) == Continued(c, r, c.moved + Len(r.out))

Left(c) == c.n - c.moved
Transfers ==
  CASE call.op = "read" -> ReadSome(Left(call))
    [] call.op = "load" -> ReadSome(Left(call))
    [] call.op = "read_at" -> ReadSomeAt(call.o + call.moved, Left(call))
    [] call.op = "write" -> WriteSome(SubSeq(call.w, call.moved + 1, call.n))
    [] call.op = "write_at" -> WriteSomeAt(call.o + call.moved, SubSeq(call.w, call.moved + 1, call.n))

Step(r) == /\ Effect(r) /\ UNCHANGED <<kind, calls>>
                 /\ call' = IF call.w = <<>> THEN AfterRead(call, r) ELSE AfterWrite(call, r)
Transfer == call.phase = "busy" /\ \E r \in Transfers : Step(r)
\* A transfer that no signal interrupts.
Undisturbed == call.phase = "busy" /\ \E r \in Transfers : r.err # "interrupted" /\ Step(r)

\* A core_file seeks from the end it knows, which a failed write may have moved.
Base(whence) == From(whence, IF kind \in Proxied THEN a.size ELSE Len(Contents))
Seek(whence, offset) ==
  /\ NewCall
  /\ kind \in PastEnd \/ Base(whence) + offset <= Len(Contents)
  /\ kind \in OutOfRange \/ Base(whence) + offset \in 0..Top
  /\ \E r \in Seeks(whence, offset) : Effect(r) /\ call' = Answer("seek", Base(whence) + offset, r)
Length == NewCall /\ \E r \in LengthOf : Effect(r) /\ call' = Answer("length", 0, r)
Flush == NewCall /\ \E r \in FlushOf : Effect(r) /\ call' = Answer("flush", 0, r)
Truncate(n) == /\ NewCall /\ kind \in Proxied \union {"memory"}
               /\ kind \in PastEnd \/ Position <= n
               /\ CutBuffered \/ a.buffer = <<>>
               /\ \E r \in TruncateOf(n) : Effect(r) /\ call' = Answer("truncate", n, r)

\* The owner of a vector gives it another size; another process cuts a file being loaded.
ResizeVector(n) == /\ NewCall /\ kind \in Vectors
                   /\ f' = [f EXCEPT !.data = [k \in 1..(n * Width) |-> IF k <= Len(@) THEN @[k] ELSE 0]]
                   /\ call' = [Idle EXCEPT !.op = "truncate"] /\ UNCHANGED a
CutWhileLoading == /\ call.phase = "busy" /\ call.op = "load" /\ Len(f.data) > 1
                   /\ f' = [f EXCEPT !.data = SubSeq(@, 1, 1)]
                   /\ UNCHANGED <<kind, a, call, calls>>

Done == call.phase # "busy" /\ calls = MaxCalls /\ UNCHANGED vars

Next == \/ \E n \in Lengths : Read(n) \/ \E o \in Offsets : ReadAt(o, n)
        \/ \E w \in Payloads : Write(w) \/ \E o \in Offsets : WriteAt(o, w)
        \/ \E t \in Targets : Seek(t[1], t[2])
        \/ \E o \in Offsets : Truncate(o) \/ ResizeVector(o)
        \/ Load \/ Transfer \/ Length \/ Flush \/ CutWhileLoading \/ Done

\* The machine runs, and no signal interrupts every retry.
Spec == Init /\ [][Next]_vars /\ WF_vars(Transfer) /\ SF_vars(Undisturbed)

-----------------------------------------------------------------------------
\* The flags m_dangling_read and m_dangling_write keep input and output of a C stream
\* apart, on every path of every method, after errors too.
NoUndefinedStdio == ~f.undefined

\* A read that reports success is short at the end of the file only, however the host cut
\* it up or interrupted it; a filling wrapper always fills the buffer.
ShortOnlyAtEnd ==
  call.phase = "back" /\ call.op \in {"read", "read_at", "load"} =>
    /\ call.err = "ok" => call.moved = call.n \/ call.o + call.moved >= Len(Contents)
    /\ kind \in Filling => /\ Len(call.got) = call.n
                           /\ \A k \in (call.moved + 1)..call.n : call.got[k] = FillerOf(kind)

\* Every call comes back: the loops of the helpers and of the wrappers end.
CallsReturn == (call.phase = "busy") ~> (call.phase # "busy")

\* Every adapter is an array of bytes with a position.
Abstract == INSTANCE ByteStream WITH bytes <- Contents, pos <- Position, Filler <- FillerOf
IsByteStream == Abstract!Spec
=============================================================================
