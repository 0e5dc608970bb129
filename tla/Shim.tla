-------------------------------- MODULE Shim --------------------------------
(***************************************************************************)
(* The C functions between the crate and the C++ library (sys/chd_shim.cpp *)
(* and sys/cd_shim.cpp) and who owns what on either side of them.          *)
(*                                                                         *)
(* A behaviour is one function of the crate, a sequence of calls.  Any     *)
(* call may fail and those that allocate may throw; then the function      *)
(* returns and its locals are dropped, the last one first.  Left out,      *)
(* because nothing defined follows it: an allocation of the object itself  *)
(* that fails in Chd::new, ChdCompressor::new or Sha1Creator::new (the     *)
(* null pointer is used).  After a compress_begin that threw, of which     *)
(* nobody is told, compress_continue may come to anything.                 *)
(***************************************************************************)
EXTENDS Sequences, SequencesExt, FiniteSets

CONSTANT Functions_     \* the functions of the crate that are run

VARIABLES fun,      \* the function
          pc,       \* calls of it that were made
          locals,   \* what its frame owns, in the order of declaration
          state,    \* each thing: "none", "alive" or "freed"
          held,     \* the pointers each thing on the C++ side keeps
          result,   \* "running", "Ok" or the error it returns
          failed,   \* history: <<name, outcome>> of each call that ended in an error or an exception
          fault     \* history: a thing was used or freed when it was not alive
vars == <<fun, pc, locals, state, held, result, failed, fault>>

Boxes == {"io", "handler"}                                        \* of Rust, lent to C++ as raw pointers
Things == {"chd", "parent", "compressor", "toc", "cdrom", "sha1"} \cup Boxes

-----------------------------------------------------------------------------
(* What a call can come to, and what the crate sees of it *)

NoError == "NoError"
SHIM_ERR_EXCEPTION == "InvalidFile"
Failures == {"chd error", "other error", "throw", "no wrapper", "not text"}

\* Mutant: only errors of CHD files are errors.
ToChdError_OwnOnly(outcome) ==
  CASE outcome = "not found" -> "MetadataNotFound" [] outcome = "chd error" -> "InvalidData" [] OTHER -> NoError
\* A CHD error keeps its number, which the crate's enumeration has a name for; what
\* comes from elsewhere is an invalid file.
ToChdError(outcome) ==
  CASE outcome = "not found" -> "MetadataNotFound"
    [] outcome = "chd error" -> "InvalidData"
    [] outcome = "other error" -> "InvalidFile"
    [] OTHER -> NoError

\* Nothing that is thrown leaves the call.
Guard(outcome, value, fallback) == IF outcome \in {"throw", "no wrapper"} THEN fallback ELSE value

\* An entry point: what it answers with, its fallback, and how its body can end.
LOCAL Entry(name, answer, fallback, outcomes) ==
  [name |-> name, answer |-> answer, fallback |-> fallback, outcomes |-> {"done"} \cup outcomes]
LOCAL Code(name, outcomes) == Entry(name, "code", SHIM_ERR_EXCEPTION, outcomes)
LOCAL Pointer(name, outcomes) == Entry(name, "pointer", "null", outcomes)
LOCAL Number(name, outcomes) == Entry(name, "number", "0", outcomes)
LOCAL Void(name, outcomes) == Entry(name, "nothing", "", outcomes)
LOCAL AnyError == {"chd error", "other error", "throw"}

\* Not a call: the crate makes a C string of a path, which may not be one.
LOCAL Text(name) == Entry(name, "number", "0", {"not text"})
CuePath == Text("cue path")
FilePath == Text("file path")

chd_shim_alloc == Pointer("chd_shim_alloc", {})
chd_shim_free == Void("chd_shim_free", {})
chd_shim_open_file == Code("chd_shim_open_file", AnyError)
chd_shim_open_custom == Code("chd_shim_open_custom", AnyError \cup {"no wrapper"})
chd_shim_create_file == Code("chd_shim_create_file", AnyError)
chd_shim_create_file_with_parent == Code("chd_shim_create_file_with_parent", AnyError)
chd_shim_clone_all_metadata == Code("chd_shim_clone_all_metadata", AnyError)
chd_shim_unit_bytes == Number("chd_shim_unit_bytes", {"other"})       \* not the unit of a CD
chd_shim_read_hunk == Code("chd_shim_read_hunk", AnyError)
chd_shim_write_hunk == Code("chd_shim_write_hunk", AnyError)
chd_shim_read_bytes == Code("chd_shim_read_bytes", AnyError)
chd_shim_write_bytes == Code("chd_shim_write_bytes", AnyError)
chd_shim_read_metadata == Code("chd_shim_read_metadata", AnyError \cup {"not found"})
chd_shim_write_metadata == Code("chd_shim_write_metadata", AnyError)
chd_shim_delete_metadata == Code("chd_shim_delete_metadata", AnyError \cup {"not found"})
chd_shim_get_sha1 == Void("chd_shim_get_sha1", {})
chd_shim_hunk_info == Code("chd_shim_hunk_info", AnyError)
chd_shim_compressor_alloc == Pointer("chd_shim_compressor_alloc", {})
chd_shim_compressor_free == Void("chd_shim_compressor_free", {})
chd_shim_compressor_create_file == Code("chd_shim_compressor_create_file", AnyError)
chd_shim_compressor_begin == Void("chd_shim_compressor_begin", {"throw"})
chd_shim_compressor_continue == Code("chd_shim_compressor_continue", AnyError) \* "done" also stands for COMPRESSING
chd_shim_compression == Number("chd_shim_compression", {})
chd_shim_check_is == Number("chd_shim_check_is", AnyError \cup {"not found"}) \* a "no", whatever the error
chd_shim_metadata_enum == Code("chd_shim_metadata_enum", AnyError \cup {"not found"})
chd_shim_sha1_alloc == Pointer("chd_shim_sha1_alloc", {})
chd_shim_sha1_append == Void("chd_shim_sha1_append", {})
chd_shim_sha1_finish == Void("chd_shim_sha1_finish", {})
chd_shim_toc_alloc == Pointer("chd_shim_toc_alloc", {"throw"})
chd_shim_toc_parse == Code("chd_shim_toc_parse", AnyError)
chd_shim_toc_logical_bytes == Number("chd_shim_toc_logical_bytes", {"other"}) \* no tracks
chd_shim_cd_compressor_alloc == Pointer("chd_shim_cd_compressor_alloc", {"throw"})
chd_shim_cd_write_metadata == Code("chd_shim_cd_write_metadata", AnyError)
chd_shim_cdrom_open == Pointer("chd_shim_cdrom_open", {"throw"})
chd_shim_cdrom_get_track == Void("chd_shim_cdrom_get_track", {})
chd_shim_cdrom_read_data == Number("chd_shim_cdrom_read_data", AnyError)

-----------------------------------------------------------------------------
(* Dropping *)

\* What goes with a thing, in order.  ~RustRandomReadWrite closes the box; Drop for
\* ChdCompressor frees the handler's box after the compressor, whose destructor waits
\* for reads through it.
Destructor(s, t) ==
  IF t = "compressor" /\ "handler" \in s.held[t] THEN <<t, "handler">>
  ELSE IF t = "chd" /\ "io" \in s.held[t] THEN <<t, "io">> ELSE <<t>>

LOCAL Alive(s, things) == \A t \in things : s.state[t] = "alive"
LOCAL Freed1(s, t) ==
  [s EXCEPT !.state[t] = "freed",
            !.fault = @ \/ s.state[t] # "alive" \/ (t = "compressor" /\ ~Alive(s, s.held[t]))]
LOCAL Freed(s, t) == FoldLeft(Freed1, s, Destructor(s, t))

\* Locals are dropped from the last to the first.
LOCAL Unwound(s) == [FoldRight(LAMBDA t, r : Freed(r, t), s.locals, s) EXCEPT !.locals = <<>>]

\* Everything a call on t reads through.
LOCAL Reach(s, t) == {t} \cup s.held[t] \cup UNION {s.held[u] : u \in s.held[t]}
LOCAL Used(s, t) == [s EXCEPT !.fault = @ \/ ~Alive(s, Reach(s, t))]

-----------------------------------------------------------------------------
(* The crate's functions.  "zero" is the error the crate makes of a null pointer or of *)
(* a number that is not the one it needs, "end" an error code that is none to it.      *)

LOCAL Step(kind, entry, t, keeps, zero, end) ==
  [kind |-> kind, entry |-> entry, thing |-> t, keeps |-> keeps, zero |-> zero, end |-> end]
LOCAL New(entry, t, keeps, zero) == Step("new", entry, t, keeps, zero, NoError)
LOCAL Call(entry, t) == Step("call", entry, t, {}, NoError, NoError)
LOCAL Ask(entry, t, zero) == Step("call", entry, t, {}, zero, NoError)
LOCAL Walk(entry, t, end) == Step("call", entry, t, {}, NoError, end)
LOCAL Open(entry, t, keeps) == Step("keep", entry, t, keeps, NoError, NoError)
LOCAL Own(entry, t) == Step("own", entry, t, {}, NoError, NoError)
LOCAL Raw(entry, t, zero) == Step("raw", entry, t, {}, zero, NoError)
LOCAL Path(entry) == Step("path", entry, "", {}, "InvalidFile", NoError)
LOCAL Box(t) == Step("box", Void("Box::into_raw", {}), t, {}, NoError, NoError)
LOCAL Drop(t) == Step("drop", Void("drop", {}), t, {}, NoError, NoError)

\* Chd::open, Chd::create, Chd::create_with_parent: the object, the path, then the file.
ChdOpen(t, entry, keeps) == <<New(chd_shim_alloc, t, {}, NoError), Path(FilePath), Open(entry, t, keeps)>>
OpenCustom == <<New(chd_shim_alloc, "chd", {}, NoError), Box("io"), Open(chd_shim_open_custom, "chd", {"io"}),
                Call(chd_shim_hunk_info, "chd"), Call(chd_shim_read_hunk, "chd"), Call(chd_shim_write_bytes, "chd")>>
Info == ChdOpen("chd", chd_shim_open_file, {}) \o
        <<Call(chd_shim_compression, "chd"), Walk(chd_shim_metadata_enum, "chd", "MetadataNotFound"),
          Call(chd_shim_check_is, "chd"), Call(chd_shim_get_sha1, "chd")>>
Edit == ChdOpen("chd", chd_shim_create_file, {}) \o
        <<Call(chd_shim_write_hunk, "chd"), Call(chd_shim_write_metadata, "chd"), Call(chd_shim_read_metadata, "chd"),
          Call(chd_shim_delete_metadata, "chd")>>
Verify == ChdOpen("chd", chd_shim_open_file, {}) \o
          <<New(chd_shim_sha1_alloc, "sha1", {}, NoError), Call(chd_shim_read_bytes, "chd"), Call(chd_shim_sha1_append, "sha1"),
            Call(chd_shim_sha1_finish, "sha1"), Call(chd_shim_get_sha1, "chd")>>
\* HdImage: the difference is made and closed, then both are opened again; of the value
\* that is returned, the difference is dropped before its parent.
ReopenDiff == ChdOpen("parent", chd_shim_open_file, {}) \o ChdOpen("chd", chd_shim_open_file, {"parent"}) \o
              <<Call(chd_shim_read_metadata, "chd"), Call(chd_shim_write_bytes, "chd"), Call(chd_shim_read_bytes, "chd")>>
OpenWithDiff == ChdOpen("parent", chd_shim_open_file, {}) \o ChdOpen("chd", chd_shim_create_file_with_parent, {"parent"}) \o
                <<Call(chd_shim_clone_all_metadata, "chd"), Drop("chd"), Drop("parent")>> \o ReopenDiff
\* run_compression owns the compressor.
RunCompression == <<Call(chd_shim_compressor_begin, "compressor"), Call(chd_shim_compressor_continue, "compressor"),
                    Call(chd_shim_compressor_continue, "compressor"), Drop("compressor")>>
CreateStreaming == <<Box("handler"), New(chd_shim_compressor_alloc, "compressor", {"handler"}, NoError),
                     Path(FilePath), Call(chd_shim_compressor_create_file, "compressor"), Call(chd_shim_write_metadata, "compressor")>> \o RunCompression
\* Toc::parse: a bare pointer until the sheet is read; its path is converted in between.
ParseToc == <<Raw(chd_shim_toc_alloc, "toc", "InvalidFile"), Path(CuePath), Own(chd_shim_toc_parse, "toc"),
              Ask(chd_shim_toc_logical_bytes, "toc", "InvalidData")>>
LOCAL CdCompressor == <<New(chd_shim_cd_compressor_alloc, "compressor", {"toc"}, "InvalidFile"), Path(FilePath),
                        Call(chd_shim_compressor_create_file, "compressor"), Call(chd_shim_cd_write_metadata, "compressor"),
                        Call(chd_shim_write_metadata, "compressor")>>
\* Mutant: the table of contents goes when its metadata is written.
CreateFromCue_TocFirst == ParseToc \o CdCompressor \o <<Drop("toc")>> \o RunCompression
\* The compressor refers to the table of contents until it is freed.
CreateFromCue == ParseToc \o CdCompressor \o RunCompression \o <<Drop("toc")>>
\* CdCookedReader: list_tracks looks at the disc and closes it; the reader opens it
\* again, and its Drop frees it before the field with the CHD goes.
CookedReader ==
  LET disc == <<Ask(chd_shim_unit_bytes, "chd", "NotCdMedia"), New(chd_shim_cdrom_open, "cdrom", {"chd"}, "InvalidData")>> IN
  ChdOpen("chd", chd_shim_open_file, {}) \o disc \o <<Call(chd_shim_cdrom_get_track, "cdrom"), Drop("cdrom")>> \o disc \o
  <<Ask(chd_shim_cdrom_read_data, "cdrom", "InvalidData")>>

Body(f) ==
  CASE f = "open_custom" -> OpenCustom [] f = "info" -> Info [] f = "edit" -> Edit [] f = "verify" -> Verify
    [] f = "open_with_diff" -> OpenWithDiff [] f = "reopen_diff" -> ReopenDiff [] f = "create" -> CreateStreaming
    [] f = "create_from_cue" -> CreateFromCue [] f = "cooked_reader" -> CookedReader

-----------------------------------------------------------------------------
(* One call *)

\* What the crate makes of the answer.
LOCAL Answer(c, outcome) ==
  LET e == c.entry IN
  CASE e.answer = "code" -> LET code == Guard(outcome, ToChdError(outcome), e.fallback) IN
                            IF code = c.end THEN NoError ELSE code
    [] e.answer = "pointer" -> IF Guard(outcome, "it", e.fallback) = "null" THEN c.zero ELSE NoError
    [] e.answer = "number" -> IF Guard(outcome, outcome, e.fallback) = "done" THEN NoError ELSE c.zero
    [] OTHER -> NoError

\* Mutant: a file that is refused forgets the wrapper.
OpenCustomEffect_Forgets(s, outcome) ==
  IF outcome \in {"done", "throw"} THEN [s EXCEPT !.held["chd"] = {"io"}] ELSE s
\* open_custom: the wrapper owns the box as soon as there is one; without one, nobody
\* does.  A file that is refused is closed at once; after an exception the object still
\* has it.
OpenCustomEffect(s, outcome) ==
  CASE outcome = "no wrapper" -> s
    [] outcome \in {"done", "throw"} -> [s EXCEPT !.held["chd"] = {"io"}]
    [] OTHER -> Freed1(s, "io")

\* Mutant: a table that could not be filled is nobody's.
OwnEffect_NoFree(s, t, outcome) == IF outcome = "done" THEN [s EXCEPT !.locals = Append(@, t)] ELSE s
\* A table that was filled gets its owner; one that could not be is freed at once.
OwnEffect(s, t, outcome) == IF outcome = "done" THEN [s EXCEPT !.locals = Append(@, t)] ELSE Freed1(s, t)

\* The effect of a call on what there is.  A constructor that throws frees what it made.
LOCAL Effect(s, c, outcome) ==
  LET t == c.thing
      r == [s EXCEPT !.failed = @ \cup (IF outcome \in Failures THEN {<<c.entry.name, outcome>>} ELSE {})] IN
  CASE c.kind = "new"  -> IF outcome # "done" THEN r
                          ELSE [r EXCEPT !.state[t] = "alive", !.held[t] = c.keeps, !.locals = Append(@, t)]
    [] c.kind = "raw"  -> IF outcome # "done" THEN r ELSE [r EXCEPT !.state[t] = "alive"]
    [] c.kind = "own"  -> OwnEffect(Used(r, t), t, outcome)
    [] c.kind = "path" -> r
    [] c.kind = "box"  -> [r EXCEPT !.state[t] = "alive"]
    [] c.kind = "keep" -> IF c.entry = chd_shim_open_custom THEN OpenCustomEffect(Used(r, t), outcome)
                          ELSE [Used(r, t) EXCEPT !.held[t] = IF outcome \in {"done", "throw"} THEN c.keeps ELSE {}]
    [] c.kind = "call" -> Used(r, t)
    [] c.kind = "drop" -> [Freed(r, t) EXCEPT !.locals = SelectSeq(@, LAMBDA u : u # t)]

LOCAL Now == [state |-> state, held |-> held, locals |-> locals, failed |-> failed, fault |-> fault]
LOCAL Becomes(s) == state' = s.state /\ held' = s.held /\ locals' = s.locals /\ failed' = s.failed /\ fault' = s.fault

Init == /\ fun \in Functions_ /\ pc = 0 /\ locals = <<>> /\ result = "running"
        /\ failed = {} /\ fault = FALSE
        /\ state = [t \in Things |-> "none"] /\ held = [t \in Things |-> {}]

\* A call that comes back well, or whose answer the crate does not take for an error.
Proceed ==
  /\ result = "running" /\ pc < Len(Body(fun))
  /\ LET c == Body(fun)[pc + 1] IN
     \E outcome \in c.entry.outcomes : Answer(c, outcome) = NoError /\ Becomes(Effect(Now, c, outcome))
  /\ pc' = pc + 1
  /\ UNCHANGED <<fun, result>>

\* A call that gives an error: the function returns it.
Fail ==
  /\ result = "running" /\ pc < Len(Body(fun))
  /\ LET c == Body(fun)[pc + 1] IN
     \E outcome \in c.entry.outcomes : /\ Answer(c, outcome) # NoError /\ result' = Answer(c, outcome)
                                        /\ Becomes(Unwound(Effect(Now, c, outcome)))
  /\ UNCHANGED <<fun, pc>>

\* The end: what was made is dropped, by the function or with the value it returned.
Return ==
  /\ result = "running" /\ pc = Len(Body(fun))
  /\ result' = "Ok" /\ Becomes(Unwound(Now))
  /\ UNCHANGED <<fun, pc>>

Next == Proceed \/ Fail \/ Return
Spec == Init /\ [][Next]_vars

-----------------------------------------------------------------------------
(* Properties *)

\* Whatever call fails, nothing is used, read through or freed after it was freed: the
\* parent of a difference, the table of contents and the reader behind a compressor and
\* the CHD behind a disc all outlive those that keep a pointer to them (lib.rs:764,
\* hd.rs:316, cd.rs:276).
NoUseAfterFree == ~fault

\* When the function is over and its value is gone, everything that was made was freed,
\* whichever call failed, with two exceptions the code has: the reader's box when its
\* wrapper could not be allocated (chd_shim.cpp:139), and the table of contents when the
\* path of the sheet is no C string (cd.rs:140), which returns between the allocation and
\* the value that would free it.  A path that is refused later, or a sheet, loses nothing.
NothingLeaks ==
  result # "running" =>
    \A t \in Things : \/ state[t] \in {"none", "freed"}
                      \/ t = "io" /\ <<"chd_shim_open_custom", "no wrapper">> \in failed
                      \/ t = "toc" /\ <<"cue path", "not text">> \in failed

\* The calls whose failures nobody hears of: check_is answers "no" to any error
\* (chd_shim.cpp:328) and compress_begin returns nothing (chd_shim.cpp:290).
Deaf == {"chd_shim_check_is", "chd_shim_compressor_begin"}

\* A function that returns Ok met an error or an exception in no call but those two:
\* neither the conversion of error codes nor the guards nor what the crate makes of null
\* pointers and numbers turns a failure into a success (chd_shim.cpp:107, shim_guard.h:61).
FailuresReported == result = "Ok" => \A f \in failed : f[1] \in Deaf
=============================================================================
