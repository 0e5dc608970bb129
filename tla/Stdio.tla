------------------------------- MODULE Stdio -------------------------------
(***************************************************************************)
(* A C stream as ioprocs.cpp and minimal_osd.cpp use one (external code):  *)
(* the bytes, the position, the error indicator, and what the last         *)
(* operation was, since the standard leaves undefined an input right after *)
(* an output, and an output right after an input that did not meet the end *)
(* of the file.  A call is the set of its possible outcomes.               *)
(***************************************************************************)
EXTENDS Naturals, Sequences

CONSTANT Faults     \* the errors a call of the host may fail with

ASSUME FaultAssumption == "ok" \notin Faults

Least(a, b) == IF a < b THEN a ELSE b
Most(a, b) == IF a < b THEN b ELSE a
Piece(s, o, n) == IF o >= Len(s) THEN <<>> ELSE SubSeq(s, o + 1, Least(o + n, Len(s)))
Repeat(b, n) == [k \in 1..n |-> b]

\* The bytes s once w was written at o; what lies between the end and o holds the filler.
Overlay(s, o, w, filler) ==
  IF w = <<>> THEN s
  ELSE [k \in 1..Most(Len(s), o + Len(w)) |->
          IF k > o /\ k <= o + Len(w) THEN w[k - o] ELSE IF k <= Len(s) THEN s[k] ELSE filler]

Stream(bytes) == [data |-> bytes, pos |-> 0, last |-> "none", bad |-> FALSE, undefined |-> FALSE]
Out(f, err, out) == [f |-> f, err |-> err, out |-> out]
Fail(f) == {Out(f, e, <<>>) : e \in Faults}

Fseek(f, p) == {Out([f EXCEPT !.pos = p, !.last = "none"], "ok", <<>>)} \union Fail(f)

Errored(f) == [f EXCEPT !.bad = TRUE]
Clearerr(f) == [f EXCEPT !.bad = FALSE]

AfterInput(f, k, last) == [f EXCEPT !.pos = @ + k, !.last = last, !.undefined = @ \/ f.last = "out"]
WholeInput(f, n, in) == Out(AfterInput(f, Len(in), IF Len(in) < n THEN "none" ELSE "in"), "ok", in)
CutInput(f, in, k, e) == Out(Errored(AfterInput(f, k, "in")), e, SubSeq(in, 1, k))
Input(f, n, in) ==
  {WholeInput(f, n, in)} \union {CutInput(f, in, k, e) : k \in 0..Least(Len(in), n - 1), e \in Faults}
Fread(f, n) == IF n = 0 THEN {Out(f, "ok", <<>>)} ELSE Input(f, n, Piece(f.data, f.pos, n))

AfterOutput(f, w) ==
  [f EXCEPT !.data = Overlay(@, f.pos, w, 0), !.pos = @ + Len(w), !.last = "out", !.undefined = @ \/ f.last = "in"]
CutOutput(f, w, k, e) == Out(Errored(AfterOutput(f, SubSeq(w, 1, k))), e, SubSeq(w, 1, k))
Fwrite(f, w) ==
  IF w = <<>> THEN {Out(f, "ok", w)}
  ELSE {Out(AfterOutput(f, w), "ok", w)} \union {CutOutput(f, w, k, e) : k \in 0..(Len(w) - 1), e \in Faults}

Fflush(f) == {Out([f EXCEPT !.last = IF @ = "out" THEN "none" ELSE @], "ok", <<>>)}
               \union {Out(Errored(f), e, <<>>) : e \in Faults}
=============================================================================
