---------------------------- MODULE ByteStream -----------------------------
(***************************************************************************)
(* What every adapter promises: an array of bytes with a position.  A call *)
(* moves bytes in one or more steps; a step that succeeds moves exactly    *)
(* the bytes of its place in the array, and leaves the position behind     *)
(* them or, for a call that names its offset, where it was.  A step that   *)
(* fails may leave any part of its own range written.                      *)
(***************************************************************************)
EXTENDS Integers, Sequences

CONSTANTS Top, Filler(_)
VARIABLES kind, bytes, pos, call
vars == <<kind, bytes, pos, call>>

Positional == {"read_at", "write_at"}
At(c, p) == IF c.op \in Positional THEN c.o + c.moved ELSE p
Busy == call.phase = "busy"
Same(c, d) == /\ c.op = d.op /\ c.w = d.w /\ c.n = d.n /\ c.o = d.o

Init == /\ call.phase = "idle" /\ pos = 0
        /\ bytes \in Seq(0..255)

\* A call begins: nothing moved yet.
Begin == /\ ~Busy /\ call'.phase = "busy" /\ call'.moved = 0 /\ call'.got = <<>>
         /\ UNCHANGED bytes /\ pos' = IF call'.op = "load" THEN 0 ELSE pos

\* The bytes that came in are those of the file; a file being loaded may have been cut.
Read ==
  /\ Busy /\ call.w = <<>> /\ Same(call, call') /\ UNCHANGED bytes
  /\ LET new == call'.moved - call.moved
         p   == At(call, pos)
     IN  call'.last = "ok" =>
           /\ \A k \in 1..new : IF p + k <= Len(bytes) THEN call'.got[call.moved + k] = bytes[p + k]
                                ELSE call.op = "load"
           /\ pos' = IF call.op \in Positional THEN pos ELSE pos + new

\* The bytes that went out replace those at their place; space left unwritten before
\* them has the filler.
Write ==
  /\ Busy /\ call.w # <<>> /\ Same(call, call')
  /\ LET new  == call'.moved - call.moved
         p    == At(call, pos)
         last == p + Len(call.w) - call.moved
     IN  /\ \A k \in 1..Len(bytes) : k <= p \/ k > last => bytes'[k] = bytes[k]
         /\ \A k \in 1..Len(bytes') : k > Len(bytes) /\ k <= p => bytes'[k] = Filler(kind)
         /\ Len(bytes') >= Len(bytes) /\ (Len(bytes') <= last \/ Len(bytes') = Len(bytes))
         /\ call'.last = "ok" =>
              /\ \A k \in 1..new : bytes'[p + k] = call.w[call.moved + k]
              /\ \A k \in DOMAIN bytes' : k > p + new => k \in DOMAIN bytes /\ bytes'[k] = bytes[k]
              /\ pos' = IF call.op \in Positional THEN pos ELSE pos + new

\* A seek goes where it says, or nowhere.
Seek == /\ ~Busy /\ call'.op = "seek" /\ UNCHANGED bytes
        /\ \/ call'.err = "ok" /\ pos' = call'.o /\ pos' \in 0..Top
           \/ call'.err # "ok" /\ pos' = pos

\* A call that answers or flushes moves nothing.
Ask == /\ ~Busy /\ call'.op \in {"length", "flush"} /\ UNCHANGED bytes
       /\ call'.err = "ok" => pos' = pos

\* Cut or extended by its user, by the vector's owner or by another process.
Resize == /\ UNCHANGED call \/ (~Busy /\ call'.op = "truncate")
          /\ \A k \in DOMAIN bytes \intersect DOMAIN bytes' : bytes'[k] = bytes[k]
          /\ UNCHANGED pos

Next == UNCHANGED kind /\ (Begin \/ Read \/ Write \/ Seek \/ Ask \/ Resize)
Spec == Init /\ [][Next]_vars
=============================================================================
