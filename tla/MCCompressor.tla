---------------------------- MODULE MCCompressor ----------------------------
(* Small instances of Compressor for TLC. *)
EXTENDS Compressor, TLC

CONSTANTS z, a, b

Hunk(s) == [h \in 0..(Len(s) - 1) |-> s[h + 1]]

\* Five hunks in a ring of four: the third read wraps and is partial.  Repeated
\* contents make self copies, next to each other and a lap apart.
MCOneSource == {Hunk(<<a, b, a, b, z>>)}
\* Six: the third read fills both of its slots, of which the second may still be busy.
MCTwoLaps == {Hunk(<<z, z, a, z, z, a>>)}

Symmetry == Permutations(Workers)
=============================================================================
