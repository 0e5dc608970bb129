------------------------------ MODULE HunkArray ------------------------------
(***************************************************************************)
(* What an uncompressed CHD promises its users: an array of hunks of       *)
(* units.  A write changes exactly the units written, a read returns what  *)
(* the array holds, and nothing else is visible.                           *)
(***************************************************************************)
EXTENDS Integers

CONSTANTS HunkCount, UnitsPerHunk, Vals, NoReply

VARIABLES array, \* array[h][u]
          reply  \* what the last call returned

vars == <<array, reply>>

Hunks == 0..(HunkCount - 1)
Units == 0..(UnitsPerHunk - 1)

Write(h, lo, hi, buf) ==
  /\ array' = [array EXCEPT ![h] = [u \in Units |-> IF u \in lo..hi THEN buf[u] ELSE array[h][u]]]
  /\ reply' = NoReply

Read(h, lo, hi) ==
  /\ reply' = [u \in lo..hi |-> array[h][u]]
  /\ UNCHANGED array

Init == array \in [Hunks -> [Units -> Vals]] /\ reply = NoReply

Next == \/ \E h \in Hunks : \E lo, hi \in Units :
             \/ Read(h, lo, hi)
             \/ \E buf \in [Units -> Vals] : Write(h, lo, hi, buf)
        \/ reply' = NoReply /\ UNCHANGED array

Spec == Init /\ [][Next]_vars
=============================================================================
