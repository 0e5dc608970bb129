------------------------- MODULE CompressorAbstract -------------------------
(***************************************************************************)
(* What run_compression promises: the source's hunks are stored in order,  *)
(* one after the other, then sealed with a digest of all of them; it       *)
(* returns Ok only for a complete, sealed file, an error only where I/O    *)
(* can fail, and it does return.                                           *)
(***************************************************************************)
EXTENDS Integers, Sequences

CONSTANTS Sources, Modes, Null, MayFail

VARIABLES source, compressed, out, digest, outcome

vars == <<source, compressed, out, digest, outcome>>

\* Hunk Len(out) is the next one; there is none when all are stored.
AllStored == Len(out) \notin DOMAIN source

Init == /\ source \in Sources /\ compressed \in Modes
        /\ out = <<>>
        /\ digest = Null
        /\ outcome = "running"

Store == /\ outcome = "running" /\ ~AllStored
         /\ out' = Append(out, source[Len(out)])
         /\ UNCHANGED <<source, compressed, digest, outcome>>

Seal == /\ outcome = "running" /\ AllStored /\ digest = Null /\ compressed
        /\ digest' = out
        /\ UNCHANGED <<source, compressed, out, outcome>>

Complete == AllStored /\ (compressed => digest = out)

Return == /\ outcome = "running"
          /\ \/ MayFail /\ outcome' = "Err"
             \/ Complete /\ outcome' \in {"Ok", "Cancelled"}
          /\ UNCHANGED <<source, compressed, out, digest>>

Next == Store \/ Seal \/ Return

SafeSpec == Init /\ [][Next]_vars
Spec == SafeSpec /\ <>(outcome # "running")
=============================================================================
