--------------------------- MODULE MetadataProofs ---------------------------
(***************************************************************************)
(* Proofs about the metadata chain of lib/util/chd.cpp, for any tags,      *)
(* payloads, number of records and pattern of I/O failures.                *)
(***************************************************************************)
EXTENDS Metadata, FiniteSetTheorems, TLAPS

\* Where metadata_find and write_metadata stand: the record they are at is the one
\* after the previous record, and a new record is behind all others.
CursorInv ==
  /\ pc # "idle" => call \in Reads \cup Deletes \cup Writes
  /\ pc \in {"append", "link"} => call \in Writes
  /\ pc \in {"find", "found"} /\ prev # 0 => recs[prev].next = offset
  /\ pc = "found" => offset # 0
  /\ pc = "link" => prev < Len(recs)

IInv == TypeOK /\ LinksForward /\ CursorInv

\* metadata_set_previous_next with a target behind the previous record keeps the
\* chain typed and its links forward, and leaves every other record alone.
LEMMA SetPreviousNextFacts ==
  ASSUME IInv, NEW n \in Offsets, n = 0 \/ n > prev, SetPreviousNext(prev, n)
  PROVE  /\ recs' \in Seq(Records) /\ Len(recs') = Len(recs)
         /\ metaoffset' \in Offsets /\ diskMeta' \in Offsets
         /\ \A m \in 1..Len(recs) : recs'[m].next \in Offsets
         /\ LinksForward'
<1> USE DEF SetPreviousNext
<1>0. /\ recs \in Seq(Records) /\ Len(recs) \in Nat /\ prev \in 0..Len(recs)
      /\ n \in Nat
      /\ metaoffset \in Offsets /\ diskMeta \in Offsets
      /\ \A m \in 1..Len(recs) : recs[m].next \in Offsets
      /\ \A m \in 1..Len(recs) : recs[m].next # 0 => recs[m].next > m
  BY DEF IInv, TypeOK, Offsets, LinksForward
<1>1. CASE prev = 0
  BY <1>0, <1>1 DEF LinksForward
<1>2. CASE prev # 0
  <2>1. prev \in 1..Len(recs) /\ recs[prev] \in Records
    BY <1>0, <1>2
  <2>2. [recs[prev] EXCEPT !.next = n] \in Records
    BY <1>0, <2>1 DEF Records
  <2>3. recs' = [recs EXCEPT ![prev] = [recs[prev] EXCEPT !.next = n]]
    BY <1>2
  <2>4. recs' \in Seq(Records) /\ Len(recs') = Len(recs)
    BY <1>0, <2>1, <2>2, <2>3
  <2>5. ASSUME NEW m \in 1..Len(recs)
        PROVE  recs'[m].next = IF m = prev THEN n ELSE recs[m].next
    BY <1>0, <2>1, <2>3 DEF Records
  <2> QED
    BY <1>0, <1>2, <2>4, <2>5 DEF LinksForward
<1> QED
  BY <1>1, <1>2

LEMMA InitInv == Init => IInv
BY BoundAssumption DEF Init, IInv, TypeOK, LinksForward, CursorInv, Offsets

\* A call that returns leaves the cursor at rest.
LEMMA ReturnInv ==
  ASSUME IInv, NEW r, Return(r),
         recs' \in Seq(Records), Len(recs') = Len(recs),
         metaoffset' \in Offsets, diskMeta' \in Offsets,
         \A m \in 1..Len(recs) : recs'[m].next \in Offsets,
         LinksForward', gone' \subseteq 1..Len(recs)
  PROVE  IInv'
<1>1. Len(recs) \in Nat
  BY DEF IInv, TypeOK
<1>2. TypeOK'
  BY <1>1 DEF IInv, TypeOK, Return, Offsets
<1>3. CursorInv'
  BY DEF Return, CursorInv
<1> QED
  BY <1>2, <1>3 DEF IInv

LEMMA UnchangedReturnInv ==
  ASSUME IInv, NEW r, Return(r), UNCHANGED <<fileVars, gone>>
  PROVE  IInv'
<1>1. /\ recs' \in Seq(Records) /\ Len(recs') = Len(recs)
      /\ metaoffset' \in Offsets /\ diskMeta' \in Offsets
      /\ \A m \in 1..Len(recs) : recs'[m].next \in Offsets
      /\ gone' \subseteq 1..Len(recs)
  BY DEF IInv, TypeOK, fileVars
<1>2. LinksForward'
  BY DEF IInv, LinksForward, fileVars
<1> QED
  BY <1>1, <1>2, ReturnInv

\* The index of a call is an integer, that of clone_all_metadata too.
LEMMA CallIndex ==
  ASSUME NEW c \in Reads \cup Deletes \cup Writes
  PROVE  c.index \in Int
<1>1. Indices \subseteq Int /\ CloneIndex \in Int
  BY IndexAssumption DEF CloneIndex
<1>2. c.index \in Indices \cup {CloneIndex}
  BY DEF Reads, Deletes, Writes
<1> QED
  BY <1>1, <1>2

LEMMA BeginInv ==
  ASSUME IInv, NEW c \in Reads \cup Deletes \cup Writes, Begin(c)
  PROVE  IInv'
<1> USE DEF Begin, fileVars
<1>1. c.index \in Int
  BY CallIndex
<1>2. TypeOK'
  BY <1>1 DEF IInv, TypeOK, Offsets
<1>3. LinksForward'
  BY DEF IInv, LinksForward
<1>4. CursorInv'
  BY DEF CursorInv
<1> QED
  BY <1>2, <1>3, <1>4 DEF IInv

LEMMA FindStepInv ==
  ASSUME IInv, FindStep
  PROVE  IInv'
<1> USE DEF FindStep, fileVars, findVars
<1>1. offset \in 1..Len(recs) /\ recs[offset].next \in Offsets
  BY DEF IInv, TypeOK, Offsets
<1>2. TypeOK'
  BY <1>1 DEF IInv, TypeOK, Offsets
<1>3. LinksForward'
  BY DEF IInv, LinksForward
<1>4. CursorInv'
  BY <1>1 DEF IInv, CursorInv
<1> QED
  BY <1>2, <1>3, <1>4 DEF IInv

LEMMA FindEndInv ==
  ASSUME IInv, FindEnd
  PROVE  IInv'
<1> USE DEF FindEnd, fileVars, findVars
<1>1. CASE call.op = "write"
  <2>1. TypeOK' /\ LinksForward'
    BY <1>1 DEF IInv, TypeOK, LinksForward, Offsets
  <2>2. call \in Writes
    BY <1>1 DEF IInv, CursorInv, Reads, Deletes
  <2>3. CursorInv'
    BY <1>1, <2>2 DEF CursorInv
  <2> QED
    BY <2>1, <2>3 DEF IInv
<1>2. CASE call.op # "write"
  BY <1>2, UnchangedReturnInv
<1> QED
  BY <1>1, <1>2

\* The link that unlinks the record at the cursor leads further than the record.
LEMMA UnlinkFacts ==
  ASSUME IInv, pc = "found"
  PROVE  /\ offset \in 1..Len(recs)
         /\ recs[offset].next \in Offsets
         /\ recs[offset].next = 0 \/ recs[offset].next > prev
<1>1. Len(recs) \in Nat /\ offset \in 1..Len(recs) /\ prev \in 0..Len(recs)
  BY DEF IInv, TypeOK, CursorInv, Offsets
<1>2. recs[offset].next \in 0..Len(recs)
  BY <1>1 DEF IInv, TypeOK, Offsets
<1>3. prev < offset
  BY <1>1 DEF IInv, CursorInv, LinksForward
<1>4. recs[offset].next = 0 \/ recs[offset].next > offset
  BY <1>1 DEF IInv, LinksForward
<1> QED
  BY <1>1, <1>2, <1>3, <1>4 DEF Offsets

LEMMA SetFailsInv ==
  ASSUME IInv, NEW n \in Offsets, SetPreviousNextFails(prev, n), UNCHANGED gone,
         NEW r, Return(r)
  PROVE  IInv'
<1>1. /\ recs' \in Seq(Records) /\ Len(recs') = Len(recs)
      /\ metaoffset' \in Offsets /\ diskMeta' \in Offsets
      /\ \A m \in 1..Len(recs) : recs'[m].next \in Offsets
      /\ gone' \subseteq 1..Len(recs)
  BY DEF IInv, TypeOK, SetPreviousNextFails
<1>2. LinksForward'
  BY DEF IInv, LinksForward, SetPreviousNextFails
<1> QED
  BY <1>1, <1>2, ReturnInv

LEMMA DeleteFoundInv ==
  ASSUME IInv, DeleteFound
  PROVE  IInv'
<1> USE DEF DeleteFound
<1> DEFINE next == recs[offset].next
<1>1. offset \in 1..Len(recs) /\ next \in Offsets /\ (next = 0 \/ next > prev)
  BY UnlinkFacts
<1>2. CASE SetPreviousNext(prev, next) /\ gone' = gone \cup {offset} /\ Return(<<"ok">>)
  <2>1. gone' \subseteq 1..Len(recs)
    BY <1>1, <1>2 DEF IInv, TypeOK
  <2> QED
    BY <1>1, <1>2, <2>1, SetPreviousNextFacts, ReturnInv
<1>3. CASE SetPreviousNextFails(prev, next) /\ UNCHANGED gone /\ Return(<<"error">>)
  BY <1>1, <1>3, SetFailsInv
<1> QED
  BY <1>2, <1>3

LEMMA WriteUnlinksInv ==
  ASSUME IInv, WriteUnlinks
  PROVE  IInv'
<1> USE DEF WriteUnlinks, findVars
<1> DEFINE next == recs[offset].next
<1>1. offset \in 1..Len(recs) /\ next \in Offsets /\ (next = 0 \/ next > prev)
  BY UnlinkFacts
<1>2. CASE /\ SetPreviousNext(prev, next) /\ gone' = gone \cup {offset}
           /\ pc' = "append" /\ UNCHANGED <<call, findVars, reply, before>>
  <2>1. /\ recs' \in Seq(Records) /\ Len(recs') = Len(recs)
        /\ metaoffset' \in Offsets /\ diskMeta' \in Offsets
        /\ \A m \in 1..Len(recs) : recs'[m].next \in Offsets
        /\ LinksForward'
    BY <1>1, <1>2, SetPreviousNextFacts
  <2>2. TypeOK'
    BY <1>1, <1>2, <2>1 DEF IInv, TypeOK, Offsets
  <2>3. call \in Writes
    BY DEF IInv, CursorInv, Reads, Deletes
  <2>4. CursorInv'
    BY <1>2, <2>3 DEF CursorInv
  <2> QED
    BY <2>1, <2>2, <2>4 DEF IInv
<1>3. CASE SetPreviousNextFails(prev, next) /\ UNCHANGED gone /\ Return(<<"error">>)
  BY <1>1, <1>3, SetFailsInv
<1> QED
  BY <1>2, <1>3

LEMMA WriteFitsInv ==
  ASSUME IInv, WriteFits
  PROVE  IInv'
<1> USE DEF WriteFits
<1>1. offset \in 1..Len(recs) /\ recs \in Seq(Records) /\ Len(recs) \in Nat
  BY UnlinkFacts DEF IInv, TypeOK
<1>2. call \in Writes
  BY DEF IInv, CursorInv, Reads, Deletes
<1>3. \E p \in Payloads : recs' = [recs EXCEPT ![offset].payload = p]
  <2>1. call.payload \in Payloads
    BY <1>2 DEF Writes, Payloads
  <2>2. recs[offset] \in Records /\ recs[offset].payload \in Payloads
    <3>1. recs[offset] \in Records
      BY <1>1
    <3> QED
      BY <3>1 DEF Records
  <2>3. [recs[offset].payload EXCEPT !.val = Torn] \in Payloads
    BY <2>2 DEF Payloads
  <2>4. CASE recs' = recs
    <3>1. recs = [recs EXCEPT ![offset].payload = recs[offset].payload]
      BY <1>1, <2>2 DEF Records
    <3> QED
      BY <2>2, <2>4, <3>1
  <2>5. CASE recs' = [recs EXCEPT ![offset].payload.val = Torn]
    <3>1. recs' = [recs EXCEPT ![offset].payload = [recs[offset].payload EXCEPT !.val = Torn]]
      BY <2>5, Zenon
    <3> QED
      BY <2>3, <3>1, Zenon
  <2> QED
    BY <2>1, <2>4, <2>5
<1>4. PICK p \in Payloads : recs' = [recs EXCEPT ![offset].payload = p]
  BY <1>3
<1>5. recs[offset] \in Records /\ [recs[offset] EXCEPT !.payload = p] \in Records
  <2>1. recs[offset] \in Records
    BY <1>1
  <2> QED
    BY <2>1 DEF Records
<1>6. recs' = [recs EXCEPT ![offset] = [recs[offset] EXCEPT !.payload = p]]
  BY <1>4
<1>7. recs' \in Seq(Records) /\ Len(recs') = Len(recs)
  BY <1>1, <1>5, <1>6
<1>8. ASSUME NEW m \in 1..Len(recs) PROVE recs'[m].next = recs[m].next
  <2>1. CASE m = offset
    <3>1. recs'[m] = [recs[offset] EXCEPT !.payload = p]
      BY <1>1, <1>6, <2>1
    <3>2. [recs[offset] EXCEPT !.payload = p].next = recs[offset].next
      BY <1>5 DEF Records
    <3> QED
      BY <2>1, <3>1, <3>2, Zenon
  <2>2. CASE m # offset
    <3>1. recs'[m] = recs[m]
      BY <1>1, <1>6, <2>2
    <3> QED
      BY <3>1, Zenon
  <2> QED
    BY <2>1, <2>2
<1>9. LinksForward'
  BY <1>7, <1>8 DEF IInv, LinksForward
<1>10. /\ \A m \in 1..Len(recs) : recs'[m].next \in Offsets
       /\ metaoffset' \in Offsets /\ diskMeta' \in Offsets /\ gone' \subseteq 1..Len(recs)
  BY <1>8 DEF IInv, TypeOK
<1>11. \E r : Return(r)
  OBVIOUS
<1> QED
  BY <1>7, <1>9, <1>10, <1>11, ReturnInv

LEMMA WriteAppendsInv ==
  ASSUME IInv, WriteAppends
  PROVE  IInv'
<1> USE DEF WriteAppends, findVars
<1>1. CASE recs' = Append(recs, NewRecord(0)) /\ pc' = "link" /\ UNCHANGED <<call, findVars>>
  <2>1. call \in Writes
    BY DEF IInv, CursorInv
  <2>2. NewRecord(0) \in Records /\ NewRecord(0).next = 0
    BY <2>1 DEF Writes, Payloads, Records, NewRecord
  <2>3. recs \in Seq(Records) /\ Len(recs) \in Nat
    BY DEF IInv, TypeOK
  <2>4. /\ recs' \in Seq(Records) /\ Len(recs') = Len(recs) + 1
        /\ \A m \in 1..Len(recs) : recs'[m] = recs[m]
        /\ recs'[Len(recs) + 1].next = 0
    BY <1>1, <2>2, <2>3
  <2>5. \A m \in 1..Len(recs') : m \in 1..Len(recs) \/ m = Len(recs) + 1
    BY <2>3, <2>4
  <2>6. LinksForward'
    BY <2>4, <2>5 DEF IInv, LinksForward
  <2>7. \A m \in 1..Len(recs') : recs'[m].next \in 0..Len(recs')
    BY <2>3, <2>4, <2>5 DEF IInv, TypeOK, Offsets
  <2>8. TypeOK'
    BY <1>1, <2>3, <2>4, <2>7 DEF IInv, TypeOK, Offsets
  <2>9. CursorInv'
    BY <1>1, <2>1, <2>3, <2>4 DEF IInv, TypeOK, Offsets, CursorInv
  <2> QED
    BY <2>6, <2>8, <2>9 DEF IInv
<1>2. CASE UNCHANGED recs /\ Return(<<"error">>)
  BY <1>2, UnchangedReturnInv DEF fileVars
<1> QED
  BY <1>1, <1>2

LEMMA WriteLinksInv ==
  ASSUME IInv, WriteLinks
  PROVE  IInv'
<1> USE DEF WriteLinks
<1>1. Len(recs) \in Offsets /\ Len(recs) > prev
  BY DEF IInv, TypeOK, CursorInv, Offsets
<1>2. gone' \subseteq 1..Len(recs)
  BY DEF IInv, TypeOK
<1>3. CASE SetPreviousNext(prev, Len(recs)) /\ Return(<<"ok">>)
  BY <1>1, <1>2, <1>3, SetPreviousNextFacts, ReturnInv
<1>4. CASE SetPreviousNextFails(prev, Len(recs)) /\ Return(<<"error">>)
  BY <1>1, <1>4, SetFailsInv
<1> QED
  BY <1>3, <1>4

LEMMA NextInv == IInv /\ [Next]_vars => IInv'
<1> SUFFICES ASSUME IInv, [Next]_vars PROVE IInv'
  OBVIOUS
<1>1. ASSUME NEW c \in Reads \cup Deletes \cup Writes, Begin(c) PROVE IInv'
  BY <1>1, BeginInv
<1>2. CASE FindFails \/ ReadFound
  BY <1>2, UnchangedReturnInv DEF FindFails, ReadFound
<1>3. CASE Step
  BY <1>2, <1>3, FindStepInv, FindEndInv, DeleteFoundInv, WriteFitsInv, WriteUnlinksInv,
     WriteAppendsInv, WriteLinksInv DEF Step
<1>4. CASE Reopen
  <2>1. TypeOK' /\ LinksForward'
    BY <1>4 DEF Reopen, IInv, TypeOK, LinksForward, Offsets, findVars
  <2>2. CursorInv'
    BY <1>4 DEF Reopen, CursorInv
  <2> QED
    BY <2>1, <2>2 DEF IInv
<1>5. CASE UNCHANGED vars
  <2>1. TypeOK' /\ LinksForward'
    BY <1>5 DEF vars, fileVars, findVars, IInv, TypeOK, LinksForward, Offsets
  <2>2. CursorInv'
    BY <1>5 DEF vars, fileVars, findVars, IInv, CursorInv
  <2> QED
    BY <2>1, <2>2 DEF IInv
<1> QED
  BY <1>1, <1>3, <1>4, <1>5 DEF Next

\* Every offset metadata_find follows, in memory or in the header, is null or that
\* of a record in the file.
THEOREM MetadataTyped == SafeSpec => []TypeOK
<1>1. IInv => TypeOK
  BY DEF IInv
<1> QED
  BY <1>1, InitInv, NextInv, PTL DEF SafeSpec

\* Links lead to later records in every reachable state, after any deletes, moves,
\* I/O errors and reopenings: metadata_find never walks in a circle.
THEOREM ChainAcyclic == SafeSpec => []LinksForward
<1>1. IInv => LinksForward
  BY DEF IInv
<1> QED
  BY <1>1, InitInv, NextInv, PTL DEF SafeSpec


-----------------------------------------------------------------------------
(* Records that were taken off the chain *)

\* A set of records that no walk leaves: it has the heads of the chain in memory and
\* in the file, what each of its records leads to, and the cursor of the call in
\* progress, no two of its records lead to the same one, and none of it is gone.
Live(L) ==
  /\ \A n \in L : n \notin gone
  /\ metaoffset \in L \cup {0} /\ diskMeta \in L \cup {0}
  /\ \A n \in L : recs[n].next \in L \cup {0}
  /\ \A m, n \in L : recs[m].next # 0 /\ recs[m].next = recs[n].next => m = n
  /\ pc # "idle" => prev \in L \cup {0}
  /\ pc \in {"find", "found"} => offset \in L \cup {0}
  /\ pc = "link" => Len(recs) \notin L

\* A failed write leaves the head in the file behind the one in memory, which is
\* where a search starts, and the record about to be linked is new.
HeadInv ==
  /\ diskMeta # 0 /\ metaoffset # 0 => diskMeta <= metaoffset
  /\ pc \in {"find", "found"} /\ prev = 0 => offset = metaoffset
  /\ pc \in {"find", "found"} /\ prev # 0 => metaoffset # 0 /\ metaoffset <= prev
  /\ pc = "link" => Len(recs) > 0 /\ Len(recs) \notin gone /\ recs[Len(recs)].next = 0

LiveInv == HeadInv /\ \E L \in SUBSET (1..Len(recs)) : Live(L)

LEMMA FileFacts ==
  ASSUME IInv
  PROVE  /\ recs \in Seq(Records) /\ Len(recs) \in Nat
         /\ prev \in 0..Len(recs) /\ offset \in 0..Len(recs)
         /\ metaoffset \in 0..Len(recs) /\ diskMeta \in 0..Len(recs)
         /\ \A m \in 1..Len(recs) : recs[m].next \in 0..Len(recs)
         /\ \A m \in 1..Len(recs) : recs[m].next # 0 => recs[m].next > m
         /\ gone \subseteq 1..Len(recs)
BY DEF IInv, TypeOK, LinksForward, Offsets

LEMMA LinkEffect ==
  ASSUME IInv, prev # 0, NEW n, recs' = [recs EXCEPT ![prev].next = n]
  PROVE  /\ Len(recs') = Len(recs)
         /\ \A m \in 1..Len(recs) : recs'[m].next = IF m = prev THEN n ELSE recs[m].next
<1>1. recs \in Seq(Records) /\ Len(recs) \in Nat /\ prev \in 1..Len(recs)
  BY FileFacts
<1>2. recs' = [recs EXCEPT ![prev] = [recs[prev] EXCEPT !.next = n]]
  OBVIOUS
<1>3. recs[prev] \in Records
  BY <1>1
<1>4. [recs[prev] EXCEPT !.next = n].next = n
  BY <1>3 DEF Records
<1>5. DOMAIN recs' = DOMAIN recs /\ DOMAIN recs = 1..Len(recs)
  BY <1>1, <1>2
<1>6. Len(recs') = Len(recs)
  BY <1>1, <1>2
<1>7. ASSUME NEW m \in 1..Len(recs)
      PROVE  recs'[m] = IF m = prev THEN [recs[prev] EXCEPT !.next = n] ELSE recs[m]
  BY <1>1, <1>2, <1>5
<1> QED
  BY <1>4, <1>6, <1>7

\* A step that leaves the links, the heads and what is gone as they are.
LEMMA SameLinks ==
  ASSUME IInv, LiveInv,
         metaoffset' = metaoffset, diskMeta' = diskMeta, gone' = gone,
         Len(recs') = Len(recs), \A m \in 1..Len(recs) : recs'[m].next = recs[m].next,
         \/ pc' = "idle"
         \/ pc' = "append" /\ pc # "idle" /\ prev' = prev
         \/ pc' = pc /\ prev' = prev /\ offset' = offset
         \/ pc' = "found" /\ pc = "find" /\ prev' = prev /\ offset' = offset
  PROVE  LiveInv'
<1>1. PICK L \in SUBSET (1..Len(recs)) : Live(L)
  BY DEF LiveInv
<1>2. Len(recs) \in Nat
  BY FileFacts
<1>3. Live(L)'
  BY <1>1, <1>2 DEF Live
<1>4. HeadInv'
  BY <1>2 DEF LiveInv, HeadInv
<1> QED
  BY <1>3, <1>4 DEF LiveInv

LEMMA BeginLive ==
  ASSUME IInv, LiveInv, NEW c, Begin(c)
  PROVE  LiveInv'
<1> USE DEF Begin, fileVars
<1>1. PICK L \in SUBSET (1..Len(recs)) : Live(L)
  BY DEF LiveInv
<1>2. Live(L)'
  BY <1>1 DEF Live
<1>3. HeadInv'
  BY DEF LiveInv, HeadInv
<1> QED
  BY <1>2, <1>3 DEF LiveInv

LEMMA FindStepLive ==
  ASSUME IInv, LiveInv, FindStep
  PROVE  LiveInv'
<1> USE DEF FindStep, fileVars, findVars
<1>1. PICK L \in SUBSET (1..Len(recs)) : Live(L)
  BY DEF LiveInv
<1>2. CASE pc' = "found" /\ prev' = prev /\ offset' = offset
  BY <1>2, SameLinks
<1>3. CASE prev' = offset /\ offset' = recs[offset].next /\ pc' = pc
  <2>1. offset \in L
    BY <1>1 DEF Live
  <2>2. Live(L)'
    BY <1>1, <1>3, <2>1 DEF Live
  <2>3. prev < offset \/ prev = 0
    BY FileFacts DEF IInv, CursorInv
  <2>4. HeadInv'
    BY <1>3, <2>1, <2>3, FileFacts DEF LiveInv, HeadInv
  <2> QED
    BY <1>1, <2>2, <2>4 DEF LiveInv
<1> QED
  BY <1>2, <1>3

\* Taking the record at the cursor off the chain, by a delete or by a write that moves
\* it: what is left of the set is what lies behind it, or all but it.
LEMMA UnlinkLive ==
  ASSUME IInv, LiveInv, pc = "found",
         SetPreviousNext(prev, recs[offset].next), gone' = gone \cup {offset},
         pc' = "idle" \/ (pc' = "append" /\ prev' = prev)
  PROVE  LiveInv'
<1> DEFINE next == recs[offset].next
<1>1. PICK L \in SUBSET (1..Len(recs)) : Live(L)
  BY DEF LiveInv
<1>2. offset \in 1..Len(recs) /\ offset \in L /\ next \in L \cup {0} /\ (next = 0 \/ next > offset)
  BY <1>1, FileFacts, UnlinkFacts DEF Live
<1>3. CASE prev = 0
  <2>1. metaoffset' = next /\ diskMeta' = next /\ recs' = recs
    BY <1>3 DEF SetPreviousNext
  <2>2. PICK K \in SUBSET (1..Len(recs)) : K = {n \in L : n > offset}
    BY <1>1
  <2>3. \A n \in K : n \notin gone'
    BY <1>1, <1>2, <2>2 DEF Live
  <2>4. \A n \in K : recs[n].next \in K \cup {0}
    BY <1>1, <1>2, <2>2, FileFacts DEF Live
  <2>5. Live(K)'
    BY <1>1, <1>2, <1>3, <2>1, <2>2, <2>3, <2>4 DEF Live
  <2>6. HeadInv'
    BY <2>1, FileFacts, <1>2 DEF HeadInv
  <2> QED
    BY <2>1, <2>2, <2>5, <2>6 DEF LiveInv
<1>4. CASE prev # 0
  <2>1. /\ metaoffset' = metaoffset /\ diskMeta' = diskMeta /\ Len(recs') = Len(recs)
        /\ \A m \in 1..Len(recs) : recs'[m].next = IF m = prev THEN next ELSE recs[m].next
    BY <1>4, LinkEffect DEF SetPreviousNext
  <2>2. recs[prev].next = offset /\ prev \in L /\ prev < offset
    BY <1>1, <1>4, FileFacts DEF IInv, CursorInv, Live
  <2>3. metaoffset # offset /\ diskMeta # offset
    BY <1>2, <1>4, <2>2, FileFacts DEF LiveInv, HeadInv
  <2>4. \A n \in L : n # prev => recs[n].next # offset
    BY <1>1, <1>2, <2>2 DEF Live
  <2>5. PICK K \in SUBSET (1..Len(recs)) : K = L \ {offset}
    BY <1>1
  <2>6. \A n \in K : n \notin gone'
    BY <1>1, <2>5 DEF Live
  <2>7. \A n \in K : recs'[n].next \in K \cup {0}
    BY <1>1, <1>2, <2>1, <2>5, <2>2, <2>4, FileFacts DEF Live
  <2>8. \A m, n \in K : recs'[m].next # 0 /\ recs'[m].next = recs'[n].next => m = n
    <3>1. \A m, n \in L : recs[m].next # 0 /\ recs[m].next = recs[n].next => m = n
      BY <1>1 DEF Live
    <3> QED
      BY <1>1, <1>2, <2>1, <2>2, <2>5, <3>1
  <2>9. Live(K)'
    BY <1>1, <2>1, <2>2, <2>3, <2>5, <2>6, <2>7, <2>8 DEF Live
  <2>10. HeadInv'
    BY <2>1 DEF LiveInv, HeadInv
  <2> QED
    BY <2>1, <2>5, <2>9, <2>10 DEF LiveInv
<1> QED
  BY <1>3, <1>4

\* The same step when its write fails: only m_metaoffset may have moved on.
LEMMA UnlinkFailsLive ==
  ASSUME IInv, LiveInv, pc = "found",
         SetPreviousNextFails(prev, recs[offset].next), gone' = gone, pc' = "idle"
  PROVE  LiveInv'
<1> USE DEF SetPreviousNextFails
<1>1. PICK L \in SUBSET (1..Len(recs)) : Live(L)
  BY DEF LiveInv
<1>2. CASE prev = 0
  <2>1. offset = metaoffset /\ metaoffset' = recs[offset].next /\ offset \in L
    BY <1>1, <1>2, FileFacts, UnlinkFacts DEF LiveInv, HeadInv, Live
  <2>2. Live(L)'
    BY <1>1, <2>1 DEF Live
  <2>3. HeadInv'
    BY <2>1, FileFacts, UnlinkFacts DEF LiveInv, HeadInv
  <2> QED
    BY <1>1, <2>2, <2>3 DEF LiveInv
<1>3. CASE prev # 0
  BY <1>3, SameLinks
<1> QED
  BY <1>2, <1>3

\* A record appended to the file joins the set only when it is linked.
LEMMA WriteAppendsLive ==
  ASSUME IInv, LiveInv, WriteAppends
  PROVE  LiveInv'
<1> USE DEF WriteAppends, findVars
<1>1. PICK L \in SUBSET (1..Len(recs)) : Live(L)
  BY DEF LiveInv
<1>2. CASE recs' = Append(recs, NewRecord(0)) /\ pc' = "link" /\ UNCHANGED findVars
  <2>1. /\ Len(recs') = Len(recs) + 1
        /\ \A m \in 1..Len(recs) : recs'[m] = recs[m]
        /\ recs'[Len(recs) + 1].next = 0
    <3>1. recs \in Seq(Records) /\ Len(recs) \in Nat
      BY FileFacts
    <3>2. NewRecord(0).next = 0
      BY DEF NewRecord
    <3> QED
      BY <1>2, <3>1, <3>2
  <2>2. L \in SUBSET (1..Len(recs')) /\ Len(recs') \notin L /\ Len(recs') \notin gone
    BY <1>1, <2>1, FileFacts
  <2>3. Live(L)'
    BY <1>1, <1>2, <2>1, <2>2 DEF Live
  <2>4. HeadInv'
    BY <1>2, <2>1, <2>2, FileFacts DEF LiveInv, HeadInv
  <2> QED
    BY <2>2, <2>3, <2>4 DEF LiveInv
<1>3. CASE UNCHANGED recs /\ Return(<<"error">>)
  BY <1>3, SameLinks DEF Return
<1> QED
  BY <1>2, <1>3

LEMMA WriteLinksLive ==
  ASSUME IInv, LiveInv, WriteLinks
  PROVE  LiveInv'
<1> USE DEF WriteLinks, Return
<1> DEFINE new == Len(recs)
<1>1. PICK L \in SUBSET (1..Len(recs)) : Live(L)
  BY DEF LiveInv
<1>2. new \in Nat /\ new > 0 /\ new \notin gone /\ new \notin L /\ recs[new].next = 0 /\ new # prev
  BY <1>1, FileFacts DEF LiveInv, HeadInv, Live, IInv, CursorInv
<1>3. prev \in L \cup {0} /\ \A n \in L : recs[n].next \in L \cup {0}
  BY <1>1 DEF Live
<1>4. PICK K \in SUBSET (1..Len(recs)) : K = L \cup {new}
  <2>1. new \in 1..Len(recs)
    BY <1>2
  <2> HIDE DEF new
  <2> QED
    BY <1>1, <2>1
<1>5. CASE prev = 0 /\ recs' = recs /\ metaoffset' = new /\ diskMeta' \in {new, diskMeta}
  <2>1. Live(K)'
    BY <1>1, <1>2, <1>4, <1>5 DEF Live
  <2>2. HeadInv'
    BY <1>2, <1>5, FileFacts DEF HeadInv
  <2> QED
    BY <1>4, <1>5, <2>1, <2>2 DEF LiveInv
<1>6. CASE /\ prev # 0 /\ metaoffset' = metaoffset /\ diskMeta' = diskMeta
           /\ recs' = [recs EXCEPT ![prev].next = new]
  <2>1. /\ Len(recs') = Len(recs)
        /\ \A m \in 1..Len(recs) : recs'[m].next = IF m = prev THEN new ELSE recs[m].next
    BY <1>6, LinkEffect
  <2>2. \A n \in K : recs'[n].next \in K \cup {0}
    BY <1>1, <1>2, <1>3, <1>4, <2>1
  <2>3. \A m, n \in K : recs'[m].next # 0 /\ recs'[m].next = recs'[n].next => m = n
    <3>1. \A m, n \in L : recs[m].next # 0 /\ recs[m].next = recs[n].next => m = n
      BY <1>1 DEF Live
    <3> QED
      BY <1>1, <1>2, <1>3, <1>4, <2>1, <3>1
  <2>4. Live(K)'
    BY <1>1, <1>2, <1>4, <1>6, <2>1, <2>2, <2>3 DEF Live
  <2>5. HeadInv'
    BY <1>6, <2>1 DEF LiveInv, HeadInv
  <2> QED
    BY <1>4, <2>1, <2>4, <2>5 DEF LiveInv
<1>7. CASE prev # 0 /\ recs' = recs /\ metaoffset' = metaoffset /\ diskMeta' = diskMeta
  BY <1>7, SameLinks
<1> QED
  BY <1>5, <1>6, <1>7 DEF SetPreviousNext, SetPreviousNextFails

\* A write that fits changes a payload and no link.
LEMMA WriteFitsLive ==
  ASSUME IInv, LiveInv, WriteFits
  PROVE  LiveInv'
<1> USE DEF WriteFits
<1>1. recs \in Seq(Records) /\ offset \in 1..Len(recs) /\ recs[offset] \in Records
  BY UnlinkFacts, FileFacts
<1>2. ASSUME NEW p, recs' = [recs EXCEPT ![offset] = [recs[offset] EXCEPT !.payload = p]]
      PROVE  Len(recs') = Len(recs) /\ \A m \in 1..Len(recs) : recs'[m].next = recs[m].next
  <2>1. Len(recs') = Len(recs) /\ DOMAIN recs = 1..Len(recs)
    BY <1>1, <1>2
  <2>2. [recs[offset] EXCEPT !.payload = p].next = recs[offset].next
    BY <1>1 DEF Records
  <2>3. ASSUME NEW m \in 1..Len(recs)
        PROVE  recs'[m] = IF m = offset THEN [recs[offset] EXCEPT !.payload = p] ELSE recs[m]
    BY <1>2, <2>1
  <2> QED
    BY <2>1, <2>2, <2>3
<1>3. Len(recs') = Len(recs) /\ \A m \in 1..Len(recs) : recs'[m].next = recs[m].next
  <2>1. CASE recs' = recs
    BY <2>1
  <2>2. CASE recs' = [recs EXCEPT ![offset].payload = call.payload]
    <3>1. recs' = [recs EXCEPT ![offset] = [recs[offset] EXCEPT !.payload = call.payload]]
      BY <2>2, Zenon
    <3> QED
      BY <1>2, <3>1
  <2>3. CASE recs' = [recs EXCEPT ![offset].payload.val = Torn]
    <3> DEFINE p == [recs[offset].payload EXCEPT !.val = Torn]
    <3>1. recs' = [recs EXCEPT ![offset] = [recs[offset] EXCEPT !.payload = p]]
      BY <2>3, Zenon
    <3> HIDE DEF p
    <3> QED
      BY <1>2, <3>1
  <2> QED
    BY <2>1, <2>2, <2>3
<1>4. pc' = "idle" /\ metaoffset' = metaoffset /\ diskMeta' = diskMeta /\ gone' = gone
  BY DEF Return
<1> QED
  BY <1>3, <1>4, SameLinks

LEMMA NextLive == IInv /\ LiveInv /\ [Next]_vars => LiveInv'
<1> SUFFICES ASSUME IInv, LiveInv, [Next]_vars PROVE LiveInv'
  OBVIOUS
<1>1. ASSUME NEW c, Begin(c) PROVE LiveInv'
  BY <1>1, BeginLive
<1>2. CASE FindFails \/ ReadFound \/ FindEnd
  <2>1. /\ metaoffset' = metaoffset /\ diskMeta' = diskMeta /\ gone' = gone /\ recs' = recs
        /\ \/ pc' = "idle"
           \/ pc' = "append" /\ pc # "idle" /\ prev' = prev
    BY <1>2 DEF FindFails, ReadFound, FindEnd, Return, fileVars, findVars
  <2> QED
    BY <2>1, SameLinks
<1>3. CASE DeleteFound \/ WriteUnlinks
  BY <1>3, UnlinkLive, UnlinkFailsLive DEF DeleteFound, WriteUnlinks, Return, findVars
<1>4. CASE Step
  BY <1>2, <1>3, <1>4, FindStepLive, WriteFitsLive, WriteAppendsLive, WriteLinksLive DEF Step
<1>5. CASE Reopen
  <2>1. PICK L \in SUBSET (1..Len(recs)) : Live(L)
    BY DEF LiveInv
  <2>2. Live(L)' /\ HeadInv'
    BY <1>5, <2>1, FileFacts DEF Reopen, Live, HeadInv, findVars
  <2>3. recs' = recs
    BY <1>5 DEF Reopen
  <2> QED
    BY <2>1, <2>2, <2>3 DEF LiveInv
<1>6. CASE UNCHANGED vars
  <2>1. /\ metaoffset' = metaoffset /\ diskMeta' = diskMeta /\ gone' = gone /\ recs' = recs
        /\ pc' = pc /\ prev' = prev /\ offset' = offset
    BY <1>6 DEF vars, fileVars, findVars
  <2> QED
    BY <2>1, SameLinks
<1> QED
  BY <1>1, <1>4, <1>5, <1>6 DEF Next

-----------------------------------------------------------------------------
(* The walk *)

LEMMA LeastNat ==
  ASSUME NEW T \in SUBSET Nat, T # {}
  PROVE  \E k \in T : \A j \in T : k <= j
<1> DEFINE less == {p \in Nat \X Nat : p[1] < p[2]}
<1>1. OpToRel(<, Nat) = less
  BY Zenon DEF OpToRel
<1>2. IsWellFoundedOn(less, Nat)
  BY <1>1, NatLessThanWellFounded, Zenon
<1> HIDE DEF less
<1>3. PICK k \in T : \A j \in T : ~(<<j, k>> \in less)
  BY <1>2, WFMin
<1>4. ASSUME NEW j \in T PROVE k <= j
  <2>1. j \in Nat /\ k \in Nat /\ <<j, k>> \notin less
    BY <1>3
  <2>2. ~(j < k)
    <3>1. <<j, k>> \in Nat \X Nat /\ <<j, k>>[1] = j /\ <<j, k>>[2] = k
      BY <2>1
    <3> QED
      BY <2>1, <3>1 DEF less
  <2> QED
    BY <2>1, <2>2
<1> QED
  BY <1>4

\* The recursive definition of the walk has a solution, whatever the links.
LEMMA WalkUnfolds ==
  Walk = [n \in 1..MaxRecords |->
            IF n = 1 THEN metaoffset
            ELSE IF Walk[n - 1] = 0 THEN 0 ELSE recs[Walk[n - 1]].next]
<1> DEFINE Next1(x) == IF x = 0 THEN 0 ELSE recs[x].next
           Solves(g, k) == g = [n \in 1..k |-> IF n = 1 THEN metaoffset ELSE Next1(g[n - 1])]
           Bad == {k \in Nat : ~\E g : Solves(g, k)}
<1>1. ASSUME NEW k \in Nat, NEW g, Solves(g, k) PROVE \E h : Solves(h, k + 1)
  <2> DEFINE h == [n \in 1..(k + 1) |-> IF n = k + 1
                     THEN (IF n = 1 THEN metaoffset ELSE Next1(g[k])) ELSE g[n]]
  <2> HIDE DEF Next1
  <2>1. ASSUME NEW n \in 1..(k + 1)
        PROVE  h[n] = IF n = 1 THEN metaoffset ELSE Next1(h[n - 1])
    <3>1. CASE n = k + 1
      BY <3>1
    <3>2. CASE n # k + 1
      <4>1. n \in 1..k /\ h[n] = g[n] /\ (n # 1 => h[n - 1] = g[n - 1])
        BY <3>2
      <4>2. g[n] = IF n = 1 THEN metaoffset ELSE Next1(g[n - 1])
        BY <1>1, <4>1
      <4> QED
        BY <4>1, <4>2
    <3> QED
      BY <3>1, <3>2
  <2>2. h = [n \in 1..(k + 1) |-> h[n]]
    OBVIOUS
  <2> HIDE DEF h
  <2>3. h = [n \in 1..(k + 1) |-> IF n = 1 THEN metaoffset ELSE Next1(h[n - 1])]
    BY <2>1, <2>2
  <2>4. Solves(h, k + 1)
    BY <2>3
  <2> QED
    BY <2>4
<1>2. \E g : Solves(g, 0)
  <2>1. Solves([n \in 1..0 |-> 0], 0)
    OBVIOUS
  <2> QED
    BY <2>1
<1>3. Bad = {}
  <2> SUFFICES ASSUME Bad # {} PROVE FALSE
    OBVIOUS
  <2> HIDE DEF Solves
  <2>1. PICK k \in Bad : \A j \in Bad : k <= j
    BY LeastNat
  <2>2. k \in Nat /\ k # 0
    BY <1>2
  <2>3. k - 1 \in Nat /\ k - 1 \notin Bad
    BY <2>1, <2>2
  <2>4. PICK g : Solves(g, k - 1)
    BY <2>3
  <2>5. (k - 1) + 1 = k
    BY <2>2
  <2>6. \E h : Solves(h, k)
    BY <1>1, <2>3, <2>4, <2>5
  <2> QED
    BY <2>6
<1>4. \E g : Solves(g, MaxRecords)
  <2> HIDE DEF Solves
  <2> QED
    BY <1>3, BoundAssumption
<1>5. Walk = CHOOSE g : Solves(g, MaxRecords)
  BY DEF Walk
<1>6. Solves(Walk, MaxRecords)
  <2> HIDE DEF Solves
  <2> QED
    BY <1>4, <1>5, Zenon
<1> QED
  BY <1>6

LEMMA WalkStays ==
  ASSUME NEW L, Live(L), NEW n \in 1..MaxRecords
  PROVE  Walk[n] \in L \cup {0}
<1> DEFINE Out == {k \in 1..MaxRecords : Walk[k] \notin L \cup {0}}
<1> SUFFICES ASSUME Out # {} PROVE FALSE
  OBVIOUS
<1> Out \in SUBSET Nat
  OBVIOUS
<1>1. PICK k \in Out : \A j \in Out : k <= j
  BY LeastNat
<1>2. k \in 1..MaxRecords /\ k \in Nat
  OBVIOUS
<1>3. Walk[k] = IF k = 1 THEN metaoffset
                ELSE IF Walk[k - 1] = 0 THEN 0 ELSE recs[Walk[k - 1]].next
  BY <1>2, WalkUnfolds, Zenon
<1>4. k # 1
  BY <1>3 DEF Live
<1>5. k - 1 \in 1..MaxRecords /\ k - 1 \notin Out
  BY <1>1, <1>2, <1>4, BoundAssumption
<1>6. Walk[k - 1] \in L \cup {0}
  BY <1>5
<1> QED
  BY <1>3, <1>4, <1>6 DEF Live

LEMMA VisitedWalk ==
  /\ Len(Visited) \in Nat /\ Len(Visited) <= MaxRecords
  /\ \A n \in 1..Len(Visited) : n \in 1..MaxRecords /\ Visited[n] = Walk[n]
<1> DEFINE S == {m \in 1..MaxRecords : Walk[m] # 0}
<1>1. IsFiniteSet(1..MaxRecords) /\ Cardinality(1..MaxRecords) = MaxRecords
  BY FS_Interval, BoundAssumption
<1>2. IsFiniteSet(S) /\ Cardinality(S) <= MaxRecords
  BY <1>1, FS_Subset
<1>3. Cardinality(S) \in Nat
  BY <1>2, FS_CardinalityType
<1>4. Visited = [n \in 1..Cardinality(S) |-> Walk[n]]
  BY DEF Visited
<1> HIDE DEF S
<1>5. Len(Visited) = Cardinality(S)
  BY <1>3, <1>4
<1> QED
  BY <1>2, <1>3, <1>4, <1>5, BoundAssumption

\* What delete_metadata, or a write_metadata that moved a record, reported as done is
\* never undone: no later search meets the record, whatever writes failed in between
\* and however often the file was reopened with the head it has on disk.
THEOREM GoneForGood == SafeSpec => []NoResurrection
<1>1. Init => LiveInv
  <2> SUFFICES ASSUME Init PROVE LiveInv
    OBVIOUS
  <2>1. Live({}) /\ HeadInv
    BY DEF Init, Live, HeadInv
  <2> QED
    BY <2>1 DEF LiveInv
<1>2. IInv /\ LiveInv => NoResurrection
  <2> SUFFICES ASSUME IInv, LiveInv, NEW n \in 1..Len(Visited) PROVE Visited[n] \notin gone
    BY DEF NoResurrection
  <2>1. PICK L \in SUBSET (1..Len(recs)) : Live(L)
    BY DEF LiveInv
  <2>2. Visited[n] \in L \cup {0}
    BY <2>1, VisitedWalk, WalkStays
  <2>3. 0 \notin gone /\ \A m \in L : m \notin gone
    BY <2>1, FileFacts DEF Live
  <2> QED
    BY <2>2, <2>3
<1> QED
  BY <1>1, <1>2, InitInv, NextInv, NextLive, PTL DEF SafeSpec


-----------------------------------------------------------------------------
(* Paths *)

\* p lists the records that the links of the file r lead to from offset h.
Path(p, h, r) ==
  /\ p \in Seq(1..Len(r))
  /\ h = IF Len(p) = 0 THEN 0 ELSE p[1]
  /\ \A n \in 1..Len(p) : r[p[n]].next = IF n = Len(p) THEN 0 ELSE p[n + 1]

LEMMA PathPrefix ==
  ASSUME NEW r, Len(r) \in Nat, NEW h, NEW p, NEW q, Path(p, h, r), Path(q, h, r)
  PROVE  Len(p) <= Len(q) /\ \A n \in 1..Len(p) : p[n] = q[n]
<1>1. Len(p) \in Nat /\ Len(q) \in Nat
  BY DEF Path
<1>2. \A n \in 1..Len(p) : p[n] \in 1..Len(r)
  BY DEF Path
<1>3. \A n \in 1..Len(q) : q[n] \in 1..Len(r)
  BY DEF Path
<1> DEFINE Bad == {n \in 1..Len(p) : ~(n <= Len(q) /\ p[n] = q[n])}
<1>4. ASSUME Bad # {} PROVE FALSE
  <2> Bad \in SUBSET Nat
    OBVIOUS
  <2>1. PICK k \in Bad : \A j \in Bad : k <= j
    BY <1>4, LeastNat
  <2>2. k \in 1..Len(p) /\ ~(k <= Len(q) /\ p[k] = q[k])
    OBVIOUS
  <2>3. k # 1
    <3> SUFFICES ASSUME k = 1 PROVE FALSE
      OBVIOUS
    <3>1. h = p[1] /\ h # 0
      BY <1>1, <1>2, <2>2 DEF Path
    <3>2. Len(q) # 0 /\ q[1] = h
      BY <3>1 DEF Path
    <3> QED
      BY <1>1, <2>2, <3>1, <3>2
  <2>4. k - 1 \in 1..Len(p) /\ k - 1 \notin Bad
    BY <1>1, <2>1, <2>2, <2>3
  <2>5. k - 1 <= Len(q) /\ p[k - 1] = q[k - 1]
    BY <2>4
  <2>6. r[p[k - 1]].next = p[k] /\ p[k] # 0
    <3>1. r[p[k - 1]].next = IF k - 1 = Len(p) THEN 0 ELSE p[(k - 1) + 1]
      BY <2>4 DEF Path
    <3> QED
      BY <1>1, <1>2, <2>2, <3>1
  <2>7. r[q[k - 1]].next = IF k - 1 = Len(q) THEN 0 ELSE q[(k - 1) + 1]
    <3>1. k - 1 \in 1..Len(q)
      BY <1>1, <2>4, <2>5
    <3> QED
      BY <3>1 DEF Path
  <2> QED
    BY <1>1, <2>2, <2>5, <2>6, <2>7
<1>5. \A n \in 1..Len(p) : n <= Len(q) /\ p[n] = q[n]
  BY <1>4
<1>6. CASE Len(p) = 0
  BY <1>1, <1>6
<1>7. CASE Len(p) # 0
  <2>1. Len(p) \in 1..Len(p)
    BY <1>1, <1>7
  <2> QED
    BY <1>5, <2>1
<1> QED
  BY <1>5, <1>6, <1>7

\* There is one path from an offset.
LEMMA PathUnique ==
  ASSUME NEW r, Len(r) \in Nat, NEW h, NEW p, NEW q, Path(p, h, r), Path(q, h, r)
  PROVE  p = q
<1>1. p \in Seq(1..Len(r)) /\ q \in Seq(1..Len(r))
  BY DEF Path
<1>2. Len(p) <= Len(q) /\ \A n \in 1..Len(p) : p[n] = q[n]
  BY PathPrefix
<1>3. Len(q) <= Len(p)
  BY PathPrefix
<1>4. Len(p) = Len(q)
  BY <1>1, <1>2, <1>3
<1>5. p = [n \in 1..Len(p) |-> p[n]] /\ q = [n \in 1..Len(q) |-> q[n]]
  BY <1>1
<1> QED
  BY <1>2, <1>4, <1>5

\* It goes forward, if the links do.
LEMMA PathForward ==
  ASSUME NEW r, Len(r) \in Nat, NEW h, NEW p, Path(p, h, r),
         \A n \in 1..Len(r) : r[n].next # 0 => r[n].next > n
  PROVE  \A m, n \in 1..Len(p) : m < n => p[m] < p[n]
<1>1. Len(p) \in Nat /\ \A n \in 1..Len(p) : p[n] \in 1..Len(r)
  <2>1. p \in Seq(1..Len(r))
    BY DEF Path
  <2> QED
    BY <2>1
<1>2. \A n \in 1..Len(r) : r[n].next \in 1..Len(r) => r[n].next > n
  OBVIOUS
<1> SUFFICES ASSUME NEW m \in 1..Len(p), NEW i \in 1..Len(p), m < i, ~(p[m] < p[i]) PROVE FALSE
  OBVIOUS
<1>3. PICK k \in 1..Len(p) : /\ m < k /\ ~(p[m] < p[k])
                            /\ \A j \in 1..Len(p) : m < j /\ ~(p[m] < p[j]) => k <= j
  <2> DEFINE Bad == {n \in 1..Len(p) : m < n /\ ~(p[m] < p[n])}
  <2>1. Bad \in SUBSET Nat /\ i \in Bad
    BY <1>1
  <2>2. PICK k \in Bad : \A j \in Bad : k <= j
    BY <2>1, LeastNat
  <2> QED
    BY <2>2
<1>4. k - 1 \in 1..Len(p) /\ k \in Nat /\ m \in Nat
  BY <1>1, <1>3
<1>5. m = k - 1 \/ p[m] < p[k - 1]
  BY <1>3, <1>4
<1>6. r[p[k - 1]].next = p[k]
  <2>1. r[p[k - 1]].next = IF k - 1 = Len(p) THEN 0 ELSE p[(k - 1) + 1]
    BY <1>4 DEF Path
  <2> QED
    BY <1>1, <1>3, <1>4, <2>1
<1>7. p[k - 1] \in 1..Len(r) /\ p[k] \in 1..Len(r) /\ p[m] \in 1..Len(r)
  BY <1>1, <1>3, <1>4
<1>8. p[k] > p[k - 1]
  BY <1>2, <1>6, <1>7
<1> QED
  BY <1>3, <1>5, <1>7, <1>8

-----------------------------------------------------------------------------
(* The walk is the path from m_metaoffset *)

LEMMA WalkStep ==
  ASSUME NEW n \in 1..MaxRecords
  PROVE  Walk[n] = IF n = 1 THEN metaoffset
                   ELSE IF Walk[n - 1] = 0 THEN 0 ELSE recs[Walk[n - 1]].next
BY WalkUnfolds, Zenon

\* The walk is over for good when it is over, and before that it has come to the n-th
\* record at the earliest in its n-th step.
LEMMA WalkFacts ==
  ASSUME IInv
  PROVE  \A n \in 1..MaxRecords :
           /\ Walk[n] \in 0..Len(recs)
           /\ Walk[n] # 0 => Walk[n] >= n
           /\ n # 1 /\ Walk[n] # 0 => Walk[n - 1] # 0
<1> DEFINE Good(n) == /\ Walk[n] \in 0..Len(recs)
                      /\ Walk[n] # 0 => Walk[n] >= n
                      /\ n # 1 /\ Walk[n] # 0 => Walk[n - 1] # 0
           Bad == {n \in 1..MaxRecords : ~Good(n)}
<1> SUFFICES ASSUME Bad # {} PROVE FALSE
  OBVIOUS
<1> Bad \in SUBSET Nat
  OBVIOUS
<1>1. PICK k \in Bad : \A j \in Bad : k <= j
  BY LeastNat
<1>2. k \in 1..MaxRecords /\ ~Good(k)
  OBVIOUS
<1>3. CASE k = 1
  BY <1>2, <1>3, WalkStep, FileFacts
<1>4. CASE k # 1
  <2>1. k - 1 \in 1..MaxRecords /\ k - 1 \notin Bad
    BY <1>1, <1>2, <1>4, BoundAssumption
  <2>2. Good(k - 1)
    BY <2>1
  <2>3. Walk[k] = IF Walk[k - 1] = 0 THEN 0 ELSE recs[Walk[k - 1]].next
    BY <1>2, <1>4, WalkStep
  <2> QED
    BY <1>2, <1>4, <2>1, <2>2, <2>3, FileFacts
<1> QED
  BY <1>3, <1>4

LEMMA WalkPath ==
  IInv /\ Len(recs) <= MaxRecords => Path(Visited, metaoffset, recs)
<1> SUFFICES ASSUME IInv, Len(recs) <= MaxRecords PROVE Path(Visited, metaoffset, recs)
  OBVIOUS
<1> DEFINE Over == {n \in 1..(MaxRecords + 1) : n = MaxRecords + 1 \/ Walk[n] = 0}
<1>1. MaxRecords \in Nat /\ Len(recs) \in Nat
  BY BoundAssumption, FileFacts
<1>2. MaxRecords + 1 \in Over /\ Over \in SUBSET Nat
  BY <1>1
<1>3. PICK z \in Over : \A j \in Over : z <= j
  BY <1>2, LeastNat
<1>4. PICK k \in 0..MaxRecords : z = k + 1
  BY <1>1
<1>5. \A n \in 1..k : n \in 1..MaxRecords /\ Walk[n] # 0
  BY <1>1, <1>3, <1>4
<1>6. \A n \in 1..MaxRecords : n > k => Walk[n] = 0
  <2> DEFINE Bad == {n \in 1..MaxRecords : n > k /\ Walk[n] # 0}
  <2> SUFFICES ASSUME Bad # {} PROVE FALSE
    OBVIOUS
  <2> Bad \in SUBSET Nat
    OBVIOUS
  <2>1. PICK b \in Bad : \A j \in Bad : b <= j
    BY LeastNat
  <2>2. b \in 1..MaxRecords /\ b > k /\ Walk[b] # 0
    OBVIOUS
  <2>3. b # z
    BY <1>1, <1>3, <1>4, <2>2
  <2>4. b - 1 \in 1..MaxRecords /\ b - 1 > k /\ b # 1
    BY <1>1, <1>4, <2>2, <2>3
  <2>5. Walk[b - 1] # 0
    BY <2>2, <2>4, WalkFacts
  <2> QED
    BY <2>1, <2>4, <2>5
<1>7. {m \in 1..MaxRecords : Walk[m] # 0} = 1..k
  BY <1>1, <1>5, <1>6
<1>8. Visited = [n \in 1..k |-> Walk[n]]
  <2>1. Cardinality(1..k) = k
    BY <1>4, FS_Interval
  <2> QED
    BY <1>7, <2>1 DEF Visited
<1>9. \A n \in 1..k : Walk[n] \in 1..Len(recs)
  BY <1>5, WalkFacts
<1>10. Visited \in Seq(1..Len(recs)) /\ Len(Visited) = k
  BY <1>8, <1>9
<1>11. metaoffset = IF k = 0 THEN 0 ELSE Walk[1]
  <2>1. CASE MaxRecords = 0
    BY <2>1, <1>1, <1>4, FileFacts
  <2>2. CASE MaxRecords # 0
    <3>1. 1 \in 1..MaxRecords
      BY <1>1, <2>2
    <3>2. Walk[1] = metaoffset
      BY <3>1, WalkStep
    <3> QED
      BY <1>4, <1>6, <3>1, <3>2
  <2> QED
    BY <2>1, <2>2
<1>12. ASSUME NEW n \in 1..k
       PROVE  recs[Walk[n]].next = IF n = k THEN 0 ELSE Walk[n + 1]
  <2>1. Walk[n] # 0 /\ Walk[n] \in 1..Len(recs) /\ Walk[n] >= n
    BY <1>5, <1>9, WalkFacts
  <2>2. CASE n + 1 \in 1..MaxRecords
    <3>1. Walk[n + 1] = recs[Walk[n]].next
      <4>1. Walk[n + 1] = IF n + 1 = 1 THEN metaoffset
               ELSE IF Walk[(n + 1) - 1] = 0 THEN 0 ELSE recs[Walk[(n + 1) - 1]].next
        BY <2>2, WalkStep
      <4>2. n + 1 # 1 /\ (n + 1) - 1 = n
        BY <1>4
      <4> QED
        BY <2>1, <4>1, <4>2
    <3> QED
      BY <1>4, <1>6, <2>2, <3>1
  <2>3. CASE n + 1 \notin 1..MaxRecords
    <3>1. n = k /\ n = MaxRecords
      BY <1>1, <1>4, <2>3
    <3>2. Walk[n] = Len(recs)
      BY <1>1, <2>1, <3>1
    <3> QED
      BY <2>1, <3>1, <3>2, FileFacts
  <2> QED
    BY <2>2, <2>3
<1>13. \A n \in 1..k : Visited[n] = Walk[n]
  BY <1>8
<1>14. metaoffset = IF Len(Visited) = 0 THEN 0 ELSE Visited[1]
  BY <1>4, <1>10, <1>11, <1>13
<1>15. \A n \in 1..k : recs[Visited[n]].next = IF n = k THEN 0 ELSE Visited[n + 1]
  BY <1>4, <1>12, <1>13
<1> QED
  BY <1>10, <1>14, <1>15 DEF Path


-----------------------------------------------------------------------------
(* What a call that reports success has done *)

\* The call stands between two places of the chain: prev is the record before place k.
Place(k) == /\ k \in 1..(Len(Visited) + 1)
            /\ prev = IF k = 1 THEN 0 ELSE Visited[k - 1]

Sought == Positions(before, call.tag, call.index)
Alike(e) == call.tag = Wildcard \/ e.tag = call.tag

\* A search has left the chain alone, has counted metaindex down by the entries of the
\* tag that it passed, and the entry it looks for was not among them.
Searching(k) ==
  /\ Place(k)
  /\ offset = IF k <= Len(Visited) THEN Visited[k] ELSE 0
  /\ metaindex = call.index - Cardinality({m \in 1..(k - 1) : Alike(before[m])})
  /\ \A n \in 1..(k - 1) : n \notin Sought
  /\ pc = "found" => k \in Sought

\* A write that appends a record is about to put it at place k, where the old record was
\* or, if there was none, at the end.
Adding(k) ==
  /\ Place(k) /\ Len(before) \in Nat
  /\ k \in Sought \/ (Sought = {} /\ k = Len(before) + 1)
  /\ \A m \in 1..(k - 1) : Chain[m] = before[m]

SearchInv ==
  /\ Len(recs) <= MaxRecords
  /\ pc \in {"find", "found", "append"} /\ call.op = "write" => Len(recs) < MaxRecords
  /\ pc \in {"find", "found"} => before = Chain /\ \E k \in Nat : Searching(k)
  /\ pc \in {"append", "link"} => \E k \in Nat : Adding(k)
  /\ pc = "link" => /\ Len(recs) > 0 /\ recs[Len(recs)].next = 0
                    /\ recs[Len(recs)].tag = call.tag /\ recs[Len(recs)].payload = call.payload


LEMMA ChainFacts ==
  ASSUME IInv, Len(recs) <= MaxRecords
  PROVE  /\ Visited \in Seq(1..Len(recs)) /\ Len(Visited) \in Nat
         /\ \A n \in 1..Len(Visited) : Visited[n] \in 1..Len(recs)
         /\ Len(Chain) = Len(Visited)
         /\ \A n \in 1..Len(Visited) : Chain[n] = Entry(recs[Visited[n]])
         /\ Path(Visited, metaoffset, recs)
<1>1. Path(Visited, metaoffset, recs)
  BY WalkPath
<1>2. Visited \in Seq(1..Len(recs)) /\ Len(Visited) \in Nat
  BY <1>1 DEF Path
<1>3. \A n \in 1..Len(Visited) : Visited[n] \in 1..Len(recs)
  BY <1>2
<1>4. Len(Chain) = Len(Visited) /\ \A n \in 1..Len(Visited) : Chain[n] = Entry(recs[Visited[n]])
  BY <1>2 DEF Chain
<1> QED
  BY <1>1, <1>2, <1>3, <1>4

\* The walk after a step is the path that can be shown for it.
LEMMA NextVisited ==
  ASSUME IInv', Len(recs') <= MaxRecords, NEW q, Path(q, metaoffset', recs')
  PROVE  Visited' = q
<1>1. (IInv /\ Len(recs) <= MaxRecords => Path(Visited, metaoffset, recs))'
  BY WalkPath, PTL
<1>2. Path(Visited', metaoffset', recs')
  BY <1>1 DEF Path
<1>3. Len(recs') \in Nat
  BY DEF IInv, TypeOK
<1> QED
  BY <1>2, <1>3, PathUnique

LEMMA SameVisited ==
  ASSUME IInv, IInv', Len(recs') <= MaxRecords, Len(recs) <= Len(recs'),
         metaoffset' = metaoffset,
         \A m \in 1..Len(recs) : recs'[m].next = recs[m].next
  PROVE  Visited' = Visited
<1>1. Len(recs) \in Nat /\ Len(recs') \in Nat
  BY DEF IInv, TypeOK
<1>2. Len(recs) <= MaxRecords
  BY <1>1, BoundAssumption
<1> DEFINE V == Visited
<1>3. V \in Seq(1..Len(recs)) /\ Path(V, metaoffset, recs)
  BY <1>2, ChainFacts
<1> HIDE DEF V
<1>4. V \in Seq(1..Len(recs'))
  BY <1>1, <1>3
<1>5. Path(V, metaoffset', recs')
  BY <1>3, <1>4, SMTT(40) DEF Path
<1>6. Visited' = V
  BY <1>5, NextVisited
<1> QED
  BY <1>6 DEF V

\* Records that keep their links and entries keep the chain.
LEMMA SameChain ==
  ASSUME IInv, IInv', Len(recs') <= MaxRecords, Len(recs) <= Len(recs'),
         metaoffset' = metaoffset,
         \A m \in 1..Len(recs) : recs'[m] = recs[m]
  PROVE  Visited' = Visited /\ Chain' = Chain
<1>1. Visited' = Visited
  BY SameVisited
<1>2. Len(recs) \in Nat /\ Len(recs') \in Nat
  BY DEF IInv, TypeOK
<1>3. \A n \in 1..Len(Visited) : Visited[n] \in 1..Len(recs)
  BY <1>2, ChainFacts, BoundAssumption
<1>4. Chain' = [n \in 1..Len(Visited') |-> Entry(recs'[Visited'[n]])]
  BY DEF Chain, Entry
<1>5. Chain = [n \in 1..Len(Visited) |-> Entry(recs[Visited[n]])]
  BY DEF Chain
<1>6. \A n \in 1..Len(Visited) : recs'[Visited'[n]] = recs[Visited[n]]
  BY <1>1, <1>3
<1> QED
  BY <1>1, <1>4, <1>5, <1>6

LEMMA StillChain ==
  ASSUME IInv, IInv', SearchInv, UNCHANGED fileVars
  PROVE  Visited' = Visited /\ Chain' = Chain /\ Len(recs') <= MaxRecords
<1>1. Len(recs) \in Nat /\ recs' = recs /\ metaoffset' = metaoffset
  BY FileFacts DEF fileVars
<1>2. Len(recs') <= MaxRecords
  BY <1>1 DEF SearchInv
<1> QED
  BY <1>1, <1>2, SameChain

LEMMA BeginSearch ==
  ASSUME IInv, IInv', SearchInv, NEW c, Begin(c), c.op = "write" => Len(recs) < MaxRecords
  PROVE  SearchInv'
<1> USE DEF Begin
<1>1. Visited' = Visited /\ Chain' = Chain /\ Len(recs') <= MaxRecords
  BY StillChain
<1>2. Len(recs) <= MaxRecords /\ Len(recs) \in Nat
  BY FileFacts DEF SearchInv
<1>3. Len(Visited) \in Nat /\ metaoffset = IF Len(Visited) = 0 THEN 0 ELSE Visited[1]
  BY <1>2, ChainFacts DEF Path
<1>4. c.index \in Int
  BY DEF IInv, TypeOK
<1>5. Searching(1)'
  <2>1. Place(1)'
    BY <1>1, <1>3 DEF Place
  <2>2. offset' = IF 1 <= Len(Visited) THEN Visited[1] ELSE 0
    BY <1>3
  <2>3. {m \in 1..0 : Alike(before[m])'} = {}
    OBVIOUS
  <2>4. metaindex' = call'.index - Cardinality({m \in 1..0 : Alike(before[m])'})
    BY <1>4, <2>3, FS_EmptySet
  <2>5. 1 - 1 = 0 /\ \A n \in 1..0 : n \notin Sought'
    OBVIOUS
  <2> QED
    BY <1>1, <2>1, <2>2, <2>4, <2>5 DEF Searching
<1> QED
  BY <1>1, <1>2, <1>5 DEF SearchInv, fileVars


\* Counting one entry further.
LEMMA CountStep ==
  ASSUME NEW k \in Nat \ {0}
  PROVE  Cardinality({m \in 1..k : Alike(before[m])})
           = Cardinality({m \in 1..(k - 1) : Alike(before[m])}) + (IF Alike(before[k]) THEN 1 ELSE 0)
<1> DEFINE S == {m \in 1..(k - 1) : Alike(before[m])}
           T == {m \in 1..k : Alike(before[m])}
<1>1. IsFiniteSet(S)
  <2>1. IsFiniteSet(1..(k - 1)) /\ S \in SUBSET (1..(k - 1))
    BY FS_Interval
  <2> QED
    BY <2>1, FS_Subset
<1>2. k \notin S /\ T = IF Alike(before[k]) THEN S \cup {k} ELSE S
  OBVIOUS
<1>3. Cardinality(S) \in Nat
  BY <1>1, FS_CardinalityType
<1> HIDE DEF S, T
<1>4. CASE Alike(before[k])
  <2>1. Cardinality(S \cup {k}) = Cardinality(S) + 1
    BY <1>1, <1>2, FS_AddElement
  <2> QED
    BY <1>2, <1>4, <2>1 DEF S, T
<1>5. CASE ~Alike(before[k])
  BY <1>2, <1>3, <1>5 DEF S, T
<1> QED
  BY <1>4, <1>5

LEMMA CountType ==
  ASSUME NEW k \in Nat \ {0}
  PROVE  Cardinality({m \in 1..(k - 1) : Alike(before[m])}) \in Nat
<1>1. IsFiniteSet(1..(k - 1)) /\ {m \in 1..(k - 1) : Alike(before[m])} \in SUBSET (1..(k - 1))
  BY FS_Interval
<1> QED
  BY <1>1, FS_Subset, FS_CardinalityType

\* At the record at hand: it is the one that is looked for exactly when it is of the
\* tag and metaindex has come down to 0.
LEMMA AtRecord ==
  ASSUME IInv, SearchInv, pc \in {"find", "found"}, offset # 0, NEW k \in Nat, Searching(k)
  PROVE  /\ k \in 1..Len(Visited) /\ offset = Visited[k]
         /\ before[k] = Entry(recs[offset])
         /\ Alike(before[k]) <=> Matches(recs[offset])
         /\ k \in Sought <=> Matches(recs[offset]) /\ metaindex = 0
<1>1. Len(recs) <= MaxRecords /\ before = Chain
  BY DEF SearchInv
<1>2. Len(Visited) \in Nat /\ Len(before) = Len(Visited)
  BY <1>1, ChainFacts
<1>3. k \in 1..Len(Visited) /\ offset = Visited[k]
  BY <1>2 DEF Searching, Place
<1>4. before[k] = Entry(recs[offset])
  BY <1>1, <1>3, ChainFacts
<1>5. Alike(before[k]) <=> Matches(recs[offset])
  BY <1>4 DEF Alike, Matches, Entry
<1>6. call.index \in Int
  BY CallIndex DEF IInv, CursorInv
<1> DEFINE c == Cardinality({m \in 1..(k - 1) : Alike(before[m])})
<1>7. c \in Nat /\ metaindex = call.index - c
  BY <1>3, CountType DEF Searching
<1>8. k \in Sought <=> Alike(before[k]) /\ c = call.index
  BY <1>2, <1>3 DEF Sought, Positions, Alike
<1> QED
  BY <1>3, <1>4, <1>5, <1>6, <1>7, <1>8

LEMMA FindStepSearch ==
  ASSUME IInv, IInv', SearchInv, FindStep
  PROVE  SearchInv'
<1> USE DEF FindStep
<1>1. Visited' = Visited /\ Chain' = Chain /\ Len(recs') <= MaxRecords
  BY StillChain
<1>2. PICK k \in Nat : Searching(k)
  BY DEF SearchInv
<1>3. /\ k \in 1..Len(Visited) /\ offset = Visited[k]
      /\ Alike(before[k]) <=> Matches(recs[offset])
      /\ k \in Sought <=> Matches(recs[offset]) /\ metaindex = 0
  BY <1>2, AtRecord
<1>4. before' = Chain' /\ (pc' = "find" \/ pc' = "found")
  BY <1>1 DEF SearchInv
<1>5. Sought' = Sought /\ \A e : Alike(e)' = Alike(e)
  BY DEF Sought, Alike, Positions
<1>6. CASE pc' = "found" /\ Matches(recs[offset]) /\ metaindex = 0 /\ UNCHANGED findVars
  <2>1. Searching(k)'
    BY <1>1, <1>2, <1>3, <1>5, <1>6 DEF Searching, Place, findVars
  <2> QED
    BY <1>1, <1>4, <1>6, <2>1 DEF SearchInv, fileVars
<1>7. CASE /\ ~(Matches(recs[offset]) /\ metaindex = 0) /\ pc' = pc
           /\ metaindex' = IF Matches(recs[offset]) THEN metaindex - 1 ELSE metaindex
           /\ prev' = offset /\ offset' = recs[offset].next
  <2>1. Len(recs) <= MaxRecords /\ Len(Visited) \in Nat
    BY ChainFacts DEF SearchInv
  <2>2. Place(k + 1)'
    BY <1>1, <1>3, <1>7, <2>1 DEF Place
  <2>3. offset' = IF k + 1 <= Len(Visited) THEN Visited[k + 1] ELSE 0
    <3>1. Path(Visited, metaoffset, recs)
      BY <2>1, ChainFacts
    <3>2. recs[Visited[k]].next = IF k = Len(Visited) THEN 0 ELSE Visited[k + 1]
      BY <1>3, <3>1 DEF Path
    <3> QED
      BY <1>3, <1>7, <2>1, <3>2
  <2>4. metaindex' = call.index - Cardinality({m \in 1..k : Alike(before[m])})
    <3>1. call.index \in Int
      BY CallIndex DEF IInv, CursorInv
    <3>2. /\ Cardinality({m \in 1..(k - 1) : Alike(before[m])}) \in Nat
          /\ metaindex = call.index - Cardinality({m \in 1..(k - 1) : Alike(before[m])})
      BY <1>2, <1>3, CountType DEF Searching
    <3> QED
      BY <1>3, <1>7, <3>1, <3>2, CountStep, SMTT(40)
  <2>5. \A n \in 1..k : n \notin Sought
    BY <1>2, <1>3, <1>7 DEF Searching
  <2>6. (k + 1) - 1 = k /\ k + 1 \in Nat
    OBVIOUS
  <2>7. Searching(k + 1)'
    BY <1>1, <1>5, <1>7, <2>2, <2>3, <2>4, <2>5, <2>6 DEF Searching
  <2> QED
    BY <1>1, <1>4, <1>7, <2>6, <2>7 DEF SearchInv, fileVars
<1> QED
  BY <1>6, <1>7

LEMMA FindEndSearch ==
  ASSUME IInv, IInv', SearchInv, FindEnd
  PROVE  SearchInv' /\ CallEffect
<1> USE DEF FindEnd
<1>1. Visited' = Visited /\ Chain' = Chain /\ Len(recs') <= MaxRecords
  BY StillChain
<1>2. PICK k \in Nat : Searching(k)
  BY DEF SearchInv
<1>3. Len(recs) <= MaxRecords /\ before = Chain
  BY DEF SearchInv
<1>4. Len(Visited) \in Nat /\ Len(before) = Len(Visited)
  BY <1>3, ChainFacts
<1>5. k = Len(before) + 1
  <2>1. k \in 1..Len(Visited) => Visited[k] # 0
    BY <1>3, ChainFacts
  <2> QED
    BY <1>2, <1>4, <2>1 DEF Searching, Place
<1>6. Sought = {}
  <2>1. \A n \in Sought : n \in 1..(k - 1)
    BY <1>4, <1>5 DEF Sought, Positions
  <2> QED
    BY <1>2, <2>1 DEF Searching
<1>7. CASE call.op = "write" /\ pc' = "append" /\ UNCHANGED <<call, findVars, reply, before>>
  <2>1. Sought' = Sought
    BY <1>7 DEF Sought, Positions
  <2>2. Adding(k)'
    BY <1>1, <1>2, <1>3, <1>4, <1>5, <1>6, <1>7, <2>1 DEF Adding, Place, Searching, findVars
  <2>3. SearchInv'
    BY <1>1, <1>7, <2>2 DEF SearchInv, fileVars
  <2>4. CallEffect
    BY <1>7 DEF CallEffect
  <2> QED
    BY <2>3, <2>4
<1>8. CASE call.op # "write" /\ Return(<<"not_found">>)
  <2>1. SearchInv'
    BY <1>1, <1>8 DEF SearchInv, Return
  <2>2. reply'[1] = "not_found" /\ Chain' = before
    BY <1>1, <1>3, <1>8 DEF Return
  <2>3. CallEffect
    BY <1>6, <1>8, <2>2 DEF CallEffect, Sought
  <2> QED
    BY <2>1, <2>3
<1> QED
  BY <1>7, <1>8

LEMMA ReadFoundEffect ==
  ASSUME IInv, IInv', SearchInv, ReadFound
  PROVE  CallEffect
<1> USE DEF ReadFound
<1>1. Chain' = Chain
  BY StillChain
<1>2. PICK k \in Nat : Searching(k)
  BY DEF SearchInv
<1>3. k \in Sought /\ before[k] = Entry(recs[offset]) /\ before = Chain
  BY <1>2, AtRecord DEF Searching, SearchInv, IInv, CursorInv
<1>4. CASE Return(<<"ok", Entry(recs[offset])>>)
  <2>1. reply' = <<"ok", before[k]>>
    BY <1>3, <1>4 DEF Return
  <2> QED
    BY <1>1, <1>3, <2>1 DEF CallEffect, Sought
<1>5. CASE Return(<<"error">>)
  BY <1>5 DEF CallEffect, Return
<1> QED
  BY <1>4, <1>5


\* Setting a link changes no entry.
LEMMA LinkEntry ==
  ASSUME IInv, prev # 0, NEW n, recs' = [recs EXCEPT ![prev].next = n]
  PROVE  \A m \in 1..Len(recs) : Entry(recs'[m]) = Entry(recs[m])
<1>1. recs \in Seq(Records) /\ Len(recs) \in Nat /\ prev \in 1..Len(recs)
  BY FileFacts
<1>2. recs' = [recs EXCEPT ![prev] = [recs[prev] EXCEPT !.next = n]]
  OBVIOUS
<1>3. recs[prev] \in Records
  BY <1>1
<1>4. Entry([recs[prev] EXCEPT !.next = n]) = Entry(recs[prev])
  BY <1>3 DEF Records, Entry
<1>5. ASSUME NEW m \in 1..Len(recs)
      PROVE  recs'[m] = IF m = prev THEN [recs[prev] EXCEPT !.next = n] ELSE recs[m]
  BY <1>1, <1>2
<1> QED
  BY <1>4, <1>5

\* Linking past the record at the cursor leaves it out of the chain, and no other.
LEMMA Unlinked ==
  ASSUME IInv, IInv', SearchInv, pc = "found", NEW k \in Nat, Searching(k),
         SetPreviousNext(prev, recs[offset].next)
  PROVE  /\ Len(recs') = Len(recs)
         /\ Visited' = Without(Visited, k) /\ Chain' = Without(Chain, k)
         /\ k \in 1..Len(Visited)
<1>1. Len(recs) <= MaxRecords /\ Len(recs) \in Nat
  BY FileFacts DEF SearchInv
<1> DEFINE V == Visited
           K == Len(V)
           Q == Without(V, k)
<1>2. /\ V \in Seq(1..Len(recs)) /\ K \in Nat /\ Path(V, metaoffset, recs)
      /\ \A n \in 1..K : V[n] \in 1..Len(recs)
  BY <1>1, ChainFacts
<1>3. k \in 1..K /\ offset = V[k]
  BY AtRecord DEF IInv, CursorInv
<1>4. prev = IF k = 1 THEN 0 ELSE V[k - 1]
  BY DEF Searching, Place
<1>5. \A n \in 1..K : recs[V[n]].next = IF n = K THEN 0 ELSE V[n + 1]
  BY <1>2 DEF Path
<1>6. metaoffset = V[1]
  BY <1>2, <1>3 DEF Path
<1>7. \A m, n \in 1..K : m < n => V[m] < V[n]
  BY <1>1, <1>2, FileFacts, PathForward
<1>8. /\ Q = [m \in 1..(K - 1) |-> IF m < k THEN V[m] ELSE V[m + 1]]
      /\ K - 1 \in Nat
  BY <1>2, <1>3 DEF Without
<1>9. Q \in Seq(1..Len(recs)) /\ Len(Q) = K - 1
  <2>1. \A m \in 1..(K - 1) : (IF m < k THEN V[m] ELSE V[m + 1]) \in 1..Len(recs)
    BY <1>2
  <2> QED
    BY <1>8, <2>1
<1>10. \A m \in 1..(K - 1) : Q[m] = IF m < k THEN V[m] ELSE V[m + 1]
  BY <1>8
<1> DEFINE next == recs[offset].next
<1>11. next = IF k = K THEN 0 ELSE V[k + 1]
  BY <1>3, <1>5
<1>12. k # 1 => V[k - 1] # 0
  BY <1>2, <1>3
<1> HIDE DEF V, Q, K, next
<1>13. /\ Len(recs') = Len(recs)
       /\ metaoffset' = IF k = 1 THEN next ELSE metaoffset
       /\ \A m \in 1..Len(recs) : /\ recs'[m].next = IF k # 1 /\ m = prev THEN next ELSE recs[m].next
                                  /\ Entry(recs'[m]) = Entry(recs[m])
  <2>1. CASE k = 1
    <3>1. recs' = recs /\ metaoffset' = next
      BY <1>4, <2>1 DEF SetPreviousNext, next
    <3> QED
      BY <2>1, <3>1
  <2>2. CASE k # 1
    <3>1. prev # 0
      BY <1>4, <1>12, <2>2
    <3>2. recs' = [recs EXCEPT ![prev].next = next] /\ metaoffset' = metaoffset
      BY <3>1 DEF SetPreviousNext, next
    <3> QED
      BY <2>2, <3>1, <3>2, LinkEffect, LinkEntry
  <2> QED
    BY <2>1, <2>2
<1>14. metaoffset' = IF Len(Q) = 0 THEN 0 ELSE Q[1]
  <2>1. CASE k = 1
    <3>1. K - 1 # 0 => Q[1] = V[2]
      <4>1. K - 1 # 0 => 1 \in 1..(K - 1)
        <5>1. \A x \in Nat : x # 0 => 1 \in 1..x
          OBVIOUS
        <5> QED
          BY <1>8, <5>1
      <4>2. ~(1 < k) /\ 1 + 1 = 2
        BY <2>1
      <4> QED
        BY <1>10, <4>1, <4>2
    <3> QED
      BY <1>3, <1>8, <1>9, <1>11, <1>13, <2>1, <3>1
  <2>2. CASE k # 1
    <3>1. K - 1 # 0 /\ 1 \in 1..(K - 1) /\ 1 < k
      BY <1>2, <1>3, <2>2
    <3>2. Q[1] = V[1]
      BY <1>10, <3>1
    <3> QED
      BY <1>6, <1>9, <1>13, <2>2, <3>1, <3>2
  <2> QED
    BY <2>1, <2>2
<1>15. ASSUME NEW m \in 1..(K - 1)
       PROVE  recs'[Q[m]].next = IF m = K - 1 THEN 0 ELSE Q[m + 1]
  <2>1. m \in 1..K /\ m + 1 \in 1..K /\ m \in Nat
    BY <1>2
  <2>2. CASE m < k - 1
    <3>1. Q[m] = V[m] /\ m # K - 1 /\ Q[m + 1] = V[m + 1]
      BY <1>2, <1>3, <1>10, <2>1, <2>2
    <3>2. k - 1 \in 1..K /\ V[m] < V[k - 1] /\ V[m] \in 1..Len(recs) /\ V[k - 1] \in 1..Len(recs)
      BY <1>2, <1>3, <1>7, <2>1, <2>2
    <3>3. V[m] # V[k - 1]
      BY <3>2
    <3>4. recs'[V[m]].next = recs[V[m]].next
      BY <1>4, <1>13, <3>2, <3>3
    <3> QED
      BY <1>2, <1>3, <1>5, <2>1, <2>2, <3>1, <3>4
  <2>3. CASE m = k - 1
    <3>1. Q[m] = prev /\ k # 1 /\ prev \in 1..Len(recs)
      BY <1>2, <1>3, <1>4, <1>10, <2>1, <2>3
    <3>2. recs'[Q[m]].next = next
      BY <1>13, <3>1
    <3>3. m # K - 1 => Q[m + 1] = V[k + 1]
      <4>1. m # K - 1 => m + 1 \in 1..(K - 1) /\ ~(m + 1 < k) /\ (m + 1) + 1 = k + 1
        BY <1>2, <1>3, <2>1, <2>3
      <4> QED
        BY <1>10, <4>1
    <3> QED
      BY <1>2, <1>3, <1>11, <2>3, <3>2, <3>3
  <2>4. CASE m > k - 1
    <3>1. Q[m] = V[m + 1]
      BY <1>3, <1>10, <2>1, <2>4
    <3>2. m # K - 1 => Q[m + 1] = V[m + 2]
      <4>1. m # K - 1 => m + 1 \in 1..(K - 1) /\ ~(m + 1 < k) /\ (m + 1) + 1 = m + 2
        BY <1>2, <1>3, <2>1, <2>4
      <4> QED
        BY <1>10, <4>1
    <3>3. k # 1 => V[m + 1] # prev
      <4>1. k # 1 => V[k - 1] < V[m + 1] /\ V[m + 1] \in 1..Len(recs) /\ V[k - 1] \in 1..Len(recs)
        BY <1>2, <1>3, <1>7, <2>1, <2>4
      <4> QED
        BY <1>4, <4>1
    <3>4. recs'[V[m + 1]].next = recs[V[m + 1]].next
      BY <1>2, <1>13, <2>1, <3>3
    <3>5. recs[V[m + 1]].next = IF m + 1 = K THEN 0 ELSE V[m + 2]
      <4>1. (m + 1) + 1 = m + 2
        BY <2>1
      <4> QED
        BY <1>5, <2>1, <4>1
    <3> QED
      BY <1>2, <2>1, <3>1, <3>2, <3>4, <3>5
  <2> QED
    BY <1>3, <2>1, <2>2, <2>3, <2>4
<1>16. Path(Q, metaoffset', recs')
  BY <1>9, <1>13, <1>14, <1>15 DEF Path
<1>17. Visited' = Q
  BY <1>1, <1>13, <1>16, NextVisited
<1>18. Chain' = [m \in 1..(K - 1) |-> Entry(recs'[Q[m]])]
  <2>1. Chain' = [m \in 1..Len(Visited') |-> Entry(recs'[Visited'[m]])]
    BY DEF Chain, Entry
  <2> QED
    BY <1>9, <1>17, <2>1
<1>19. \A m \in 1..(K - 1) : Entry(recs'[Q[m]]) = Entry(recs[Q[m]])
  BY <1>9, <1>13
<1>20. Len(Chain) = K /\ \A n \in 1..K : Chain[n] = Entry(recs[V[n]])
  BY <1>1, ChainFacts DEF V, K
<1>21. \A m \in 1..(K - 1) : Entry(recs[Q[m]]) = IF m < k THEN Chain[m] ELSE Chain[m + 1]
  <2> SUFFICES ASSUME NEW m \in 1..(K - 1)
               PROVE  Entry(recs[Q[m]]) = IF m < k THEN Chain[m] ELSE Chain[m + 1]
    OBVIOUS
  <2>1. m \in 1..K /\ m + 1 \in 1..K
    BY <1>2
  <2> QED
    BY <1>10, <1>20, <2>1
<1>22. Chain' = Without(Chain, k)
  BY <1>18, <1>19, <1>20, <1>21 DEF Without
<1> QED
  BY <1>3, <1>13, <1>17, <1>22 DEF V, Q, K


LEMMA DeleteFoundSearch ==
  ASSUME IInv, IInv', SearchInv, DeleteFound
  PROVE  SearchInv' /\ CallEffect
<1> USE DEF DeleteFound
<1>1. PICK k \in Nat : Searching(k)
  BY DEF SearchInv
<1>2. before = Chain /\ k \in Sought /\ Len(recs) <= MaxRecords
  BY <1>1 DEF SearchInv, Searching
<1>3. CASE SetPreviousNext(prev, recs[offset].next) /\ Return(<<"ok">>)
  <2>1. Len(recs') = Len(recs) /\ Chain' = Without(before, k)
    BY <1>1, <1>2, <1>3, Unlinked
  <2>2. SearchInv'
    BY <1>2, <1>3, <2>1 DEF SearchInv, Return
  <2>3. CallEffect
    BY <1>2, <2>1 DEF CallEffect, Sought
  <2> QED
    BY <2>2, <2>3
<1>4. CASE SetPreviousNextFails(prev, recs[offset].next) /\ Return(<<"error">>)
  BY <1>2, <1>4 DEF SearchInv, CallEffect, Return, SetPreviousNextFails
<1> QED
  BY <1>3, <1>4

LEMMA WriteUnlinksSearch ==
  ASSUME IInv, IInv', SearchInv, WriteUnlinks
  PROVE  SearchInv' /\ CallEffect
<1> USE DEF WriteUnlinks
<1>1. PICK k \in Nat : Searching(k)
  BY DEF SearchInv
<1>2. before = Chain /\ k \in Sought /\ Len(recs) < MaxRecords /\ Len(recs) \in Nat
  BY <1>1, FileFacts DEF SearchInv, Searching
<1>3. CASE /\ SetPreviousNext(prev, recs[offset].next)
           /\ pc' = "append" /\ UNCHANGED <<call, findVars, reply, before>>
  <2>1. /\ Len(recs') = Len(recs) /\ k \in 1..Len(Visited)
        /\ Visited' = Without(Visited, k) /\ Chain' = Without(Chain, k)
    BY <1>1, <1>3, Unlinked
  <2>2. Len(Visited) \in Nat /\ Len(Chain) = Len(Visited)
    BY <1>2, ChainFacts, BoundAssumption
  <2>3. /\ Len(Visited') = Len(Visited) - 1
        /\ \A m \in 1..(Len(Visited) - 1) : m < k => Visited'[m] = Visited[m] /\ Chain'[m] = Chain[m]
    BY <2>1, <2>2 DEF Without
  <2>4. prev = IF k = 1 THEN 0 ELSE Visited[k - 1]
    BY <1>1 DEF Searching, Place
  <2>5. k # 1 => k - 1 \in 1..(Len(Visited) - 1) /\ k - 1 < k
    BY <2>1, <2>2
  <2>6. Place(k)'
    BY <1>3, <2>1, <2>2, <2>3, <2>4, <2>5 DEF Place, findVars
  <2>7. Sought' = Sought
    BY <1>3 DEF Sought, Positions
  <2>8. \A m \in 1..(k - 1) : m \in 1..(Len(Visited) - 1) /\ m < k
    BY <2>1, <2>2
  <2>9. Adding(k)'
    BY <1>2, <1>3, <2>2, <2>3, <2>6, <2>7, <2>8 DEF Adding
  <2>10. SearchInv'
    BY <1>2, <1>3, <2>1, <2>9, BoundAssumption DEF SearchInv
  <2> QED
    BY <1>3, <2>10 DEF CallEffect
<1>4. CASE SetPreviousNextFails(prev, recs[offset].next) /\ Return(<<"error">>)
  BY <1>2, <1>4, BoundAssumption DEF SearchInv, CallEffect, Return, SetPreviousNextFails
<1> QED
  BY <1>3, <1>4

LEMMA WriteFitsSearch ==
  ASSUME IInv, IInv', SearchInv, WriteFits
  PROVE  SearchInv' /\ CallEffect
<1> USE DEF WriteFits
<1>1. PICK k \in Nat : Searching(k)
  BY DEF SearchInv
<1>2. before = Chain /\ k \in Sought /\ Len(recs) <= MaxRecords /\ Len(recs) \in Nat
  BY <1>1, FileFacts DEF SearchInv, Searching
<1>3. /\ k \in 1..Len(Visited) /\ offset = Visited[k] /\ Matches(recs[offset])
  BY <1>1, <1>2, AtRecord DEF IInv, CursorInv
<1>4. recs \in Seq(Records) /\ offset \in 1..Len(recs) /\ recs[offset] \in Records
  BY UnlinkFacts, FileFacts
<1>5. CASE recs' = [recs EXCEPT ![offset].payload = call.payload] /\ Return(<<"ok">>)
  <2> DEFINE new == [recs[offset] EXCEPT !.payload = call.payload]
  <2>1. recs' = [recs EXCEPT ![offset] = new]
    BY <1>5, Zenon
  <2>2. new.next = recs[offset].next /\ new.tag = recs[offset].tag /\ new.payload = call.payload
    BY <1>4 DEF Records
  <2> HIDE DEF new
  <2>3. Len(recs') = Len(recs) /\ \A m \in 1..Len(recs) : recs'[m] = IF m = offset THEN new ELSE recs[m]
    BY <1>4, <2>1
  <2>4. Visited' = Visited
    BY <1>2, <2>2, <2>3, SameVisited
  <2>5. /\ Len(Visited) \in Nat /\ Path(Visited, metaoffset, recs) /\ Len(before) = Len(Visited)
        /\ \A n \in 1..Len(Visited) : Visited[n] \in 1..Len(recs) /\ before[n] = Entry(recs[Visited[n]])
    BY <1>2, ChainFacts
  <2>6. Chain' = [n \in 1..Len(Visited) |-> Entry(recs'[Visited[n]])]
    <3>1. Chain' = [m \in 1..Len(Visited') |-> Entry(recs'[Visited'[m]])]
      BY DEF Chain, Entry
    <3> QED
      BY <2>4, <3>1
  <2>7. k \in 1..Len(Chain')
    BY <1>3, <2>5, <2>6
  <2>8. Chain'[k].tag = call.tag /\ Chain'[k].payload = call.payload
    <3>1. Chain'[k] = Entry(new)
      BY <1>3, <1>4, <2>3, <2>6
    <3>2. call.tag # Wildcard
      BY TagAssumption DEF IInv, CursorInv, Writes, Reads, Deletes
    <3>3. recs[offset].tag = call.tag
      BY <1>3, <3>2 DEF Matches
    <3> QED
      BY <2>2, <3>1, <3>3 DEF Entry
  <2>9. ASSUME NEW m \in 1..(k - 1) PROVE Chain'[m] = before[m]
    <3>1. m \in 1..Len(Visited) /\ m < k
      BY <1>3, <2>5
    <3>2. Visited[m] < Visited[k] /\ Visited[m] \in 1..Len(recs) /\ Visited[k] \in 1..Len(recs)
      BY <1>2, <1>3, <2>5, <3>1, FileFacts, PathForward
    <3>3. recs'[Visited[m]] = recs[Visited[m]]
      BY <1>2, <1>3, <2>3, <3>2
    <3> QED
      BY <2>5, <2>6, <3>1, <3>3
  <2>10. CallEffect
    BY <1>2, <2>7, <2>8, <2>9 DEF CallEffect, Sought
  <2>11. SearchInv'
    BY <1>2, <1>5, <2>3 DEF SearchInv, Return
  <2> QED
    BY <2>10, <2>11
<1>6. CASE Return(<<"error">>) /\ recs' \in {recs, [recs EXCEPT ![offset].payload.val = Torn]}
  <2>1. Len(recs') = Len(recs)
    BY <1>4, <1>6
  <2> QED
    BY <1>2, <1>6, <2>1 DEF SearchInv, CallEffect, Return
<1> QED
  BY <1>5, <1>6

LEMMA WriteAppendsSearch ==
  ASSUME IInv, IInv', SearchInv, WriteAppends
  PROVE  SearchInv' /\ CallEffect
<1> USE DEF WriteAppends
<1>1. PICK k \in Nat : Adding(k)
  BY DEF SearchInv
<1>2. Len(recs) < MaxRecords /\ Len(recs) \in Nat /\ recs \in Seq(Records)
  <2>1. call.op = "write"
    BY DEF IInv, CursorInv, Writes
  <2> QED
    BY <2>1, FileFacts DEF SearchInv
<1>3. CASE recs' = Append(recs, NewRecord(0)) /\ pc' = "link" /\ UNCHANGED <<call, findVars, reply, before>>
  <2> DEFINE new == NewRecord(0)
  <2>1. new.next = 0 /\ new.tag = call.tag /\ new.payload = call.payload
    BY DEF NewRecord
  <2> HIDE DEF new
  <2>2. /\ Len(recs') = Len(recs) + 1 /\ recs'[Len(recs) + 1] = new
        /\ \A m \in 1..Len(recs) : recs'[m] = recs[m]
    BY <1>2, <1>3 DEF new
  <2>3. Len(recs') <= MaxRecords /\ Len(recs) <= Len(recs')
    BY <1>2, <2>2, BoundAssumption
  <2>4. Visited' = Visited /\ Chain' = Chain
    BY <2>2, <2>3, SameChain
  <2>5. Sought' = Sought
    BY <1>3 DEF Sought, Positions
  <2>6. Adding(k)'
    BY <1>1, <1>3, <2>4, <2>5 DEF Adding, Place, findVars
  <2>7. SearchInv'
    BY <1>2, <1>3, <2>1, <2>2, <2>3, <2>6 DEF SearchInv
  <2> QED
    BY <1>3, <2>7 DEF CallEffect
<1>4. CASE UNCHANGED recs /\ Return(<<"error">>)
  BY <1>2, <1>4, BoundAssumption DEF SearchInv, CallEffect, Return
<1> QED
  BY <1>3, <1>4


\* Linking the new record ends the chain with it, at the place that was found.
LEMMA WriteLinksSearch ==
  ASSUME IInv, IInv', SearchInv, WriteLinks
  PROVE  SearchInv' /\ CallEffect
<1> USE DEF WriteLinks
<1>1. PICK k \in Nat : Adding(k)
  BY DEF SearchInv
<1>2. Len(recs) <= MaxRecords /\ Len(recs) \in Nat /\ recs \in Seq(Records) /\ call.op = "write"
  BY FileFacts DEF SearchInv, IInv, CursorInv, Writes
<1> DEFINE new == Len(recs)
           V == Visited
           Q == [n \in 1..k |-> IF n = k THEN new ELSE V[n]]
<1>3. /\ new \in 1..Len(recs) /\ recs[new].next = 0
      /\ recs[new].tag = call.tag /\ recs[new].payload = call.payload
  BY <1>2 DEF SearchInv
<1>4. /\ V \in Seq(1..Len(recs)) /\ Len(V) \in Nat /\ Path(V, metaoffset, recs)
      /\ \A n \in 1..Len(V) : V[n] \in 1..Len(recs) /\ Chain[n] = Entry(recs[V[n]])
  BY <1>2, ChainFacts
<1>5. /\ k \in 1..(Len(V) + 1) /\ prev = IF k = 1 THEN 0 ELSE V[k - 1]
      /\ k \in Sought \/ (Sought = {} /\ k = Len(before) + 1)
      /\ \A m \in 1..(k - 1) : Chain[m] = before[m]
  BY <1>1 DEF Adding, Place
<1>6. \A n \in 1..Len(V) : recs[V[n]].next = IF n = Len(V) THEN 0 ELSE V[n + 1]
  BY <1>4 DEF Path
<1>7. \A m, n \in 1..Len(V) : m < n => V[m] < V[n]
  BY <1>2, <1>4, FileFacts, PathForward
<1>8. prev # new
  BY <1>2 DEF IInv, CursorInv, TypeOK, Offsets
<1>9. k # 1 => k - 1 \in 1..Len(V) /\ prev = V[k - 1] /\ prev \in 1..Len(recs) /\ metaoffset = V[1]
  <2>1. k # 1 => k - 1 \in 1..Len(V) /\ Len(V) # 0
    BY <1>4, <1>5
  <2> QED
    BY <1>4, <1>5, <2>1 DEF Path
<1>10. /\ \A n \in 1..(k - 1) : n \in 1..k /\ n \in 1..Len(V) /\ Q[n] = V[n]
       /\ k \in 1..k /\ Q[k] = new
  BY <1>4, <1>5
<1>11. Q \in Seq(1..Len(recs)) /\ Len(Q) = k
  <2>1. \A n \in 1..k : (IF n = k THEN new ELSE V[n]) \in 1..Len(recs)
    BY <1>3, <1>4, <1>5
  <2> QED
    BY <1>5, <2>1
<1> HIDE DEF new, V, Q
<1>12. CASE SetPreviousNext(prev, new) /\ Return(<<"ok">>)
  <2>1. /\ Len(recs') = Len(recs)
        /\ metaoffset' = IF k = 1 THEN new ELSE metaoffset
        /\ \A m \in 1..Len(recs) : /\ recs'[m].next = IF k # 1 /\ m = prev THEN new ELSE recs[m].next
                                   /\ Entry(recs'[m]) = Entry(recs[m])
    <3>1. CASE k = 1
      BY <1>5, <1>12, <3>1 DEF SetPreviousNext
    <3>2. CASE k # 1
      <4>1. prev # 0
        BY <1>9, <3>2
      <4>2. recs' = [recs EXCEPT ![prev].next = new] /\ metaoffset' = metaoffset
        BY <1>12, <4>1 DEF SetPreviousNext
      <4> QED
        BY <3>2, <4>1, <4>2, LinkEffect, LinkEntry
    <3> QED
      BY <3>1, <3>2
  <2>2. metaoffset' = Q[1]
    <3>1. CASE k = 1
      BY <1>10, <2>1, <3>1
    <3>2. CASE k # 1
      <4>1. 1 \in 1..(k - 1)
        BY <1>5, <3>2
      <4> QED
        BY <1>9, <1>10, <2>1, <3>2, <4>1
    <3> QED
      BY <3>1, <3>2
  <2>3. ASSUME NEW n \in 1..k PROVE recs'[Q[n]].next = IF n = k THEN 0 ELSE Q[n + 1]
    <3>1. CASE n = k
      BY <1>3, <1>8, <1>10, <2>1, <3>1
    <3>2. CASE n = k - 1
      <4>1. k # 1 /\ n \in 1..(k - 1) /\ n # k /\ n + 1 = k
        BY <1>5, <3>2
      <4>2. Q[n] = prev
        BY <1>9, <1>10, <3>2, <4>1
      <4> QED
        BY <1>9, <1>10, <2>1, <4>1, <4>2
    <3>3. CASE n < k - 1
      <4>1. n \in 1..(k - 1) /\ n + 1 \in 1..(k - 1) /\ n # k /\ k # 1 /\ k - 1 \in 1..Len(V)
        BY <1>5, <1>9, <3>3
      <4>2. Q[n] = V[n] /\ Q[n + 1] = V[n + 1] /\ n \in 1..Len(V) /\ n # Len(V)
        BY <1>4, <1>10, <3>3, <4>1
      <4>3. V[n] < V[k - 1] /\ V[n] \in 1..Len(recs) /\ V[k - 1] \in 1..Len(recs)
        BY <1>4, <1>7, <3>3, <4>1, <4>2
      <4>4. V[n] # prev
        BY <1>9, <4>1, <4>3
      <4>5. recs'[V[n]].next = recs[V[n]].next
        BY <2>1, <4>3, <4>4
      <4> QED
        BY <1>6, <4>1, <4>2, <4>5
    <3> QED
      BY <1>5, <3>1, <3>2, <3>3
  <2>4. Path(Q, metaoffset', recs')
    BY <1>5, <1>11, <2>1, <2>2, <2>3 DEF Path
  <2>5. Visited' = Q
    BY <1>2, <2>1, <2>4, NextVisited
  <2>6. Chain' = [n \in 1..k |-> Entry(recs'[Q[n]])]
    <3>1. Chain' = [m \in 1..Len(Visited') |-> Entry(recs'[Visited'[m]])]
      BY DEF Chain, Entry
    <3> QED
      BY <1>11, <2>5, <3>1
  <2>7. \A n \in 1..k : Chain'[n] = Entry(recs[Q[n]])
    <3>1. \A n \in 1..k : Q[n] \in 1..Len(recs)
      BY <1>11
    <3> QED
      BY <2>1, <2>6, <3>1
  <2>8. k \in 1..Len(Chain')
    BY <1>5, <2>6
  <2>9. Chain'[k].tag = call.tag /\ Chain'[k].payload = call.payload
    <3>1. Chain'[k] = Entry(recs[new])
      BY <1>10, <2>7
    <3> QED
      BY <1>3, <3>1 DEF Entry
  <2>10. \A m \in 1..(k - 1) : Chain'[m] = before[m]
    BY <1>4, <1>5, <1>10, <2>7
  <2>11. CallEffect
    BY <1>2, <1>5, <2>8, <2>9, <2>10 DEF CallEffect, Sought
  <2>12. SearchInv'
    BY <1>2, <1>12, <2>1 DEF SearchInv, Return
  <2> QED
    BY <2>11, <2>12
<1>13. CASE SetPreviousNextFails(prev, new) /\ Return(<<"error">>)
  BY <1>2, <1>13 DEF SearchInv, CallEffect, Return, SetPreviousNextFails
<1> QED
  BY <1>12, <1>13 DEF new

LEMMA NextSearch ==
  IInv /\ SearchInv /\ [Next]_vars => SearchInv' /\ [CallEffect]_vars
<1> SUFFICES ASSUME IInv, SearchInv, [Next]_vars PROVE SearchInv' /\ [CallEffect]_vars
  OBVIOUS
<1>1. IInv'
  BY NextInv
<1>2. ASSUME NEW c, Begin(c), c.op = "write" => Len(recs) < MaxRecords
      PROVE  SearchInv' /\ CallEffect
  <2>1. SearchInv'
    BY <1>1, <1>2, BeginSearch
  <2> QED
    BY <1>2, <2>1 DEF Begin, CallEffect
<1>3. ASSUME NEW c \in Reads \cup Deletes, Begin(c) PROVE SearchInv' /\ CallEffect
  <2>1. c.op # "write"
    BY DEF Reads, Deletes
  <2> QED
    BY <1>2, <1>3, <2>1
<1>4. CASE FindStep
  BY <1>1, <1>4, FindStepSearch DEF FindStep, CallEffect
<1>5. CASE FindFails \/ ReadFound
  <2>1. SearchInv'
    BY <1>5 DEF FindFails, ReadFound, Return, SearchInv, fileVars
  <2>2. FindFails => CallEffect
    BY DEF FindFails, Return, CallEffect
  <2> QED
    BY <1>1, <1>5, <2>1, <2>2, ReadFoundEffect
<1>6. CASE Step
  BY <1>1, <1>4, <1>5, <1>6, FindEndSearch, DeleteFoundSearch, WriteFitsSearch, WriteUnlinksSearch,
     WriteAppendsSearch, WriteLinksSearch DEF Step
<1>7. CASE Reopen
  BY <1>7 DEF Reopen, SearchInv, CallEffect
<1>8. CASE UNCHANGED vars
  <2>1. UNCHANGED fileVars /\ UNCHANGED <<pc, call, findVars, before>>
    BY <1>8 DEF vars
  <2>2. Visited' = Visited /\ Chain' = Chain
    BY <1>1, <2>1, StillChain
  <2>3. Sought' = Sought /\ \A e : Alike(e)' = Alike(e)
    BY <2>1 DEF Sought, Positions, Alike
  <2>4. \A k \in Nat : Place(k)' <=> Place(k)
    BY <2>1, <2>2 DEF Place, findVars
  <2>5. \A k \in Nat : Searching(k)' <=> Searching(k)
    BY <2>1, <2>2, <2>3, <2>4 DEF Searching, findVars
  <2>6. \A k \in Nat : Adding(k)' <=> Adding(k)
    BY <2>1, <2>2, <2>3, <2>4 DEF Adding
  <2>7. SearchInv'
    BY <2>1, <2>2, <2>5, <2>6 DEF SearchInv, fileVars
  <2> QED
    BY <1>8, <2>7
<1> QED
  BY <1>2, <1>3, <1>6, <1>7, <1>8 DEF Next, Writes

\* What read_metadata, write_metadata and delete_metadata report as done is done, many
\* steps after they were called, in a file of any number of records and after any earlier
\* failures: the entry asked for was returned, that entry and no other was removed, or
\* what was written stands at its index behind entries that have not changed.
THEOREM CallsDoWhatTheySay == SafeSpec => CallEffects
<1>1. Init => SearchInv
  <2> SUFFICES ASSUME Init PROVE SearchInv
    OBVIOUS
  <2>1. Len(recs) = 0 /\ pc = "idle"
    BY DEF Init
  <2> QED
    BY <2>1, BoundAssumption DEF SearchInv
<1> QED
  BY <1>1, InitInv, NextInv, NextSearch, PTL DEF SafeSpec, CallEffects

=============================================================================
