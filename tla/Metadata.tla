------------------------------ MODULE Metadata ------------------------------
(***************************************************************************)
(* The metadata of an open, writeable CHD (lib/util/chd.cpp): records      *)
(* appended to the file and chained through their `next' fields, the head  *)
(* of the chain in the header and, in memory, in m_metaoffset.             *)
(*                                                                         *)
(* One action is one record visited by metadata_find or one write to the   *)
(* file.  A record's file offset is the number of the append that created  *)
(* it; 0 is the null offset.  A link is written whole or not at all.  Only *)
(* a compressed CHD has an overall SHA-1 to refresh, and the crate opens   *)
(* none for writing.                                                       *)
(***************************************************************************)
EXTENDS Integers, Sequences, FiniteSets

CONSTANTS Tags,        \* metadata tags in use
          Wildcard,    \* CHDMETATAG_WILDCARD
          Indices,     \* metaindex arguments of the users' calls
          Vals, Sizes, \* contents and lengths of what a user writes
          Torn,        \* a mixture of two contents
          Flags,       \* metadata flags
          MaxRecords,  \* bound: records ever appended to the file
          IoMayFail,   \* reads and writes of the file may fail
          Null

Payloads == [val : Vals \cup {Torn}, len : Sizes]

ASSUME TagAssumption == Wildcard \notin Tags
ASSUME IndexAssumption == Indices \subseteq Nat
ASSUME TornAssumption == Torn \notin Vals
ASSUME SizeAssumption == Sizes \subseteq Nat \ {0}   \* write_metadata rejects 0 bytes
ASSUME BoundAssumption == MaxRecords \in Nat /\ IoMayFail \in BOOLEAN

VARIABLES
  metaoffset, \* m_metaoffset
  diskMeta,   \* the same field in the file's header
  recs,       \* the records in the file
  pc,         \* "idle" | "find" | "found" | "append" | "link"
  call,       \* the call in progress and its arguments, or Null
  prev, offset, metaindex, \* metadata_find's metaentry.prev, .offset, and its count
  reply,      \* how the last call returned
  before,     \* history: the chain when the call in progress started
  gone        \* history: records that a successful call took off the chain

fileVars == <<metaoffset, diskMeta, recs>>
findVars == <<prev, offset, metaindex>>
vars == <<fileVars, pc, call, findVars, reply, before, gone>>

Records == [tag : Tags, flags : Flags, payload : Payloads, next : Nat]
Reads == [op : {"read"}, tag : Tags \cup {Wildcard}, index : Indices]
Deletes == [op : {"delete"}, tag : Tags, index : Indices]
\* clone_all_metadata writes each record of the source with index (uint32_t)-1, which
\* metadata_find takes as an int32_t and never counts down to 0.
CloneIndex == -1
Writes == [op : {"write"}, tag : Tags, index : Indices \cup {CloneIndex},
           payload : [val : Vals, len : Sizes], flags : Flags]

\* The offsets that a walk from m_metaoffset comes to, 0 once it is over (at most
\* MaxRecords of them, whatever the links), and the records it visits.
Walk[n \in 1..MaxRecords] ==
  IF n = 1 THEN metaoffset ELSE IF Walk[n - 1] = 0 THEN 0 ELSE recs[Walk[n - 1]].next
Visited == [n \in 1..Cardinality({m \in 1..MaxRecords : Walk[m] # 0}) |-> Walk[n]]
Entry(r) == [tag |-> r.tag, flags |-> r.flags, payload |-> r.payload]
Chain == [n \in 1..Len(Visited) |-> Entry(recs[Visited[n]])]

\* create_common: no metadata.
Init ==
  /\ metaoffset = 0 /\ diskMeta = 0 /\ recs = <<>>
  /\ pc = "idle" /\ call = Null
  /\ prev = 0 /\ offset = 0 /\ metaindex = 0
  /\ reply = Null
  /\ before = <<>> /\ gone = {}

-----------------------------------------------------------------------------
(* metadata_find *)

\* Every call starts with a search from the head of the chain.
Begin(c) ==
  /\ pc = "idle"
  /\ pc' = "find"
  /\ call' = c
  /\ prev' = 0 /\ offset' = metaoffset /\ metaindex' = c.index
  /\ before' = Chain
  /\ reply' = Null
  /\ UNCHANGED <<fileVars, gone>>

\* The locals of the call go with it.
Return(r) == /\ pc' = "idle" /\ reply' = r
             /\ call' = Null
             /\ prev' = 0 /\ offset' = 0 /\ metaindex' = 0
             /\ before' = <<>>

Matches(r) == call.tag = Wildcard \/ r.tag = call.tag

\* Mutant: take the first record of the tag, whatever the index.
FindStep_FirstMatch ==
  /\ pc = "find" /\ offset # 0
  /\ \/ /\ Matches(recs[offset])
        /\ pc' = "found"
        /\ UNCHANGED findVars
     \/ /\ ~Matches(recs[offset])
        /\ prev' = offset /\ offset' = recs[offset].next
        /\ UNCHANGED <<pc, metaindex>>
  /\ UNCHANGED <<fileVars, call, reply, before, gone>>

\* Read one record's header: it is the one, or go on to the next.
FindStep ==
  /\ pc = "find" /\ offset # 0
  /\ \/ /\ Matches(recs[offset]) /\ metaindex = 0
        /\ pc' = "found"
        /\ UNCHANGED findVars
     \/ /\ ~(Matches(recs[offset]) /\ metaindex = 0)
        /\ metaindex' = IF Matches(recs[offset]) THEN metaindex - 1 ELSE metaindex
        /\ prev' = offset /\ offset' = recs[offset].next
        /\ UNCHANGED pc
  /\ UNCHANGED <<fileVars, call, reply, before, gone>>

\* The chain ends: METADATA_NOT_FOUND, on which write_metadata appends a record.
FindEnd ==
  /\ pc = "find" /\ offset = 0
  /\ \/ /\ call.op = "write"
        /\ pc' = "append"
        /\ UNCHANGED <<call, findVars, reply, before>>
     \/ /\ call.op # "write"
        /\ Return(<<"not_found">>)
  /\ UNCHANGED <<fileVars, gone>>

\* file_read fails on a header.
FindFails ==
  /\ IoMayFail
  /\ pc = "find" /\ offset # 0
  /\ Return(<<"error">>)
  /\ UNCHANGED <<fileVars, gone>>

-----------------------------------------------------------------------------
(* The rest of read_metadata, delete_metadata and write_metadata *)

\* metadata_set_previous_next: the head, in memory and in the header, or the link
\* of the previous record.
SetPreviousNext(p, n) ==
  \/ /\ p = 0
     /\ metaoffset' = n /\ diskMeta' = n
     /\ UNCHANGED recs
  \/ /\ p # 0
     /\ recs' = [recs EXCEPT ![p].next = n]
     /\ UNCHANGED <<metaoffset, diskMeta>>

\* ... whose file_write fails: m_metaoffset has changed by then.
SetPreviousNextFails(p, n) ==
  /\ IoMayFail
  /\ metaoffset' = IF p = 0 THEN n ELSE metaoffset
  /\ UNCHANGED <<diskMeta, recs>>

Fits == call.payload.len <= recs[offset].payload.len

ReadFound ==
  /\ pc = "found" /\ call.op = "read"
  /\ \/ Return(<<"ok", Entry(recs[offset])>>)
     \/ IoMayFail /\ Return(<<"error">>)
  /\ UNCHANGED <<fileVars, gone>>

\* Mutant: forget the copy of the head in the header.
DeleteFound_MemoryOnly ==
  /\ pc = "found" /\ call.op = "delete"
  /\ \/ prev = 0 /\ metaoffset' = recs[offset].next /\ UNCHANGED <<diskMeta, recs>>
     \/ prev # 0 /\ SetPreviousNext(prev, recs[offset].next)
  /\ gone' = gone \cup {offset}
  /\ Return(<<"ok">>)

DeleteFound ==
  /\ pc = "found" /\ call.op = "delete"
  /\ \/ /\ SetPreviousNext(prev, recs[offset].next)
        /\ gone' = gone \cup {offset}
        /\ Return(<<"ok">>)
     \/ /\ SetPreviousNextFails(prev, recs[offset].next)
        /\ UNCHANGED gone
        /\ Return(<<"error">>)

\* The new data fits: overwrite it, then the length if that changed.  The record
\* keeps its flags.  When a write fails the old length governs a mixture.
WriteFits ==
  /\ pc = "found" /\ call.op = "write" /\ Fits
  /\ \/ /\ recs' = [recs EXCEPT ![offset].payload = call.payload]
        /\ Return(<<"ok">>)
     \/ /\ IoMayFail
        /\ recs' \in {recs, [recs EXCEPT ![offset].payload.val = Torn]}
        /\ Return(<<"error">>)
  /\ UNCHANGED <<metaoffset, diskMeta, gone>>

\* It does not fit: unlink the record and go on to append a new one.
WriteUnlinks ==
  /\ pc = "found" /\ call.op = "write" /\ ~Fits
  /\ \/ /\ SetPreviousNext(prev, recs[offset].next)
        /\ gone' = gone \cup {offset}
        /\ pc' = "append"
        /\ UNCHANGED <<call, findVars, reply, before>>
     \/ /\ SetPreviousNextFails(prev, recs[offset].next)
        /\ UNCHANGED gone
        /\ Return(<<"error">>)

NewRecord(next) == [tag |-> call.tag, flags |-> call.flags, payload |-> call.payload,
                    next |-> next]

\* Mutant: link the new record back to the one before it.
WriteAppends_LinksBack ==
  /\ pc = "append"
  /\ recs' = Append(recs, NewRecord(prev))
  /\ pc' = "link"
  /\ UNCHANGED <<metaoffset, diskMeta, call, findVars, reply, before, gone>>

\* Append header and data.  What a failed append leaves behind nothing points to.
WriteAppends ==
  /\ pc = "append"
  /\ \/ /\ recs' = Append(recs, NewRecord(0))
        /\ pc' = "link"
        /\ UNCHANGED <<call, findVars, reply, before>>
     \/ /\ IoMayFail
        /\ UNCHANGED recs
        /\ Return(<<"error">>)
  /\ UNCHANGED <<metaoffset, diskMeta, gone>>

\* Mutant: the offset of the end of the file instead of the header's.
WriteLinks_End ==
  /\ pc = "link"
  /\ SetPreviousNext(prev, Len(recs) + 1)
  /\ Return(<<"ok">>)
  /\ UNCHANGED gone

WriteLinks ==
  /\ pc = "link"
  /\ \/ SetPreviousNext(prev, Len(recs)) /\ Return(<<"ok">>)
     \/ SetPreviousNextFails(prev, Len(recs)) /\ Return(<<"error">>)
  /\ UNCHANGED gone

\* close, then open: parse_v5_header reads the head back.
Reopen ==
  /\ pc = "idle"
  /\ metaoffset' = diskMeta
  /\ reply' = Null
  /\ UNCHANGED <<diskMeta, recs, pc, call, findVars, before, gone>>

Step == \/ FindStep \/ FindEnd \/ FindFails
        \/ ReadFound \/ DeleteFound \/ WriteFits \/ WriteUnlinks \/ WriteAppends \/ WriteLinks

Next == \/ \E c \in Reads \cup Deletes : Begin(c)
        \/ \E c \in Writes : Len(recs) < MaxRecords /\ Begin(c)
        \/ Step
        \/ Reopen

SafeSpec == Init /\ [][Next]_vars
\* A call that has started runs on.
Spec == SafeSpec /\ WF_vars(Step)
-----------------------------------------------------------------------------
(* Properties *)

Offsets == 0..Len(recs)

TypeOK ==
  /\ recs \in Seq(Records)
  /\ metaoffset \in Offsets /\ diskMeta \in Offsets
  /\ \A n \in 1..Len(recs) : recs[n].next \in Offsets
  /\ pc \in {"idle", "find", "found", "append", "link"}
  /\ call \in Reads \cup Deletes \cup Writes \cup {Null}
  /\ prev \in Offsets /\ offset \in Offsets /\ metaindex \in Int
  /\ gone \subseteq 1..Len(recs)

\* A link only ever leads to a record appended later, whatever is deleted, moved or
\* left half done by an I/O error: the chain has no cycle, so metadata_find, which
\* has no other bound, ends.
LinksForward == \A n \in 1..Len(recs) : recs[n].next # 0 => recs[n].next > n

\* A record that a successful delete_metadata, or a write that moved it, took off
\* the chain is never met again, also after failed calls and after reopening.
NoResurrection == \A n \in 1..Len(Visited) : Visited[n] \notin gone

\* The place of the index-th entry of a tag in a chain, if there is one.
Positions(s, tag, index) ==
  {n \in 1..Len(s) :
     /\ tag = Wildcard \/ s[n].tag = tag
     /\ Cardinality({m \in 1..(n - 1) : tag = Wildcard \/ s[m].tag = tag}) = index}

Without(s, n) == [m \in 1..(Len(s) - 1) |-> IF m < n THEN s[m] ELSE s[m + 1]]

\* What a call that reports success has done, several searches and writes after it
\* started: a read returned the entry asked for; a delete removed that entry and no
\* other; a write can be read back under the same tag and index (a new entry is the
\* last), and no entry before it has changed.
CallEffect ==
  pc # "idle" /\ pc' = "idle" /\ reply'[1] # "error" =>
    LET at == Positions(before, call.tag, call.index) IN
    \/ /\ call.op # "write" /\ at = {}
       /\ reply'[1] = "not_found" /\ Chain' = before
    \/ /\ call.op = "read"
       /\ \E n \in at : reply' = <<"ok", before[n]>>
       /\ Chain' = before
    \/ /\ call.op = "delete"
       /\ \E n \in at : Chain' = Without(before, n)
    \/ /\ call.op = "write"
       /\ \E n \in 1..Len(Chain') :
            /\ n \in at \/ (at = {} /\ n = Len(before) + 1)
            /\ Chain'[n].tag = call.tag /\ Chain'[n].payload = call.payload
            /\ \A m \in 1..(n - 1) : Chain'[m] = before[m]
CallEffects == [][CallEffect]_vars

\* Every call returns: the search ends.
CallsReturn == (pc # "idle") ~> (pc = "idle")

\* docs/management.md, "MAME's core handles the complex task of shifting data blocks
\* within the file to accommodate metadata changes": a successful write changes no
\* entry but its own.
OthersKept ==
  [][pc # "idle" /\ pc' = "idle" /\ call.op = "write" /\ reply'[1] = "ok" =>
       \A n \in 1..Len(before) :
         n \notin Positions(before, call.tag, call.index) =>
           \E m \in 1..Len(Chain') : Chain'[m] = before[n]]_vars
=============================================================================
