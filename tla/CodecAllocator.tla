--------------------------- MODULE CodecAllocator ---------------------------
(***************************************************************************)
(* chd_zlib_allocator and chd_lzma_allocator (chdcodec.cpp): blocks that a *)
(* library frees are kept in a table and handed out again to a request of  *)
(* the same rounded size.                                                  *)
(***************************************************************************)
EXTENDS Integers, Sequences, FiniteSets, FiniteSetsExt

CONSTANTS Slots,       \* MAX_ZLIB_ALLOCS, MAX_LZMA_ALLOCS: 64
          Requests,    \* sizes a library asks for
          Unit,        \* sizes are rounded up to this: 0x400
          MaxLive,     \* bound: blocks a library holds at a time
          MaxBlocks    \* bound: blocks ever allocated
ASSUME AllocatorAssumption ==
  /\ Slots \in Nat \ {0} /\ Unit \in Nat \ {0, 1} /\ Requests \subseteq Nat /\ MaxLive \in Nat /\ MaxBlocks \in Nat

VARIABLES allocptr,    \* m_allocptr: a block or 0 in every slot
          heap,        \* block -> [size, used]: its first word, used being the low bit
          held,        \* what the library holds: [block, want]
          peak         \* per rounded size, the most blocks held at once

avars == <<allocptr, heap, held, peak>>

Rounded(n) == ((n + Unit - 1) \div Unit) * Unit
Sizes == {Rounded(n) : n \in Requests}

AllocInit ==
  /\ allocptr = [s \in 1..Slots |-> 0]
  /\ heap = <<>>
  /\ held = {}
  /\ peak = [s \in Sizes |-> 0]

HeldOf(h, size) == Cardinality({x \in h : Rounded(x.want) = size})
Hold(block, want) ==
  /\ held' = held \cup {[block |-> block, want |-> want]}
  /\ peak' = [peak EXCEPT ![Rounded(want)] = Max({@, HeldOf(held', Rounded(want))})]

\* Slots with an idle block of exactly that size.
Matching(size) == {s \in 1..Slots : allocptr[s] # 0 /\ heap[allocptr[s]] = [size |-> size, used |-> FALSE]}

\* Mutant: a block handed out again is not marked.
FastReuse_Unmarked(want) ==
  /\ Cardinality(held) < MaxLive /\ Matching(Rounded(want)) # {}
  /\ Hold(allocptr[Min(Matching(Rounded(want)))], want)
  /\ UNCHANGED <<allocptr, heap>>

\* fast_alloc, a block that matches: the first one.
FastReuse(want) ==
  /\ Cardinality(held) < MaxLive /\ Matching(Rounded(want)) # {}
  /\ LET block == allocptr[Min(Matching(Rounded(want)))] IN
     /\ heap' = [heap EXCEPT ![block].used = TRUE]
     /\ Hold(block, want)
  /\ UNCHANGED allocptr

\* fast_alloc, a new block; it is not remembered if the table is full.
FastAlloc(want) ==
  /\ Cardinality(held) < MaxLive /\ Matching(Rounded(want)) = {} /\ Len(heap) < MaxBlocks
  /\ heap' = Append(heap, [size |-> Rounded(want), used |-> TRUE])
  /\ LET free == {s \in 1..Slots : allocptr[s] = 0} IN
     allocptr' = IF free = {} THEN allocptr ELSE [allocptr EXCEPT ![Min(free)] = Len(heap')]
  /\ Hold(Len(heap'), want)

\* Mutant: the mark stays.
FastFree_KeepsMark(h) == /\ held' = held \ {h} /\ UNCHANGED <<allocptr, heap, peak>>

\* fast_free: a block in the table can be used again, any other is lost.
FastFree(h) ==
  /\ held' = held \ {h}
  /\ heap' = IF \E s \in 1..Slots : allocptr[s] = h.block
             THEN [heap EXCEPT ![h.block].used = FALSE] ELSE heap
  /\ UNCHANGED <<allocptr, peak>>

AllocNext == \/ \E n \in Requests : FastReuse(n) \/ FastAlloc(n)
             \/ \E h \in held : FastFree(h)
AllocSpec == AllocInit /\ [][AllocNext]_avars

\* The library never holds one block twice, and every block is as large as it asked:
\* what fast_alloc returns is not in use.
BlocksSeparate ==
  /\ \A x, y \in held : x.block = y.block => x = y
  /\ \A x \in held : heap[x.block].size >= x.want

BlocksOf(h, size) == {b \in DOMAIN h : h[b].size = size}
\* Freed blocks come back: no more blocks of a size exist than were held at once, so
\* a codec's memory does not grow with the hunks it compresses.
NoGrowth == \A s \in Sizes : Cardinality(BlocksOf(heap, s)) <= peak[s]

\* The allocator behind the libraries hands out no block twice and grows only as far as
\* the blocks in use at one time (chdcodec.cpp:847).
BlocksSound == BlocksSeparate /\ NoGrowth
=============================================================================
