--------------------------- MODULE WorkQueueProofs ---------------------------
(***************************************************************************)
(* Proofs about the work queue of sys/minimal_osd.cpp, for any number of   *)
(* workers, clients and items.                                             *)
(***************************************************************************)
EXTENDS WorkQueue, FiniteSetTheorems, TLAPS

(* The inductive invariant *)

Distinct(s) == \A m, n \in 1..Len(s) : s[m] = s[n] => m = n

WithItem == {"item_fast", "item_lock", "item_block", "item_check", "delete"}

Typed ==
  /\ queue \in {"live", "closing", "freed"}
  /\ items \in Seq(Items)
  /\ mem \in [Items -> {"none", "live", "deleted"}]
  /\ auto \subseteq Items
  /\ completed \subseteq Items
  /\ waitedOn \subseteq Items
  /\ ran \in [Items -> Nat]
  /\ handles \subseteq Items
  /\ wpc \in [Workers -> WorkerPCs]
  /\ witem \in [Workers -> Items \cup {NoItem}]
  /\ cpc \in [Clients -> ClientPCs]
  /\ citem \in [Clients -> Items \cup {NoItem}]
  /\ cop \in [Clients -> ClientOps]

\* An item in the FIFO is alive and has not run.
QueuedInv ==
  /\ Distinct(items)
  /\ \A i \in Elements(items) :
       /\ mem[i] = "live" /\ ran[i] = 0 /\ i \notin completed
       /\ \A w \in Workers : witem[w] # i

\* A worker holds an item only between taking it and counting it off, alone, and
\* the item is alive and not yet published.
WorkerInv ==
  /\ \A w \in Workers :
       /\ wpc[w] \notin {"run", "finish"} => witem[w] = NoItem
       /\ wpc[w] = "run" => witem[w] # NoItem /\ ran[witem[w]] = 0
       /\ witem[w] # NoItem => mem[witem[w]] = "live" /\ witem[w] \notin completed
       /\ wpc[w] = "finish" /\ witem[w] # NoItem =>
            ran[witem[w]] = 1 /\ witem[w] \notin auto
  /\ \A w, v \in Workers : witem[w] = witem[v] /\ witem[w] # NoItem => w = v

\* What has become of every item that was ever queued.
FateInv ==
  \A i \in Items :
    /\ ran[i] <= 1
    /\ i \in completed => ran[i] = 1
    /\ mem[i] = "none" => ran[i] = 0 /\ i \notin completed /\ i \notin auto
    /\ mem[i] # "none" => \/ ran[i] = 1
                          \/ i \in Elements(items)
                          \/ \E w \in Workers : wpc[w] = "run" /\ witem[w] = i
    /\ mem[i] = "live" => \/ i \in completed
                          \/ i \in Elements(items)
                          \/ \E w \in Workers : witem[w] = i

\* A client works only on an item it holds the pointer of, alone, and deletes it
\* only once it is complete.
HandlesInv == \A i \in handles : mem[i] = "live" /\ i \notin auto
HoldsInv(c) ==
  /\ cpc[c] \in WithItem => citem[c] \in handles
  /\ cpc[c] = "notify_one" /\ citem[c] # NoItem =>
       mem[citem[c]] = "live" /\ citem[c] \notin auto /\ citem[c] \notin handles
  /\ cpc[c] \notin WithItem \cup {"notify_one"} => citem[c] = NoItem
  /\ cpc[c] = "delete" => citem[c] \in completed
AloneInv == \A c, d \in Clients : citem[c] = citem[d] /\ citem[c] # NoItem => c = d
ClientInv == HandlesInv /\ (\A c \in Clients : HoldsInv(c)) /\ AloneInv

\* Workers leave only when the queue is closing and empty; while it is closing one
\* client is inside osd_work_queue_free and nobody else is in any call.
CloseInv ==
  /\ \A w \in Workers : wpc[w] = "exited" => queue # "live" /\ items = <<>>
  /\ \A c \in Clients : cpc[c] \in {"free_notify", "join"} => queue = "closing"
  /\ queue = "closing" =>
       \A c, d \in Clients : cpc[c] # "idle" /\ cpc[d] # "idle" => c = d
  /\ queue = "closing" =>
       \A c \in Clients : cpc[c] \in {"idle", "free_notify", "join"}
  /\ queue = "freed" => /\ \A w \in Workers : wpc[w] = "exited"
                        /\ \A c \in Clients : cpc[c] \in {"idle", "item_fast", "delete"}

IInv == Typed /\ CountsExact /\ QueuedInv /\ WorkerInv /\ FateInv /\ ClientInv /\ CloseInv
-----------------------------------------------------------------------------
(* The FIFO as a set *)

\* What queue->items.pop() leaves.
LEMMA TailFacts ==
  ASSUME NEW S, NEW s \in Seq(S), s # <<>>, Distinct(s)
  PROVE  /\ Tail(s) \in Seq(S) /\ Len(Tail(s)) = Len(s) - 1
         /\ Distinct(Tail(s))
         /\ Head(s) \in Elements(s)
         /\ Elements(Tail(s)) = Elements(s) \ {Head(s)}
<1>1. Len(s) \in Nat /\ Len(s) > 0
  OBVIOUS
<1>2. Tail(s) \in Seq(S) /\ Len(Tail(s)) = Len(s) - 1
  OBVIOUS
<1>3. \A n \in 1..Len(Tail(s)) : Tail(s)[n] = s[n + 1]
  OBVIOUS
<1>4. Head(s) = s[1]
  OBVIOUS
<1>5. Distinct(Tail(s))
  BY <1>1, <1>2, <1>3 DEF Distinct
<1>6. Head(s) \in Elements(s)
  BY <1>1, <1>4 DEF Elements
<1>7. ASSUME NEW e \in Elements(Tail(s))
      PROVE  e \in Elements(s) \ {Head(s)}
  <2>1. PICK n \in 1..Len(Tail(s)) : e = Tail(s)[n]
    BY DEF Elements
  <2>2. n + 1 \in 1..Len(s) /\ e = s[n + 1]
    BY <1>1, <1>2, <1>3, <2>1
  <2>3. e # s[1]
    BY <1>1, <2>2 DEF Distinct
  <2> QED
    BY <1>4, <2>2, <2>3 DEF Elements
<1>8. ASSUME NEW e \in Elements(s), e # Head(s)
      PROVE  e \in Elements(Tail(s))
  <2>1. PICK n \in 1..Len(s) : e = s[n]
    BY DEF Elements
  <2>2. n # 1
    BY <1>4, <1>8, <2>1
  <2>3. n - 1 \in 1..Len(Tail(s))
    BY <1>1, <1>2, <2>1, <2>2
  <2>4. Tail(s)[n - 1] = s[n]
    BY <1>1, <1>3, <2>1, <2>3
  <2> QED
    BY <2>1, <2>3, <2>4 DEF Elements
<1> QED
  BY <1>2, <1>5, <1>6, <1>7, <1>8

\* What pushing a batch leaves.
LEMMA ConcatFacts ==
  ASSUME NEW S, NEW s \in Seq(S), NEW b \in Seq(S), Distinct(s), Distinct(b),
         Elements(s) \cap Elements(b) = {}
  PROVE  /\ s \o b \in Seq(S) /\ Len(s \o b) = Len(s) + Len(b)
         /\ Distinct(s \o b)
         /\ Elements(s \o b) = Elements(s) \cup Elements(b)
<1>1. s \o b \in Seq(S) /\ Len(s \o b) = Len(s) + Len(b) /\ Len(s) \in Nat /\ Len(b) \in Nat
  OBVIOUS
<1>2. \A n \in 1..Len(s) : (s \o b)[n] = s[n]
  OBVIOUS
<1>3. \A n \in 1..Len(b) : (s \o b)[n + Len(s)] = b[n]
  OBVIOUS
<1>4. ASSUME NEW n \in 1..Len(s \o b)
      PROVE  \/ n \in 1..Len(s) /\ (s \o b)[n] = s[n]
             \/ n - Len(s) \in 1..Len(b) /\ (s \o b)[n] = b[n - Len(s)]
  <2>1. CASE n <= Len(s)
    BY <1>1, <1>2, <2>1
  <2>2. CASE n > Len(s)
    <3>1. n - Len(s) \in 1..Len(b)
      BY <1>1, <2>2
    <3>2. (s \o b)[(n - Len(s)) + Len(s)] = b[n - Len(s)]
      BY <1>3, <3>1
    <3>3. (n - Len(s)) + Len(s) = n
      BY <1>1
    <3> QED
      BY <3>1, <3>2, <3>3
  <2> QED
    BY <1>1, <2>1, <2>2
<1>5. Distinct(s \o b)
  <2> SUFFICES ASSUME NEW m \in 1..Len(s \o b), NEW n \in 1..Len(s \o b),
                      (s \o b)[m] = (s \o b)[n]
               PROVE  m = n
    BY DEF Distinct
  <2>1. CASE m \in 1..Len(s) /\ n \in 1..Len(s)
    BY <1>2, <2>1 DEF Distinct
  <2>2. CASE m \notin 1..Len(s) /\ n \notin 1..Len(s)
    <3>1. m - Len(s) \in 1..Len(b) /\ n - Len(s) \in 1..Len(b) /\ b[m - Len(s)] = b[n - Len(s)]
      BY <1>4, <2>2
    <3>2. m - Len(s) = n - Len(s)
      BY <3>1 DEF Distinct
    <3> QED
      BY <1>1, <3>2
  <2>3. CASE m \in 1..Len(s) /\ n \notin 1..Len(s)
    <3>1. s[m] \in Elements(s) /\ n - Len(s) \in 1..Len(b) /\ s[m] = b[n - Len(s)]
      BY <1>2, <1>4, <2>3 DEF Elements
    <3> QED
      BY <3>1 DEF Elements
  <2>4. CASE m \notin 1..Len(s) /\ n \in 1..Len(s)
    <3>1. s[n] \in Elements(s) /\ m - Len(s) \in 1..Len(b) /\ s[n] = b[m - Len(s)]
      BY <1>2, <1>4, <2>4 DEF Elements
    <3> QED
      BY <3>1 DEF Elements
  <2> QED
    BY <2>1, <2>2, <2>3, <2>4
<1>6. Elements(s \o b) \subseteq Elements(s) \cup Elements(b)
  BY <1>4 DEF Elements
<1>7. Elements(s) \subseteq Elements(s \o b)
  BY <1>1, <1>2 DEF Elements
<1>8. ASSUME NEW e \in Elements(b) PROVE e \in Elements(s \o b)
  <2>1. PICK n \in 1..Len(b) : e = b[n]
    BY DEF Elements
  <2>2. n + Len(s) \in 1..Len(s \o b) /\ (s \o b)[n + Len(s)] = e
    BY <1>1, <1>3, <2>1
  <2> QED
    BY <2>2 DEF Elements
<1> QED
  BY <1>1, <1>5, <1>6, <1>7, <1>8
-----------------------------------------------------------------------------
(* Counting *)

\* The two sets that are counted are finite.
LEMMA CountsFinite ==
  /\ IsFiniteSet(Busy) /\ Cardinality(Busy) \in Nat
  /\ IsFiniteSet(Waiting) /\ Cardinality(Waiting) \in Nat
<1>1. Busy \in SUBSET Workers /\ Waiting \in SUBSET Clients
  BY DEF Busy, Waiting
<1>2. IsFiniteSet(Busy) /\ IsFiniteSet(Waiting)
  BY <1>1, FS_Subset, WorkersAssumption, ClientsAssumption
<1> QED
  BY <1>2, FS_CardinalityType

\* A step that changes neither the counters nor what they count.
LEMMA SameCounts ==
  ASSUME CountsExact, UNCHANGED <<pending, queueWaiters, items>>, Busy' = Busy, Waiting' = Waiting
  PROVE  CountsExact'
  BY DEF CountsExact

\* The program counters of a worker that has no item in its hands.
IdlePCs == {"top", "sleep", "notify", "exited"}

\* A step in which workers only move between such places, and no item changes.
LEMMA ItemsUntouched ==
  ASSUME Typed, QueuedInv, WorkerInv, FateInv,
         UNCHANGED <<items, mem, auto, completed, ran, witem>>,
         wpc' \in [Workers -> WorkerPCs],
         \A w \in Workers : wpc'[w] = wpc[w] \/ (wpc[w] \in IdlePCs /\ wpc'[w] \in IdlePCs)
  PROVE  QueuedInv' /\ WorkerInv' /\ FateInv' /\ Busy' = Busy
<1>1. QueuedInv'
  BY DEF QueuedInv
<1>2. WorkerInv'
  BY DEF WorkerInv, IdlePCs, Typed
<1>3. FateInv'
  <2>1. \A w \in Workers : wpc[w] = "run" => wpc'[w] = "run"
    BY DEF IdlePCs
  <2> QED
    BY <2>1 DEF FateInv
<1>4. Busy' = Busy
  BY DEF Busy, IdlePCs
<1> QED
  BY <1>1, <1>2, <1>3, <1>4
-----------------------------------------------------------------------------
(* The initial state and one lemma per action *)

LEMMA InitInv == Init => IInv
<1> SUFFICES ASSUME Init PROVE IInv
  OBVIOUS
<1>1. Typed
  BY DEF Init, Typed, WorkerPCs, ClientPCs, ClientOps
<1>2. Elements(items) = {} /\ Len(items) = 0
  BY DEF Init, Elements
<1>3. CountsExact
  <2>1. Busy = {} /\ Waiting = {}
    BY DEF Init, Busy, Waiting
  <2> QED
    BY <1>2, <2>1, FS_EmptySet DEF Init, CountsExact
<1>4. QueuedInv
  BY <1>2 DEF Init, QueuedInv, Distinct
<1>5. WorkerInv
  BY DEF Init, WorkerInv
<1>6. FateInv
  BY DEF Init, FateInv
<1>7. ClientInv
  BY DEF Init, ClientInv, HandlesInv, HoldsInv, AloneInv, WithItem
<1>8. CloseInv
  BY DEF Init, CloseInv
<1> QED
  BY <1>1, <1>3, <1>4, <1>5, <1>6, <1>7, <1>8 DEF IInv

\* The outcomes of the three steps of osd_work_item_wait that evaluate the predicate:
\* the call returns, goes on to delete a complete item, or waits for one that is not.
Outcome(c) ==
  /\ \A d \in Clients \ {c} : cpc'[d] = cpc[d] /\ citem'[d] = citem[d]
  /\ \/ cpc'[c] = "idle" /\ citem'[c] = NoItem
     \/ cpc'[c] = "delete" /\ citem'[c] = citem[c] /\ citem[c] \in completed
     \/ cpc'[c] \in {"item_lock", "item_block"} /\ citem'[c] = citem[c] /\ citem[c] \notin completed

LEMMA WaitOutcome ==
  ASSUME Typed, NEW c \in Clients, ItemWaitFast(c) \/ ItemWaitLock(c) \/ ItemWaitCheck(c)
  PROVE  /\ cpc' \in [Clients -> ClientPCs] /\ citem' \in [Clients -> Items \cup {NoItem}]
         /\ cop' \in [Clients -> ClientOps]
         /\ Outcome(c)
<1>1. CASE ItemWaitReturns(c) /\ citem[c] \in completed
  BY <1>1 DEF ItemWaitReturns, Return, Outcome, Typed, ClientPCs, ClientOps
<1>2. CASE /\ citem[c] \notin completed /\ UNCHANGED <<citem, cop>>
           /\ \E p \in {"item_lock", "item_block"} : cpc' = [cpc EXCEPT ![c] = p]
  BY <1>2 DEF Outcome, Typed, ClientPCs, ClientOps
<1> QED
  BY <1>1, <1>2 DEF ItemWaitFast, ItemWaitLock, ItemWaitCheck, BlockOrReturn

LEMMA OutcomeClientInv ==
  ASSUME Typed, Typed', ClientInv, NEW c \in Clients, cpc[c] \in WithItem, Outcome(c),
         UNCHANGED <<mem, auto, completed, handles>>
  PROVE  ClientInv' /\ Waiting' = Waiting
<1>1. Waiting' = Waiting
  BY DEF Waiting, Outcome, WithItem, Typed
<1>2. HandlesInv'
  BY DEF ClientInv, HandlesInv
<1>3. ASSUME NEW d \in Clients PROVE HoldsInv(d)'
  BY DEF ClientInv, HoldsInv, Outcome, WithItem
<1>4. \A d \in Clients : citem'[d] = citem[d] \/ citem'[d] = NoItem
  BY DEF Outcome
<1>5. AloneInv'
  BY <1>4 DEF ClientInv, AloneInv
<1> QED
  BY <1>1, <1>2, <1>3, <1>5 DEF ClientInv

LEMMA WorkerNotifyInv ==
  ASSUME IInv, NEW w \in Workers, WorkerNotify(w)
  PROVE  IInv'
<1> USE DEF WorkerNotify, Woken, queueVars, itemVars
<1>1. Typed'
  BY DEF IInv, Typed, WorkerPCs, ClientPCs, ClientOps
<1>2. QueuedInv' /\ WorkerInv' /\ FateInv' /\ Busy' = Busy
  <2>1. wpc' \in [Workers -> WorkerPCs]
    BY <1>1 DEF Typed
  <2> QED
    BY <2>1, ItemsUntouched DEF IInv, Typed, WorkerPCs, ClientPCs, ClientOps, IdlePCs, queueVars, itemVars, workerVars, clientVars
<1>3. CountsExact'
  <2>1. Waiting' = Waiting
    BY DEF IInv, Typed, WorkerPCs, ClientPCs, ClientOps, Waiting
  <2> QED
    BY <1>2, <2>1, SameCounts DEF IInv, queueVars
<1>4. ClientInv'
  BY DEF IInv, Typed, WorkerPCs, ClientPCs, ClientOps, ClientInv, HandlesInv, HoldsInv, AloneInv, WithItem, itemVars
<1>5. CloseInv'
  BY DEF IInv, Typed, WorkerPCs, ClientPCs, ClientOps, CloseInv, queueVars, workerVars
<1> QED
  BY <1>1, <1>2, <1>3, <1>4, <1>5 DEF IInv

LEMMA NotifyOneInv ==
  ASSUME IInv, NEW c \in Clients, NotifyOne(c)
  PROVE  IInv'
<1> USE DEF NotifyOne, Return, queueVars
<1>1. Typed'
  BY DEF IInv, Typed, WorkerPCs, ClientPCs, ClientOps
<1>2. QueuedInv' /\ WorkerInv' /\ FateInv' /\ Busy' = Busy
  <2>1. wpc' \in [Workers -> WorkerPCs]
    BY <1>1 DEF Typed
  <2> QED
    BY <2>1, ItemsUntouched DEF IInv, Typed, WorkerPCs, ClientPCs, ClientOps, IdlePCs, queueVars, itemVars, workerVars, clientVars
<1>3. CountsExact'
  <2>1. Waiting' = Waiting
    BY DEF IInv, Typed, WorkerPCs, ClientPCs, ClientOps, Waiting
  <2> QED
    BY <1>2, <2>1, SameCounts DEF IInv, queueVars
<1>4. ClientInv'
  <2>1. \A d \in Clients \ {c} : cpc'[d] = cpc[d] /\ citem'[d] = citem[d]
    BY DEF IInv, Typed
  <2>2. cpc'[c] = "idle" /\ citem'[c] = NoItem
    BY DEF IInv, Typed
  <2>3. HandlesInv'
    BY ItemsAssumption DEF IInv, Typed, ClientInv, HandlesInv, HoldsInv
  <2>4. \A d \in Clients \ {c} : citem[d] # NoItem => citem[d] # citem[c]
    BY DEF IInv, ClientInv, AloneInv
  <2>5. ASSUME NEW d \in Clients PROVE HoldsInv(d)'
    <3>1. CASE d = c
      BY <2>2, <3>1 DEF HoldsInv, WithItem
    <3>2. CASE d # c
      BY <2>1, <2>4, <3>2 DEF IInv, ClientInv, HoldsInv, WithItem
    <3> QED
      BY <3>1, <3>2
  <2>6. AloneInv'
    BY <2>1, <2>2 DEF IInv, ClientInv, AloneInv
  <2> QED
    BY <2>3, <2>5, <2>6 DEF ClientInv
<1>5. CloseInv'
  BY DEF IInv, Typed, WorkerPCs, ClientPCs, ClientOps, CloseInv, queueVars, workerVars
<1> QED
  BY <1>1, <1>2, <1>3, <1>4, <1>5 DEF IInv

LEMMA NotifyAllInv ==
  ASSUME IInv, NEW c \in Clients, NotifyAll(c)
  PROVE  IInv'
<1> USE DEF NotifyAll, WakeAllWorkers, Return, queueVars, itemVars
<1>1. Typed'
  BY DEF IInv, Typed, WorkerPCs, ClientPCs, ClientOps
<1>2. QueuedInv' /\ WorkerInv' /\ FateInv' /\ Busy' = Busy
  <2>1. wpc' \in [Workers -> WorkerPCs]
    BY <1>1 DEF Typed
  <2> QED
    BY <2>1, ItemsUntouched DEF IInv, Typed, WorkerPCs, ClientPCs, ClientOps, IdlePCs, queueVars, itemVars, workerVars, clientVars
<1>3. CountsExact'
  <2>1. Waiting' = Waiting
    BY DEF IInv, Typed, WorkerPCs, ClientPCs, ClientOps, Waiting
  <2> QED
    BY <1>2, <2>1, SameCounts DEF IInv, queueVars
<1>4. ClientInv'
  BY DEF IInv, Typed, WorkerPCs, ClientPCs, ClientOps, ClientInv, HandlesInv, HoldsInv, AloneInv, WithItem, itemVars
<1>5. CloseInv'
  BY DEF IInv, Typed, WorkerPCs, ClientPCs, ClientOps, CloseInv, queueVars, workerVars
<1> QED
  BY <1>1, <1>2, <1>3, <1>4, <1>5 DEF IInv

LEMMA ItemWaitInv ==
  ASSUME IInv, NEW c \in Clients, NEW i \in Items, ItemWait(c, i)
  PROVE  IInv'
<1> USE DEF ItemWait, MayUse, queueVars, itemVars, workerVars
<1>1. Typed'
  BY DEF IInv, Typed, WorkerPCs, ClientPCs, ClientOps
<1>2. QueuedInv' /\ WorkerInv' /\ FateInv' /\ Busy' = Busy
  <2>1. wpc' \in [Workers -> WorkerPCs]
    BY <1>1 DEF Typed
  <2> QED
    BY <2>1, ItemsUntouched DEF IInv, Typed, WorkerPCs, ClientPCs, ClientOps, IdlePCs, queueVars, itemVars, workerVars, clientVars
<1>3. CountsExact'
  <2>1. Waiting' = Waiting
    BY DEF IInv, Typed, WorkerPCs, ClientPCs, ClientOps, Waiting
  <2> QED
    BY <1>2, <2>1, SameCounts DEF IInv, queueVars
<1>4. ClientInv'
  BY DEF IInv, Typed, WorkerPCs, ClientPCs, ClientOps, ClientInv, HandlesInv, HoldsInv, AloneInv, WithItem, itemVars
<1>5. CloseInv'
  BY DEF IInv, Typed, WorkerPCs, ClientPCs, ClientOps, CloseInv, queueVars, workerVars
<1> QED
  BY <1>1, <1>2, <1>3, <1>4, <1>5 DEF IInv

LEMMA ItemReleaseInv ==
  ASSUME IInv, NEW c \in Clients, NEW i \in Items, ItemRelease(c, i)
  PROVE  IInv'
<1> USE DEF ItemRelease, MayUse, queueVars, itemVars, workerVars
<1>1. Typed'
  BY DEF IInv, Typed, WorkerPCs, ClientPCs, ClientOps
<1>2. QueuedInv' /\ WorkerInv' /\ FateInv' /\ Busy' = Busy
  <2>1. wpc' \in [Workers -> WorkerPCs]
    BY <1>1 DEF Typed
  <2> QED
    BY <2>1, ItemsUntouched DEF IInv, Typed, WorkerPCs, ClientPCs, ClientOps, IdlePCs, queueVars, itemVars, workerVars, clientVars
<1>3. CountsExact'
  <2>1. Waiting' = Waiting
    BY DEF IInv, Typed, WorkerPCs, ClientPCs, ClientOps, Waiting
  <2> QED
    BY <1>2, <2>1, SameCounts DEF IInv, queueVars
<1>4. ClientInv'
  BY DEF IInv, Typed, WorkerPCs, ClientPCs, ClientOps, ClientInv, HandlesInv, HoldsInv, AloneInv, WithItem, itemVars
<1>5. CloseInv'
  BY DEF IInv, Typed, WorkerPCs, ClientPCs, ClientOps, CloseInv, queueVars, workerVars
<1> QED
  BY <1>1, <1>2, <1>3, <1>4, <1>5 DEF IInv

LEMMA ItemWaitFastInv ==
  ASSUME IInv, NEW c \in Clients, ItemWaitFast(c)
  PROVE  IInv'
<1> USE DEF ItemWaitFast, queueVars, itemVars, workerVars
<1>0. Outcome(c) /\ cpc[c] \in WithItem /\ citem[c] \in Items
  BY WaitOutcome DEF IInv, ClientInv, HoldsInv, Typed, WithItem
<1>1. Typed'
  BY <1>0, WaitOutcome DEF IInv, Typed
<1>2. QueuedInv' /\ WorkerInv' /\ FateInv' /\ Busy' = Busy
  <2>1. wpc' \in [Workers -> WorkerPCs]
    BY <1>1 DEF Typed
  <2> QED
    BY <2>1, ItemsUntouched DEF IInv
<1>3. ClientInv' /\ Waiting' = Waiting
  BY <1>0, <1>1, OutcomeClientInv DEF IInv
<1>4. CountsExact'
  BY <1>2, <1>3, SameCounts DEF IInv
<1>5. CloseInv'
  <2>1. CASE queue # "freed"
    BY <1>0, <2>1 DEF IInv, CloseInv, Outcome, WithItem
  <2>2. CASE queue = "freed"
    <3>1. PICK v \in Workers : TRUE
      BY WorkersAssumption
    <3>2. Elements(items) = {}
      BY <2>2, <3>1 DEF IInv, CloseInv, Elements
    <3>3. mem[citem[c]] = "live" /\ citem[c] # NoItem
      BY <1>0, ItemsAssumption DEF IInv, ClientInv, HandlesInv, HoldsInv
    <3>4. \A v1 \in Workers : witem[v1] = NoItem
      BY <2>2 DEF IInv, CloseInv, WorkerInv
    <3>5. citem[c] \in completed
      BY <1>0, <3>2, <3>3, <3>4 DEF IInv, FateInv
    <3> QED
      BY <1>0, <2>2, <3>5 DEF IInv, CloseInv, Outcome
  <2> QED
    BY <2>1, <2>2
<1> QED
  BY <1>1, <1>2, <1>3, <1>4, <1>5 DEF IInv

LEMMA ItemWaitLockInv ==
  ASSUME IInv, NEW c \in Clients, ItemWaitLock(c)
  PROVE  IInv'
<1> USE DEF ItemWaitLock, queueVars, workerVars
<1>0. Outcome(c) /\ cpc[c] \in WithItem /\ citem[c] \in Items
  BY WaitOutcome DEF IInv, ClientInv, HoldsInv, Typed, WithItem
<1>1. Typed'
  BY <1>0, WaitOutcome DEF IInv, Typed
<1>2. QueuedInv' /\ WorkerInv' /\ FateInv' /\ Busy' = Busy
  <2>1. wpc' \in [Workers -> WorkerPCs]
    BY <1>1 DEF Typed
  <2> QED
    BY <2>1, ItemsUntouched DEF IInv
<1>3. ClientInv' /\ Waiting' = Waiting
  BY <1>0, <1>1, OutcomeClientInv DEF IInv
<1>4. CountsExact'
  BY <1>2, <1>3, SameCounts DEF IInv
<1>5. CloseInv'
  BY <1>0 DEF IInv, CloseInv, Outcome, WithItem
<1> QED
  BY <1>1, <1>2, <1>3, <1>4, <1>5 DEF IInv

LEMMA ItemWaitCheckInv ==
  ASSUME IInv, NEW c \in Clients, ItemWaitCheck(c)
  PROVE  IInv'
<1> USE DEF ItemWaitCheck, queueVars, itemVars, workerVars
<1>0. Outcome(c) /\ cpc[c] \in WithItem /\ citem[c] \in Items
  BY WaitOutcome DEF IInv, ClientInv, HoldsInv, Typed, WithItem
<1>1. Typed'
  BY <1>0, WaitOutcome DEF IInv, Typed
<1>2. QueuedInv' /\ WorkerInv' /\ FateInv' /\ Busy' = Busy
  <2>1. wpc' \in [Workers -> WorkerPCs]
    BY <1>1 DEF Typed
  <2> QED
    BY <2>1, ItemsUntouched DEF IInv
<1>3. ClientInv' /\ Waiting' = Waiting
  BY <1>0, <1>1, OutcomeClientInv DEF IInv
<1>4. CountsExact'
  BY <1>2, <1>3, SameCounts DEF IInv
<1>5. CloseInv'
  BY <1>0 DEF IInv, CloseInv, Outcome, WithItem
<1> QED
  BY <1>1, <1>2, <1>3, <1>4, <1>5 DEF IInv

LEMMA ItemWaitTimeoutInv ==
  ASSUME IInv, NEW c \in Clients, ItemWaitTimeout(c)
  PROVE  IInv'
<1> USE DEF ItemWaitTimeout, Return, queueVars, itemVars, workerVars
<1>1. Typed'
  BY DEF IInv, Typed, WorkerPCs, ClientPCs, ClientOps
<1>2. QueuedInv' /\ WorkerInv' /\ FateInv' /\ Busy' = Busy
  <2>1. wpc' \in [Workers -> WorkerPCs]
    BY <1>1 DEF Typed
  <2> QED
    BY <2>1, ItemsUntouched DEF IInv, Typed, WorkerPCs, ClientPCs, ClientOps, IdlePCs, queueVars, itemVars, workerVars, clientVars
<1>3. CountsExact'
  <2>1. Waiting' = Waiting
    BY DEF IInv, Typed, WorkerPCs, ClientPCs, ClientOps, Waiting
  <2> QED
    BY <1>2, <2>1, SameCounts DEF IInv, queueVars
<1>4. ClientInv'
  BY DEF IInv, Typed, WorkerPCs, ClientPCs, ClientOps, ClientInv, HandlesInv, HoldsInv, AloneInv, WithItem, itemVars
<1>5. CloseInv'
  BY DEF IInv, Typed, WorkerPCs, ClientPCs, ClientOps, CloseInv, queueVars, workerVars
<1> QED
  BY <1>1, <1>2, <1>3, <1>4, <1>5 DEF IInv

LEMMA QueueWaitInv ==
  ASSUME IInv, NEW c \in Clients, QueueWait(c)
  PROVE  IInv'
<1> USE DEF QueueWait, itemVars, workerVars, clientVars
<1>1. Typed'
  BY DEF IInv, Typed, WorkerPCs, ClientPCs, ClientOps
<1>2. QueuedInv' /\ WorkerInv' /\ FateInv' /\ Busy' = Busy
  <2>1. wpc' \in [Workers -> WorkerPCs]
    BY <1>1 DEF Typed
  <2> QED
    BY <2>1, ItemsUntouched DEF IInv, Typed, WorkerPCs, ClientPCs, ClientOps, IdlePCs, queueVars, itemVars, workerVars, clientVars
<1>3. CountsExact'
  <2>1. CASE pending = 0
    <3>1. Waiting' = Waiting
      BY <2>1 DEF Waiting, clientVars
    <3> QED
      BY <1>2, <2>1, <3>1, SameCounts DEF IInv
  <2>2. CASE pending # 0
    <3>1. Waiting' = Waiting \cup {c} /\ c \notin Waiting
      BY <2>2 DEF IInv, Typed, Waiting
    <3>2. Cardinality(Waiting') = Cardinality(Waiting) + 1
      BY <3>1, CountsFinite, FS_AddElement
    <3> QED
      BY <1>2, <2>2, <3>2 DEF IInv, CountsExact
  <2> QED
    BY <2>1, <2>2
<1>4. ClientInv'
  BY DEF IInv, Typed, WorkerPCs, ClientPCs, ClientOps, ClientInv, HandlesInv, HoldsInv, AloneInv, WithItem, itemVars
<1>5. CloseInv'
  BY DEF IInv, Typed, WorkerPCs, ClientPCs, ClientOps, CloseInv, queueVars, workerVars
<1> QED
  BY <1>1, <1>2, <1>3, <1>4, <1>5 DEF IInv

LEMMA QueueWaitCheckInv ==
  ASSUME IInv, NEW c \in Clients, QueueWaitCheck(c)
  PROVE  IInv'
<1> USE DEF QueueWaitCheck, Return, itemVars, workerVars
<1>1. Typed'
  BY DEF IInv, Typed, WorkerPCs, ClientPCs, ClientOps
<1>2. QueuedInv' /\ WorkerInv' /\ FateInv' /\ Busy' = Busy
  <2>1. wpc' \in [Workers -> WorkerPCs]
    BY <1>1 DEF Typed
  <2> QED
    BY <2>1, ItemsUntouched DEF IInv, Typed, WorkerPCs, ClientPCs, ClientOps, IdlePCs, queueVars, itemVars, workerVars, clientVars
<1>3. CountsExact'
  <2>1. CASE pending = 0
    <3>1. Waiting' = Waiting \ {c} /\ c \in Waiting
      BY <2>1 DEF IInv, Typed, Waiting
    <3>2. Cardinality(Waiting') = Cardinality(Waiting) - 1
      BY <3>1, CountsFinite, FS_RemoveElement
    <3> QED
      BY <1>2, <2>1, <3>2 DEF IInv, CountsExact
  <2>2. CASE pending # 0
    <3>1. Waiting' = Waiting
      BY <2>2 DEF IInv, Typed, Waiting
    <3> QED
      BY <1>2, <2>2, <3>1, SameCounts DEF IInv
  <2> QED
    BY <2>1, <2>2
<1>4. ClientInv'
  BY SMTT(40) DEF IInv, Typed, WorkerPCs, ClientPCs, ClientOps, ClientInv, HandlesInv, HoldsInv, AloneInv, WithItem, itemVars
<1>5. CloseInv'
  BY SMTT(40) DEF IInv, Typed, WorkerPCs, ClientPCs, ClientOps, CloseInv, queueVars, workerVars
<1> QED
  BY <1>1, <1>2, <1>3, <1>4, <1>5 DEF IInv

LEMMA QueueWaitTimeoutInv ==
  ASSUME IInv, NEW c \in Clients, QueueWaitTimeout(c)
  PROVE  IInv'
<1> USE DEF QueueWaitTimeout, Return, itemVars, workerVars
<1>1. Typed'
  BY DEF IInv, Typed, WorkerPCs, ClientPCs, ClientOps
<1>2. QueuedInv' /\ WorkerInv' /\ FateInv' /\ Busy' = Busy
  <2>1. wpc' \in [Workers -> WorkerPCs]
    BY <1>1 DEF Typed
  <2> QED
    BY <2>1, ItemsUntouched DEF IInv, Typed, WorkerPCs, ClientPCs, ClientOps, IdlePCs, queueVars, itemVars, workerVars, clientVars
<1>3. CountsExact'
  <2>1. Waiting' = Waiting \ {c} /\ c \in Waiting
    BY DEF IInv, Typed, Waiting
  <2>2. Cardinality(Waiting') = Cardinality(Waiting) - 1
    BY <2>1, CountsFinite, FS_RemoveElement
  <2> QED
    BY <1>2, <2>2 DEF IInv, CountsExact
<1>4. ClientInv'
  BY DEF IInv, Typed, WorkerPCs, ClientPCs, ClientOps, ClientInv, HandlesInv, HoldsInv, AloneInv, WithItem, itemVars
<1>5. CloseInv'
  BY DEF IInv, Typed, WorkerPCs, ClientPCs, ClientOps, CloseInv, queueVars, workerVars
<1> QED
  BY <1>1, <1>2, <1>3, <1>4, <1>5 DEF IInv

LEMMA QueueFreeInv ==
  ASSUME IInv, NEW c \in Clients, QueueFree(c)
  PROVE  IInv'
<1> USE DEF QueueFree, itemVars, workerVars
<1>1. Typed'
  BY DEF IInv, Typed, WorkerPCs, ClientPCs, ClientOps
<1>2. QueuedInv' /\ WorkerInv' /\ FateInv' /\ Busy' = Busy
  <2>1. wpc' \in [Workers -> WorkerPCs]
    BY <1>1 DEF Typed
  <2> QED
    BY <2>1, ItemsUntouched DEF IInv, Typed, WorkerPCs, ClientPCs, ClientOps, IdlePCs, queueVars, itemVars, workerVars, clientVars
<1>3. CountsExact'
  <2>1. Waiting' = Waiting
    BY DEF IInv, Typed, WorkerPCs, ClientPCs, ClientOps, Waiting
  <2> QED
    BY <1>2, <2>1, SameCounts DEF IInv, queueVars
<1>4. ClientInv'
  BY DEF IInv, Typed, WorkerPCs, ClientPCs, ClientOps, ClientInv, HandlesInv, HoldsInv, AloneInv, WithItem, itemVars
<1>5. CloseInv'
  BY DEF IInv, Typed, WorkerPCs, ClientPCs, ClientOps, CloseInv, queueVars, workerVars
<1> QED
  BY <1>1, <1>2, <1>3, <1>4, <1>5 DEF IInv

LEMMA QueueFreeNotifyInv ==
  ASSUME IInv, NEW c \in Clients, QueueFreeNotify(c)
  PROVE  IInv'
<1> USE DEF QueueFreeNotify, WakeAllWorkers, queueVars, itemVars
<1>1. Typed'
  BY DEF IInv, Typed, WorkerPCs, ClientPCs, ClientOps
<1>2. QueuedInv' /\ WorkerInv' /\ FateInv' /\ Busy' = Busy
  <2>1. wpc' \in [Workers -> WorkerPCs]
    BY <1>1 DEF Typed
  <2> QED
    BY <2>1, ItemsUntouched DEF IInv, Typed, WorkerPCs, ClientPCs, ClientOps, IdlePCs, queueVars, itemVars, workerVars, clientVars
<1>3. CountsExact'
  <2>1. Waiting' = Waiting
    BY DEF IInv, Typed, WorkerPCs, ClientPCs, ClientOps, Waiting
  <2> QED
    BY <1>2, <2>1, SameCounts DEF IInv, queueVars
<1>4. ClientInv'
  BY DEF IInv, Typed, WorkerPCs, ClientPCs, ClientOps, ClientInv, HandlesInv, HoldsInv, AloneInv, WithItem, itemVars
<1>5. CloseInv'
  BY DEF IInv, Typed, WorkerPCs, ClientPCs, ClientOps, CloseInv, queueVars, workerVars
<1> QED
  BY <1>1, <1>2, <1>3, <1>4, <1>5 DEF IInv

LEMMA QueueFreeJoinInv ==
  ASSUME IInv, NEW c \in Clients, QueueFreeJoin(c)
  PROVE  IInv'
<1> USE DEF QueueFreeJoin, Return, itemVars, workerVars
<1>1. Typed'
  BY DEF IInv, Typed, WorkerPCs, ClientPCs, ClientOps
<1>2. QueuedInv' /\ WorkerInv' /\ FateInv' /\ Busy' = Busy
  <2>1. wpc' \in [Workers -> WorkerPCs]
    BY <1>1 DEF Typed
  <2> QED
    BY <2>1, ItemsUntouched DEF IInv, Typed, WorkerPCs, ClientPCs, ClientOps, IdlePCs, queueVars, itemVars, workerVars, clientVars
<1>3. CountsExact'
  <2>1. Waiting' = Waiting
    BY DEF IInv, Typed, WorkerPCs, ClientPCs, ClientOps, Waiting
  <2> QED
    BY <1>2, <2>1, SameCounts DEF IInv, queueVars
<1>4. ClientInv'
  BY DEF IInv, Typed, WorkerPCs, ClientPCs, ClientOps, ClientInv, HandlesInv, HoldsInv, AloneInv, WithItem, itemVars
<1>5. CloseInv'
  BY ZenonT(60) DEF IInv, Typed, WorkerPCs, ClientPCs, ClientOps, CloseInv, queueVars, workerVars
<1> QED
  BY <1>1, <1>2, <1>3, <1>4, <1>5 DEF IInv

LEMMA WorkerTakeInv ==
  ASSUME IInv, NEW w \in Workers, WorkerTake(w)
  PROVE  IInv'
<1> USE DEF WorkerTake, itemVars, clientVars
<1>1. CASE UNCHANGED <<items, witem>> /\ \E p \in {"sleep", "exited"} : wpc' = [wpc EXCEPT ![w] = p]
  <2>1. Typed'
    BY <1>1 DEF IInv, Typed, WorkerPCs
  <2>2. QueuedInv' /\ WorkerInv' /\ FateInv' /\ Busy' = Busy
    <3>1. wpc' \in [Workers -> WorkerPCs]
      BY <2>1 DEF Typed
    <3> QED
      BY <1>1, <3>1, ItemsUntouched DEF IInv, Typed, IdlePCs
  <2>3. Waiting' = Waiting
    BY DEF Waiting
  <2>4. CountsExact'
    BY <1>1, <2>2, <2>3, SameCounts DEF IInv
  <2>5. ClientInv'
    BY DEF IInv, ClientInv, HandlesInv, HoldsInv, AloneInv, WithItem
  <2>6. CloseInv'
    BY <1>1 DEF IInv, Typed, CloseInv
  <2> QED
    BY <2>1, <2>2, <2>4, <2>5, <2>6 DEF IInv
<1>2. CASE /\ items # <<>> /\ items' = Tail(items)
           /\ witem' = [witem EXCEPT ![w] = Head(items)]
           /\ wpc' = [wpc EXCEPT ![w] = "run"]
  <2> DEFINE h == Head(items)
  <2>1. /\ items' \in Seq(Items) /\ Len(items') = Len(items) - 1
        /\ Distinct(items')
        /\ h \in Elements(items) /\ Elements(items') = Elements(items) \ {h}
    BY <1>2, TailFacts DEF IInv, Typed, QueuedInv
  <2>2. h \in Items /\ h # NoItem
    BY <2>1, ItemsAssumption DEF IInv, Typed, Elements
  <2>3. wpc[w] = "top" /\ witem[w] = NoItem
    BY DEF IInv, WorkerInv
  <2> HIDE DEF h
  <2>4. Typed'
    BY <1>2, <2>1, <2>2 DEF IInv, Typed, WorkerPCs, h
  <2>5. CountsExact'
    <3>1. Busy' = Busy \cup {w} /\ w \notin Busy
      BY <1>2, <2>3 DEF Busy, IInv, Typed
    <3>2. Cardinality(Busy') = Cardinality(Busy) + 1
      BY <3>1, CountsFinite, FS_AddElement
    <3>3. Waiting' = Waiting
      BY DEF Waiting
    <3>4. Len(items) \in Nat
      BY DEF IInv, Typed
    <3> QED
      BY <2>1, <3>2, <3>3, <3>4, CountsFinite DEF IInv, CountsExact
  <2>6. /\ witem'[w] = h
        /\ \A v \in Workers \ {w} : witem'[v] = witem[v] /\ wpc'[v] = wpc[v]
        /\ wpc'[w] = "run"
    BY <1>2 DEF IInv, Typed, h
  <2>7. mem[h] = "live" /\ ran[h] = 0 /\ h \notin completed /\ \A v \in Workers : witem[v] # h
    BY <2>1 DEF IInv, QueuedInv
  <2>8. QueuedInv'
    BY <2>1, <2>6 DEF IInv, QueuedInv
  <2>9. WorkerInv'
    BY <2>2, <2>6, <2>7 DEF IInv, WorkerInv
  <2>10. FateInv'
    <3> SUFFICES ASSUME NEW i \in Items
                 PROVE  /\ mem[i] # "none" => \/ ran[i] = 1
                                              \/ i \in Elements(items')
                                              \/ \E v \in Workers : wpc'[v] = "run" /\ witem'[v] = i
                        /\ mem[i] = "live" => \/ i \in completed
                                              \/ i \in Elements(items')
                                              \/ \E v \in Workers : witem'[v] = i
      BY DEF IInv, FateInv
    <3>1. CASE i = h
      BY <2>6, <3>1
    <3>2. CASE i # h
      BY <2>1, <2>2, <2>3, <2>6, <3>2, ItemsAssumption DEF IInv, FateInv
    <3> QED
      BY <3>1, <3>2
  <2>11. ClientInv'
    BY DEF IInv, ClientInv, HandlesInv, HoldsInv, AloneInv, WithItem
  <2>12. CloseInv'
    BY <1>2, <2>6 DEF IInv, CloseInv
  <2> QED
    BY <2>4, <2>5, <2>8, <2>9, <2>10, <2>11, <2>12 DEF IInv
<1> QED
  BY <1>1, <1>2

LEMMA WorkerRunInv ==
  ASSUME IInv, NEW w \in Workers, WorkerRun(w)
  PROVE  IInv'
<1> USE DEF WorkerRun, queueVars, clientVars
<1> DEFINE i == witem[w]
<1>1. /\ wpc[w] = "run" /\ i \in Items /\ i # NoItem /\ ran[i] = 0 /\ mem[i] = "live"
      /\ i \notin completed /\ i \notin Elements(items)
      /\ \A v \in Workers \ {w} : witem[v] # i
  BY DEF IInv, Typed, WorkerInv, QueuedInv
<1>2. Typed'
  <2>1. ran' \in [Items -> Nat]
    <3>1. ran[i] + 1 \in Nat
      BY <1>1
    <3>2. ran' = [ran EXCEPT ![i] = ran[i] + 1]
      OBVIOUS
    <3> QED
      BY <1>1, <3>1, <3>2 DEF IInv, Typed
  <2>2. mem' \in [Items -> {"none", "live", "deleted"}]
    BY <1>1 DEF IInv, Typed
  <2>3. witem' \in [Workers -> Items \cup {NoItem}]
    BY DEF IInv, Typed
  <2>4. wpc' \in [Workers -> WorkerPCs]
    BY DEF IInv, Typed, WorkerPCs
  <2> QED
    BY <2>1, <2>2, <2>3, <2>4 DEF IInv, Typed
<1>3. /\ \A v \in Workers \ {w} : witem'[v] = witem[v] /\ wpc'[v] = wpc[v]
      /\ wpc'[w] = "finish"
      /\ \A j \in Items \ {i} : ran'[j] = ran[j] /\ mem'[j] = mem[j]
      /\ ran'[i] = 1
      /\ \/ i \in auto /\ witem'[w] = NoItem /\ mem'[i] = "deleted"
         \/ i \notin auto /\ witem'[w] = i /\ mem'[i] = "live"
  BY <1>1 DEF IInv, Typed
<1> HIDE DEF i
<1>4. CountsExact'
  <2>1. Busy' = Busy
    BY <1>1, <1>3 DEF Busy
  <2>2. Waiting' = Waiting
    BY DEF Waiting
  <2> QED
    BY <2>1, <2>2, SameCounts DEF IInv
<1>5. QueuedInv'
  <2>1. Elements(items) \subseteq Items \ {i}
    BY <1>1 DEF IInv, Typed, Elements
  <2>2. \A v \in Workers : witem'[v] = witem[v] \/ witem'[v] = NoItem
    BY <1>3 DEF i
  <2>3. NoItem \notin Elements(items)
    BY <2>1, ItemsAssumption
  <2> QED
    BY <1>3, <2>1, <2>2, <2>3 DEF IInv, QueuedInv
<1>6. WorkerInv'
  <2>1. \A v \in Workers \ {w} : witem[v] # NoItem => witem[v] \in Items \ {i}
    BY <1>1 DEF IInv, Typed
  <2> QED
    BY <1>1, <1>3, <2>1 DEF IInv, WorkerInv
<1>7. FateInv'
  <2> SUFFICES ASSUME NEW j \in Items
               PROVE  /\ ran'[j] <= 1
                      /\ j \in completed => ran'[j] = 1
                      /\ mem'[j] = "none" => ran'[j] = 0 /\ j \notin completed /\ j \notin auto
                      /\ mem'[j] # "none" => \/ ran'[j] = 1
                                             \/ j \in Elements(items)
                                             \/ \E v \in Workers : wpc'[v] = "run" /\ witem'[v] = j
                      /\ mem'[j] = "live" => \/ j \in completed
                                             \/ j \in Elements(items)
                                             \/ \E v \in Workers : witem'[v] = j
    BY DEF FateInv
  <2>1. CASE j = i
    BY <1>1, <1>3, <2>1
  <2>2. CASE j # i
    BY <1>1, <1>3, <2>2 DEF IInv, FateInv, i
  <2> QED
    BY <2>1, <2>2
<1>8. ClientInv'
  <2>1. i \in auto => i \notin handles
    BY DEF IInv, ClientInv, HandlesInv
  <2>2. HandlesInv'
    BY <1>3, <2>1 DEF IInv, Typed, ClientInv, HandlesInv
  <2>3. ASSUME NEW c \in Clients PROVE HoldsInv(c)'
    BY <1>3 DEF IInv, Typed, ClientInv, HoldsInv, WithItem
  <2>4. AloneInv'
    BY DEF IInv, ClientInv, AloneInv
  <2> QED
    BY <2>2, <2>3, <2>4 DEF ClientInv
<1>9. CloseInv'
  BY <1>1, <1>3 DEF IInv, CloseInv
<1> QED
  BY <1>2, <1>4, <1>5, <1>6, <1>7, <1>8, <1>9 DEF IInv

LEMMA WorkerFinishInv ==
  ASSUME IInv, NEW w \in Workers, WorkerFinish(w)
  PROVE  IInv'
<1> USE DEF WorkerFinish, clientVars
<1> DEFINE i == witem[w]
<1>1. /\ wpc[w] = "finish"
      /\ \A v \in Workers \ {w} : i # NoItem => witem[v] # i
      /\ i # NoItem => i \in Items /\ ran[i] = 1 /\ mem[i] = "live" /\ i \notin Elements(items)
  BY DEF IInv, Typed, WorkerInv, QueuedInv
<1>2. Typed'
  BY DEF IInv, Typed, WorkerPCs
<1>3. /\ \A v \in Workers \ {w} : witem'[v] = witem[v] /\ wpc'[v] = wpc[v]
      /\ witem'[w] = NoItem
      /\ wpc'[w] \in {"notify", "top"}
      /\ completed \subseteq completed'
      /\ i # NoItem => i \in completed'
      /\ \A j \in completed' : j \in completed \/ (j = i /\ i # NoItem)
  BY <1>1, ItemsAssumption DEF IInv, Typed
<1> HIDE DEF i
<1>4. CountsExact'
  <2>1. Busy' = Busy \ {w} /\ w \in Busy
    BY <1>1, <1>3 DEF Busy
  <2>2. Cardinality(Busy') = Cardinality(Busy) - 1
    BY <2>1, CountsFinite, FS_RemoveElement
  <2>3. Waiting' = Waiting
    BY DEF Waiting
  <2>4. Len(items) \in Nat
    BY DEF IInv, Typed
  <2> QED
    BY <2>2, <2>3, <2>4, CountsFinite DEF IInv, CountsExact
<1>5. QueuedInv'
  <2>1. NoItem \notin Elements(items)
    BY ItemsAssumption DEF IInv, Typed, Elements
  <2> QED
    BY <1>1, <1>3, <2>1 DEF IInv, QueuedInv
<1>6. WorkerInv'
  BY <1>1, <1>3 DEF IInv, WorkerInv, i
<1>7. FateInv'
  <2> SUFFICES ASSUME NEW j \in Items
               PROVE  /\ j \in completed' => ran[j] = 1
                      /\ mem[j] = "none" => j \notin completed'
                      /\ mem[j] # "none" => \/ ran[j] = 1
                                            \/ j \in Elements(items)
                                            \/ \E v \in Workers : wpc'[v] = "run" /\ witem'[v] = j
                      /\ mem[j] = "live" => \/ j \in completed'
                                            \/ j \in Elements(items)
                                            \/ \E v \in Workers : witem'[v] = j
    BY DEF IInv, FateInv
  <2>1. CASE j = i
    BY <1>1, <1>3, <2>1, ItemsAssumption
  <2>2. CASE j # i
    BY <1>1, <1>3, <2>2 DEF IInv, FateInv, i
  <2> QED
    BY <2>1, <2>2
<1>8. ClientInv'
  BY <1>3 DEF IInv, ClientInv, HandlesInv, HoldsInv, AloneInv, WithItem
<1>9. CloseInv'
  BY <1>1, <1>3 DEF IInv, CloseInv
<1> QED
  BY <1>2, <1>4, <1>5, <1>6, <1>7, <1>8, <1>9 DEF IInv

LEMMA QueueMultipleInv ==
  ASSUME IInv, NEW c \in Clients, NEW b \in Batches, NEW a \in BOOLEAN, QueueMultiple(c, b, a)
  PROVE  IInv'
<1> USE DEF QueueMultiple, workerVars
<1> DEFINE B == Elements(b)
<1>1. b \in Seq(Items) /\ Len(b) \in Nat /\ Len(b) > 0 /\ Distinct(b)
  BY BatchesAssumption DEF Distinct
<1>2. B \subseteq Items /\ b[1] \in B
  BY <1>1 DEF Elements
<1>3. \A i \in B : mem[i] = "none"
  OBVIOUS
<1>4. Elements(items) \cap B = {}
  BY <1>3 DEF IInv, QueuedInv
<1>5. /\ items' \in Seq(Items) /\ Len(items') = Len(items) + Len(b)
      /\ Distinct(items') /\ Elements(items') = Elements(items) \cup B
  BY <1>1, <1>4, ConcatFacts DEF IInv, Typed, QueuedInv
<1>6. /\ mem' \in [Items -> {"none", "live", "deleted"}]
      /\ \A i \in B : mem'[i] = "live"
      /\ \A i \in Items \ B : mem'[i] = mem[i]
  BY <1>2 DEF IInv, Typed
<1>7. auto' \subseteq auto \cup B /\ auto \subseteq auto'
  OBVIOUS
<1>8. /\ cpc' \in [Clients -> ClientPCs] /\ cpc'[c] \in {"notify_one", "notify_all"}
      /\ citem' \in [Clients -> Items \cup {NoItem}]
      /\ cop' \in [Clients -> ClientOps]
      /\ \A d \in Clients \ {c} : cpc'[d] = cpc[d] /\ citem'[d] = citem[d]
  BY <1>2 DEF IInv, Typed, ClientPCs, ClientOps
<1>9. \/ citem'[c] = NoItem
      \/ citem'[c] = b[1] /\ cpc'[c] = "notify_one" /\ auto' = auto
  <2>1. citem'[c] = IF a THEN NoItem ELSE b[1]
    BY DEF IInv, Typed
  <2>2. cpc'[c] = IF Len(b) = 1 THEN "notify_one" ELSE "notify_all"
    BY DEF IInv, Typed
  <2>3. CASE a
    BY <2>1, <2>3
  <2>4. CASE ~a
    <3>1. Len(b) = 1
      <4>1. ~(Len(b) > 1)
        BY <2>4, Zenon
      <4>2. ASSUME NEW n \in Nat, n > 0, ~(n > 1)
            PROVE  n = 1
        BY <4>2
      <4> QED
        BY <1>1, <4>1, <4>2, Zenon
    <3>2. auto' = auto
      BY <2>4
    <3> QED
      BY <2>1, <2>2, <2>4, <3>1, <3>2
  <2> QED
    BY <2>3, <2>4
<1>10. /\ \A i \in B : ran[i] = 0 /\ i \notin completed /\ i \notin auto /\ i \notin handles
       /\ \A i \in B : \A w \in Workers : witem[w] # i
       /\ \A i \in B : \A d \in Clients : citem[d] # i
  <2>1. ASSUME NEW i \in B PROVE i \in Items /\ i # NoItem /\ mem[i] = "none"
    BY <1>2, <1>3, ItemsAssumption
  <2>2. ASSUME NEW i \in B PROVE \A w \in Workers : witem[w] # i
    BY <2>1 DEF IInv, WorkerInv
  <2>3. ASSUME NEW i \in B PROVE i \notin handles
    BY <2>1 DEF IInv, ClientInv, HandlesInv
  <2>4. ASSUME NEW i \in B, NEW d \in Clients PROVE citem[d] # i
    BY <2>1, <2>3 DEF IInv, ClientInv, HoldsInv
  <2>5. ASSUME NEW i \in B PROVE i \notin completed /\ i \notin auto
    BY <2>1 DEF IInv, FateInv
  <2>6. ASSUME NEW i \in B PROVE ran[i] = 0
    BY <2>1 DEF IInv, FateInv
  <2> QED
    BY <2>2, <2>3, <2>4, <2>5, <2>6
<1> HIDE DEF B
<1>11. Typed'
  BY <1>2, <1>5, <1>6, <1>7, <1>8 DEF IInv, Typed
<1>12. CountsExact'
  <2>1. Busy' = Busy
    BY DEF Busy
  <2>2. Waiting' = Waiting
    BY <1>8 DEF Waiting
  <2>3. Len(items) \in Nat
    BY DEF IInv, Typed
  <2> QED
    BY <1>1, <1>5, <2>1, <2>2, <2>3, CountsFinite DEF IInv, CountsExact
<1>13. QueuedInv'
  <2>1. Elements(items) \subseteq Items \ B
    BY <1>4 DEF IInv, Typed, Elements
  <2> QED
    BY <1>5, <1>6, <1>10, <2>1 DEF IInv, QueuedInv
<1>14. WorkerInv'
  <2>1. \A w \in Workers : witem[w] # NoItem => witem[w] \in Items \ B /\ witem[w] \notin B
    BY <1>10 DEF IInv, Typed
  <2> QED
    BY <1>6, <1>7, <2>1 DEF IInv, WorkerInv
<1>15. FateInv'
  <2> SUFFICES ASSUME NEW i \in Items
               PROVE  /\ mem'[i] = "none" => ran[i] = 0 /\ i \notin completed /\ i \notin auto'
                      /\ mem'[i] # "none" => \/ ran[i] = 1
                                             \/ i \in Elements(items')
                                             \/ \E w \in Workers : wpc[w] = "run" /\ witem[w] = i
                      /\ mem'[i] = "live" => \/ i \in completed
                                             \/ i \in Elements(items')
                                             \/ \E w \in Workers : witem[w] = i
    BY DEF IInv, FateInv
  <2>1. CASE i \in B
    BY <1>5, <1>6, <2>1
  <2>2. CASE i \notin B
    BY <1>5, <1>6, <1>7, <2>2 DEF IInv, FateInv
  <2> QED
    BY <2>1, <2>2
<1>16. ClientInv'
  <2>1. HandlesInv'
    BY <1>6, <1>7, <1>10 DEF IInv, Typed, ClientInv, HandlesInv
  <2>2. ASSUME NEW d \in Clients, d # c PROVE HoldsInv(d)'
    BY <1>6, <1>7, <1>8, <1>10, <2>2 DEF IInv, Typed, ClientInv, HoldsInv, WithItem
  <2>3. HoldsInv(c)'
    BY <1>2, <1>6, <1>8, <1>9, <1>10 DEF HoldsInv, WithItem
  <2>4. AloneInv'
    BY <1>2, <1>8, <1>9, <1>10 DEF IInv, ClientInv, AloneInv
  <2> QED
    BY <2>1, <2>2, <2>3, <2>4 DEF ClientInv
<1>17. CloseInv'
  BY <1>8 DEF IInv, Typed, CloseInv
<1> QED
  BY <1>11, <1>12, <1>13, <1>14, <1>15, <1>16, <1>17 DEF IInv

LEMMA ItemDeleteInv ==
  ASSUME IInv, NEW c \in Clients, ItemDelete(c)
  PROVE  IInv'
<1> USE DEF ItemDelete, queueVars, workerVars
<1> DEFINE i == citem[c]
<1>1. cpc[c] = "delete" /\ i \in handles /\ i \in completed /\ i \in Items /\ i # NoItem
  BY ItemsAssumption DEF IInv, Typed, ClientInv, HoldsInv, WithItem
<1>2. Typed'
  BY DEF IInv, Typed, Return, ClientPCs, ClientOps
<1>3. /\ \A d \in Clients \ {c} : cpc'[d] = cpc[d] /\ citem'[d] = citem[d]
      /\ cpc'[c] = "idle" /\ citem'[c] = NoItem
      /\ \A j \in Items \ {i} : mem'[j] = mem[j]
      /\ mem'[i] = "deleted"
      /\ handles' = handles \ {i}
  BY <1>1 DEF IInv, Typed, Return
<1> HIDE DEF i
<1>4. CountsExact'
  <2>1. Busy' = Busy
    BY DEF Busy
  <2>2. Waiting' = Waiting
    BY <1>1, <1>3 DEF Waiting
  <2> QED
    BY <2>1, <2>2, SameCounts DEF IInv
<1>5. QueuedInv'
  <2>1. Elements(items) \subseteq Items \ {i}
    BY <1>1 DEF IInv, Typed, QueuedInv, Elements
  <2> QED
    BY <1>3, <2>1 DEF IInv, QueuedInv
<1>6. WorkerInv'
  <2>1. \A w \in Workers : witem[w] # NoItem => witem[w] \in Items \ {i}
    BY <1>1 DEF IInv, Typed, WorkerInv
  <2> QED
    BY <1>3, <2>1 DEF IInv, WorkerInv
<1>7. FateInv'
  <2> SUFFICES ASSUME NEW j \in Items
               PROVE  /\ mem'[j] = "none" => ran[j] = 0 /\ j \notin completed /\ j \notin auto
                      /\ mem'[j] # "none" => \/ ran[j] = 1
                                             \/ j \in Elements(items)
                                             \/ \E v \in Workers : wpc[v] = "run" /\ witem[v] = j
                      /\ mem'[j] = "live" => \/ j \in completed
                                             \/ j \in Elements(items)
                                             \/ \E v \in Workers : witem[v] = j
    BY DEF IInv, FateInv
  <2>1. CASE j = i
    BY <1>1, <1>3, <2>1 DEF IInv, FateInv
  <2>2. CASE j # i
    BY <1>3, <2>2 DEF IInv, FateInv
  <2> QED
    BY <2>1, <2>2
<1>8. ClientInv'
  <2>1. HandlesInv'
    BY <1>3 DEF IInv, Typed, ClientInv, HandlesInv
  <2>2. ASSUME NEW d \in Clients, d # c PROVE HoldsInv(d)'
    <3>1. citem[d] # i
      BY <1>1, <2>2 DEF IInv, ClientInv, AloneInv, i
    <3> QED
      BY <1>3, <2>2, <3>1 DEF IInv, Typed, ClientInv, HoldsInv, WithItem
  <2>3. HoldsInv(c)'
    BY <1>3 DEF HoldsInv, WithItem
  <2>4. AloneInv'
    BY <1>3 DEF IInv, ClientInv, AloneInv
  <2> QED
    BY <2>1, <2>2, <2>3, <2>4 DEF ClientInv
<1>9. CloseInv'
  BY <1>1, <1>3 DEF IInv, CloseInv
<1> QED
  BY <1>2, <1>4, <1>5, <1>6, <1>7, <1>8, <1>9 DEF IInv

LEMMA SpuriousWakeupInv ==
  ASSUME IInv, SpuriousWakeup
  PROVE  IInv'
<1>1. ASSUME NEW w \in Workers, wpc[w] = "sleep", wpc' = [wpc EXCEPT ![w] = "top"],
             UNCHANGED <<queueVars, itemVars, witem, clientVars>>
      PROVE  IInv'
  <2> USE <1>1 DEF queueVars, itemVars, clientVars
  <2>1. Typed'
    BY DEF IInv, Typed, WorkerPCs
  <2>2. QueuedInv' /\ WorkerInv' /\ FateInv' /\ Busy' = Busy
    <3>1. wpc' \in [Workers -> WorkerPCs]
      BY <2>1 DEF Typed
    <3> QED
      BY <3>1, ItemsUntouched DEF IInv, Typed, IdlePCs
  <2>3. Waiting' = Waiting
    BY DEF Waiting
  <2>4. CountsExact'
    BY <2>2, <2>3, SameCounts DEF IInv
  <2>5. ClientInv'
    BY DEF IInv, ClientInv, HandlesInv, HoldsInv, AloneInv, WithItem
  <2>6. CloseInv'
    BY DEF IInv, Typed, CloseInv
  <2> QED
    BY <2>1, <2>2, <2>4, <2>5, <2>6 DEF IInv
<1>2. ASSUME NEW c \in Clients, cpc[c] \in {"item_block", "queue_block"},
             cpc' = [cpc EXCEPT ![c] = Woken(cpc[c])],
             UNCHANGED <<queueVars, itemVars, workerVars, citem, cop>>
      PROVE  IInv'
  <2> USE <1>2 DEF queueVars, itemVars, workerVars, Woken
  <2>1. Typed'
    BY DEF IInv, Typed, ClientPCs
  <2>2. QueuedInv' /\ WorkerInv' /\ FateInv' /\ Busy' = Busy
    <3>1. wpc' \in [Workers -> WorkerPCs]
      BY <2>1 DEF Typed
    <3> QED
      BY <3>1, ItemsUntouched DEF IInv
  <2>3. Waiting' = Waiting
    BY DEF IInv, Typed, Waiting
  <2>4. CountsExact'
    BY <2>2, <2>3, SameCounts DEF IInv
  <2>5. ClientInv'
    BY DEF IInv, Typed, ClientInv, HandlesInv, HoldsInv, AloneInv, WithItem
  <2>6. CloseInv'
    BY DEF IInv, Typed, CloseInv
  <2> QED
    BY <2>1, <2>2, <2>4, <2>5, <2>6 DEF IInv
<1> QED
  BY <1>1, <1>2 DEF SpuriousWakeup

-----------------------------------------------------------------------------
(* The theorems *)

LEMMA NextInv == IInv /\ [Next]_vars => IInv'
<1> SUFFICES ASSUME IInv, [Next]_vars PROVE IInv'
  OBVIOUS
<1>1. ASSUME NEW w \in Workers, WorkerStep(w) PROVE IInv'
  BY <1>1, WorkerTakeInv, WorkerRunInv, WorkerFinishInv, WorkerNotifyInv DEF WorkerStep
<1>2. ASSUME NEW c \in Clients, ClientStep(c) PROVE IInv'
  BY <1>2, NotifyOneInv, NotifyAllInv, ItemWaitFastInv, ItemWaitLockInv, ItemWaitCheckInv,
     ItemDeleteInv, QueueWaitCheckInv, QueueFreeNotifyInv, QueueFreeJoinInv DEF ClientStep
<1>3. ASSUME NEW c \in Clients, ClientCall(c) PROVE IInv'
  BY <1>3, QueueMultipleInv, ItemWaitInv, ItemReleaseInv, QueueWaitInv, QueueFreeInv
     DEF ClientCall
<1>4. ASSUME NEW c \in Clients, ItemWaitTimeout(c) \/ QueueWaitTimeout(c) PROVE IInv'
  BY <1>4, ItemWaitTimeoutInv, QueueWaitTimeoutInv
<1>5. CASE UNCHANGED vars
  BY <1>5 DEF vars, queueVars, itemVars, workerVars, clientVars, IInv, Typed, CountsExact, Busy, Waiting, QueuedInv, WorkerInv, FateInv, ClientInv, HandlesInv,
     HoldsInv, AloneInv, CloseInv
<1>6. CASE Terminated
  BY <1>5, <1>6 DEF Terminated
<1> QED
  BY <1>1, <1>2, <1>3, <1>4, <1>5, <1>6, SpuriousWakeupInv DEF Next

\* The inductive invariant holds in every reachable state of the queue.
THEOREM Invariance == SafeSpec => []IInv
<1>1. Init => IInv
  BY InitInv
<1>2. IInv /\ [Next]_vars => IInv'
  BY NextInv
<1> QED
  BY <1>1, <1>2, PTL DEF SafeSpec

\* Type correctness; in particular pending_items and queue_waiters never go negative.
THEOREM TypeCorrect == SafeSpec => []TypeOK
<1>1. IInv => TypeOK
  <2> SUFFICES ASSUME IInv PROVE TypeOK
    OBVIOUS
  <2>1. Len(items) \in Nat
    BY DEF IInv, Typed
  <2>2. pending \in Nat /\ queueWaiters \in Nat
    BY <2>1, CountsFinite DEF IInv, CountsExact
  <2> QED
    BY <2>2 DEF IInv, Typed, TypeOK
<1> QED
  BY <1>1, Invariance, PTL

\* No worker publishes `completed', no client waits on or releases an item, and no
\* thread takes the queue's lock, after the item or the queue has been deleted.
THEOREM UseAfterFreeFree == SafeSpec => []NoUseAfterFree
<1>1. IInv => NoUseAfterFree
  <2> SUFFICES ASSUME IInv PROVE NoUseAfterFree
    OBVIOUS
  <2>1. \A n \in 1..Len(items) : mem[items[n]] = "live"
    BY DEF IInv, QueuedInv, Elements
  <2>2. \A w \in Workers : witem[w] # NoItem => mem[witem[w]] = "live"
    BY DEF IInv, WorkerInv
  <2>3. \A c \in Clients : citem[c] # NoItem => mem[citem[c]] = "live"
    BY DEF IInv, ClientInv, HandlesInv, HoldsInv
  <2> QED
    BY <2>1, <2>2, <2>3 DEF IInv, CloseInv, NoUseAfterFree
<1> QED
  BY <1>1, Invariance, PTL

\* pending_items counts exactly the items queued and not yet finished, so that
\* osd_work_queue_wait returns true only when there is none; queue_waiters counts exactly
\* the clients inside that wait, those that time out included.
THEOREM CountsCorrect == SafeSpec => []CountsExact
<1>1. IInv => CountsExact
  BY DEF IInv
<1> QED
  BY <1>1, Invariance, PTL

\* Every callback runs exactly once before osd_work_queue_free returns.
THEOREM RunsExactlyOnce == SafeSpec => []ExactlyOnce
<1>1. IInv => ExactlyOnce
  <2> SUFFICES ASSUME IInv, NEW i \in Items
               PROVE  /\ ran[i] <= 1
                      /\ i \in completed => ran[i] = 1
                      /\ queue = "freed" /\ mem[i] # "none" => ran[i] = 1
    BY DEF ExactlyOnce
  <2>1. ran[i] <= 1 /\ (i \in completed => ran[i] = 1)
    BY DEF IInv, FateInv
  <2>2. ASSUME queue = "freed", mem[i] # "none" PROVE ran[i] = 1
    <3>1. PICK w \in Workers : TRUE
      BY WorkersAssumption
    <3>2. Elements(items) = {}
      BY <2>2, <3>1 DEF IInv, CloseInv, Elements
    <3>3. \A v \in Workers : wpc[v] = "exited"
      BY <2>2 DEF IInv, CloseInv
    <3> QED
      BY <2>2, <3>2, <3>3 DEF IInv, FateInv
  <2> QED
    BY <2>1, <2>2
<1> QED
  BY <1>1, Invariance, PTL

-----------------------------------------------------------------------------
(* Refinement of WorkQueueAbstract *)

\* The state of an item that a user of the queue sees, read off the detailed state.
StatusFacts ==
  /\ ItemStatus \in [Items -> {"none", "queued", "running", "done"}]
  /\ \A i \in Items :
       /\ mem[i] = "none" => ItemStatus[i] = "none"
       /\ i \in Elements(items) => ItemStatus[i] = "queued"
       /\ mem[i] # "none" /\ i \notin Elements(items) =>
            ItemStatus[i] = IF ran[i] = 0 THEN "running" ELSE "done"

LEMMA StatusFromInv == ASSUME IInv PROVE StatusFacts
<1>1. \A i \in Items : i \in Elements(items) => mem[i] = "live"
  BY DEF IInv, QueuedInv
<1> QED
  BY <1>1 DEF StatusFacts, ItemStatus

\* A step that changes none of these is not seen by the users.
LEMMA Unseen ==
  ASSUME UNCHANGED <<mem, items, ran, completed>>, (queue = "freed") = (queue' = "freed")
  PROVE  UNCHANGED Abstract!vars
<1>1. ItemStatus' = ItemStatus
  BY DEF ItemStatus
<1> QED
  BY <1>1 DEF Abstract!vars

LEMMA TakeRefines ==
  ASSUME IInv, StatusFacts, StatusFacts', NEW w \in Workers, WorkerTake(w)
  PROVE  [Abstract!Next]_(Abstract!vars)
<1> USE DEF WorkerTake, itemVars
<1>1. CASE items' = items
  BY <1>1, Unseen
<1>2. CASE items # <<>> /\ items' = Tail(items)
  <2>1. /\ Head(items) \in Elements(items)
        /\ Elements(Tail(items)) = Elements(items) \ {Head(items)}
    BY <1>2, TailFacts DEF IInv, Typed, QueuedInv
  <2>2. Elements(items) \subseteq Items
    BY DEF IInv, Typed, Elements
  <2>3. mem[Head(items)] = "live" /\ ran[Head(items)] = 0
    BY <2>1 DEF IInv, QueuedInv
  <2>4. Elements(items)' = Elements(items) \ {Head(items)}
    BY <1>2, <2>1 DEF Elements
  <2>5. \A i \in Items : ItemStatus'[i] = IF i = Head(items) THEN "running" ELSE ItemStatus[i]
    BY <2>1, <2>2, <2>3, <2>4 DEF StatusFacts, IInv, QueuedInv
  <2>6. ItemStatus' = [ItemStatus EXCEPT ![Head(items)] = "running"]
    BY <2>1, <2>2, <2>5 DEF StatusFacts
  <2>7. Abstract!Start
    BY <1>2, <2>6 DEF Abstract!Start
  <2> QED
    BY <2>7 DEF Abstract!Next
<1> QED
  BY <1>1, <1>2

LEMMA RunRefines ==
  ASSUME IInv, StatusFacts, StatusFacts', NEW w \in Workers, WorkerRun(w)
  PROVE  [Abstract!Next]_(Abstract!vars)
<1> DEFINE i == witem[w]
<1>1. i \in Items /\ mem[i] = "live" /\ ran[i] = 0 /\ i \notin Elements(items)
  BY DEF WorkerRun, IInv, Typed, WorkerInv, QueuedInv
<1>2. /\ UNCHANGED <<items, completed, queue>>
      /\ ran' = [ran EXCEPT ![i] = @ + 1]
      /\ mem' = mem \/ mem' = [mem EXCEPT ![i] = "deleted"]
  BY DEF WorkerRun, queueVars
<1> HIDE DEF i
<1>3. /\ mem'[i] # "none" /\ ran'[i] = 1
      /\ \A j \in Items : j # i => mem'[j] = mem[j] /\ ran'[j] = ran[j]
  BY <1>1, <1>2 DEF IInv, Typed
<1>4. Elements(items)' = Elements(items)
  BY <1>2 DEF Elements
<1>5. ItemStatus[i] = "running" /\ ItemStatus'[i] = "done"
  BY <1>1, <1>3, <1>4 DEF StatusFacts
<1>6. \A j \in Items : j # i => ItemStatus'[j] = ItemStatus[j]
  BY <1>3, <1>4 DEF StatusFacts
<1>7. ItemStatus' = [ItemStatus EXCEPT ![i] = "done"]
  BY <1>1, <1>5, <1>6 DEF StatusFacts
<1>8. Abstract!Finish(i)
  BY <1>2, <1>5, <1>7 DEF Abstract!Finish
<1> QED
  BY <1>1, <1>8 DEF Abstract!Next

LEMMA FinishRefines ==
  ASSUME IInv, StatusFacts, NEW w \in Workers, WorkerFinish(w)
  PROVE  [Abstract!Next]_(Abstract!vars)
<1>1. /\ UNCHANGED <<items, mem, ran, queue>> /\ wpc[w] = "finish"
      /\ completed' = completed \cup ({witem[w]} \cap Items)
  BY DEF WorkerFinish
<1>2. CASE witem[w] = NoItem
  BY <1>1, <1>2, ItemsAssumption, Unseen
<1>3. CASE witem[w] # NoItem
  <2>1. witem[w] \in Items /\ mem[witem[w]] = "live" /\ ran[witem[w]] = 1 /\ witem[w] \notin Elements(items)
    BY <1>1, <1>3 DEF IInv, Typed, WorkerInv, QueuedInv
  <2>2. ItemStatus[witem[w]] = "done" /\ ItemStatus' = ItemStatus
    <3>1. ItemStatus[witem[w]] = "done"
      BY <2>1 DEF StatusFacts
    <3>2. ItemStatus' = ItemStatus
      BY <1>1 DEF ItemStatus
    <3> QED
      BY <3>1, <3>2
  <2>3. Abstract!Tell(witem[w])
    BY <1>1, <2>1, <2>2 DEF Abstract!Tell
  <2> QED
    BY <2>1, <2>3 DEF Abstract!Next
<1> QED
  BY <1>2, <1>3

LEMMA QueueRefines ==
  ASSUME IInv, StatusFacts, StatusFacts',
         NEW c \in Clients, NEW b \in Batches, NEW a \in BOOLEAN, QueueMultiple(c, b, a)
  PROVE  [Abstract!Next]_(Abstract!vars)
<1> DEFINE B == Elements(b)
<1>1. b \in Seq(Items) /\ Distinct(b) /\ B \subseteq Items
  BY BatchesAssumption DEF Distinct, Elements
<1>2. /\ queue = "live" /\ UNCHANGED <<queue, completed, ran>>
      /\ \A i \in B : mem[i] = "none"
      /\ mem' = [i \in Items |-> IF i \in B THEN "live" ELSE mem[i]]
      /\ items' = items \o b
  BY DEF QueueMultiple
<1>3. Elements(items) \cap B = {}
  BY <1>2 DEF IInv, QueuedInv
<1>4. Elements(items)' = Elements(items) \cup B
  <2>1. Elements(items \o b) = Elements(items) \cup B
    BY <1>1, <1>3, ConcatFacts DEF IInv, Typed, QueuedInv
  <2> QED
    BY <1>2, <2>1 DEF Elements
<1> HIDE DEF B
<1>5. \A i \in B : ItemStatus[i] = "none"
  BY <1>1, <1>2 DEF StatusFacts
<1>6. \A i \in Items : ItemStatus'[i] = IF i \in B THEN "queued" ELSE ItemStatus[i]
  BY <1>1, <1>2, <1>4 DEF StatusFacts
<1>7. ItemStatus' = [i \in Items |-> IF i \in B THEN "queued" ELSE ItemStatus[i]]
  BY <1>6 DEF StatusFacts
<1>8. Abstract!Submit(b)
  BY <1>2, <1>5, <1>7 DEF Abstract!Submit, B, Elements
<1> QED
  BY <1>8 DEF Abstract!Next

LEMMA DeleteRefines ==
  ASSUME IInv, StatusFacts, StatusFacts', NEW c \in Clients, ItemDelete(c)
  PROVE  [Abstract!Next]_(Abstract!vars)
<1> DEFINE i == citem[c]
<1>1. i \in Items /\ i \in completed /\ mem[i] = "live" /\ ran[i] = 1 /\ i \notin Elements(items)
  BY DEF ItemDelete, IInv, Typed, ClientInv, HandlesInv, HoldsInv, WithItem, QueuedInv, FateInv
<1>2. UNCHANGED <<items, completed, ran, queue>> /\ mem' = [mem EXCEPT ![i] = "deleted"]
  BY DEF ItemDelete, queueVars
<1> HIDE DEF i
<1>3. mem'[i] = "deleted" /\ \A j \in Items : j # i => mem'[j] = mem[j]
  BY <1>1, <1>2 DEF IInv, Typed
<1>4. Elements(items)' = Elements(items)
  BY <1>2 DEF Elements
<1>5. \A j \in Items : ItemStatus'[j] = ItemStatus[j]
  BY <1>1, <1>2, <1>3, <1>4 DEF StatusFacts
<1>6. ItemStatus' = ItemStatus
  BY <1>5 DEF StatusFacts
<1> QED
  BY <1>2, <1>6 DEF Abstract!vars

LEMMA JoinRefines ==
  ASSUME IInv, StatusFacts, NEW c \in Clients, QueueFreeJoin(c)
  PROVE  [Abstract!Next]_(Abstract!vars)
<1>1. /\ cpc[c] = "join" /\ queue' = "freed" /\ UNCHANGED <<items, mem, ran, completed>>
      /\ \A w \in Workers : wpc[w] = "exited"
  BY DEF QueueFreeJoin, itemVars
<1>2. queue = "closing" /\ items = <<>>
  BY <1>1, WorkersAssumption DEF IInv, CloseInv
<1>3. Elements(items) = {}
  BY <1>2 DEF Elements
<1>4. \A i \in Items : ItemStatus[i] \in {"none", "done"}
  <2> SUFFICES ASSUME NEW i \in Items PROVE ItemStatus[i] \in {"none", "done"}
    OBVIOUS
  <2>1. mem[i] # "none" => ran[i] = 1
    BY <1>1, <1>3 DEF IInv, FateInv
  <2> QED
    BY <2>1, <1>3 DEF StatusFacts
<1>5. ItemStatus' = ItemStatus
  BY <1>1 DEF ItemStatus
<1>6. Abstract!Close
  BY <1>1, <1>2, <1>4, <1>5 DEF Abstract!Close
<1> QED
  BY <1>6 DEF Abstract!Next

LEMMA StepRefines ==
  ASSUME IInv, StatusFacts, StatusFacts', [Next]_vars
  PROVE  [Abstract!Next]_(Abstract!vars)
<1> USE DEF queueVars, itemVars, workerVars, clientVars
<1>1. ASSUME NEW w \in Workers, WorkerStep(w) PROVE [Abstract!Next]_(Abstract!vars)
  <2>1. CASE WorkerNotify(w)
    BY <2>1, Unseen DEF WorkerNotify
  <2> QED
    BY <1>1, <2>1, TakeRefines, RunRefines, FinishRefines DEF WorkerStep
<1>2. ASSUME NEW c \in Clients, ClientStep(c) PROVE [Abstract!Next]_(Abstract!vars)
  <2>1. CASE NotifyOne(c) \/ NotifyAll(c) \/ ItemWaitFast(c) \/ ItemWaitLock(c)
    BY <2>1, Unseen DEF NotifyOne, NotifyAll, ItemWaitFast, ItemWaitLock
  <2>2. CASE ItemWaitCheck(c) \/ QueueWaitCheck(c) \/ QueueFreeNotify(c)
    BY <2>2, Unseen DEF ItemWaitCheck, QueueWaitCheck, QueueFreeNotify
  <2> QED
    BY <1>2, <2>1, <2>2, DeleteRefines, JoinRefines DEF ClientStep
<1>3. ASSUME NEW c \in Clients, ClientCall(c) PROVE [Abstract!Next]_(Abstract!vars)
  <2>1. ASSUME NEW i \in Items, ItemWait(c, i) \/ ItemRelease(c, i)
        PROVE  [Abstract!Next]_(Abstract!vars)
    BY <2>1, Unseen DEF ItemWait, ItemRelease
  <2>2. CASE QueueWait(c) \/ QueueFree(c)
    BY <2>2, Unseen DEF QueueWait, QueueFree
  <2> QED
    BY <1>3, <2>1, <2>2, QueueRefines DEF ClientCall
<1>4. ASSUME NEW c \in Clients, ItemWaitTimeout(c) \/ QueueWaitTimeout(c)
      PROVE  [Abstract!Next]_(Abstract!vars)
  BY <1>4, Unseen DEF ItemWaitTimeout, QueueWaitTimeout
<1>5. CASE SpuriousWakeup
  BY <1>5, Unseen DEF SpuriousWakeup
<1>6. CASE UNCHANGED vars
  BY <1>6, Unseen DEF vars
<1> QED
  BY <1>1, <1>2, <1>3, <1>4, <1>5, <1>6 DEF Next, Terminated

\* The queue keeps the promise of WorkQueueAbstract to its users: items start in the
\* order they were queued, each runs once, completion is published after the run, and
\* osd_work_queue_free ends only when every item has run.
THEOREM Refinement == SafeSpec => Abstract!SafeSpec
<1>1. Init => Abstract!Init
  <2> SUFFICES ASSUME Init PROVE Abstract!Init
    OBVIOUS
  <2>1. StatusFacts /\ \A i \in Items : mem[i] = "none"
    BY InitInv, StatusFromInv DEF Init
  <2>2. ItemStatus = [i \in Items |-> "none"]
    BY <2>1 DEF StatusFacts
  <2> QED
    BY <2>2 DEF Init, Abstract!Init
<1>2. IInv => StatusFacts
  BY StatusFromInv
<1>3. IInv /\ StatusFacts /\ StatusFacts' /\ [Next]_vars => [Abstract!Next]_(Abstract!vars)
  BY StepRefines
<1> QED
  BY <1>1, <1>2, <1>3, Invariance, PTL DEF SafeSpec, Abstract!SafeSpec

=============================================================================
