------------------------------ MODULE WorkQueue ------------------------------
(***************************************************************************)
(* The OSD work queue of sys/minimal_osd.cpp: worker threads that drain a  *)
(* FIFO of work items under one mutex, and client threads that queue       *)
(* items, wait for them, release them, wait for the whole queue, and free  *)
(* it.                                                                     *)
(*                                                                         *)
(* Grain of atomicity: one action per critical section of queue->mutex,    *)
(* and one per access made outside it (the unlocked read of item->         *)
(* completed, a notify after unlock, a delete).  A condition variable is   *)
(* the set of threads parked on it.                                        *)
(***************************************************************************)
EXTENDS Integers, Sequences, FiniteSets

CONSTANTS Workers,   \* threads started by osd_work_queue_alloc
          Clients,   \* threads that call the osd_work_* functions
          Items,     \* osd_work_item objects that are ever allocated (bound)
          Batches,   \* argument lists osd_work_item_queue_multiple is called with
          NoItem     \* nullptr

ASSUME WorkersAssumption == IsFiniteSet(Workers) /\ Workers # {}
ASSUME ClientsAssumption == IsFiniteSet(Clients) /\ Clients # {}
ASSUME ItemsAssumption == NoItem \notin Items
ASSUME BatchesAssumption ==
  /\ Batches \subseteq Seq(Items)
  /\ \A b \in Batches :
       /\ Len(b) > 0
       /\ \A m, n \in 1..Len(b) : b[m] = b[n] => m = n

VARIABLES
  queue,        \* "live" | "closing" (osd_work_queue_free called) | "freed"
  items,        \* queue->items
  pending,      \* queue->pending_items
  queueWaiters, \* queue->queue_waiters
  mem,          \* heap state of each item: "none" | "live" | "deleted"
  auto,         \* items carrying WORK_ITEM_FLAG_AUTO_RELEASE
  completed,    \* items with item->completed set
  waitedOn,     \* items with item->waited_on set
  ran,          \* history: how often each item's callback has returned
  handles,      \* item pointers handed to the clients and not yet released
  wpc, witem,   \* worker: where it is, and its local `item'
  cpc, citem, cop \* client: where it is, the item and the call it is in

queueVars == <<queue, items, pending, queueWaiters>>
itemVars == <<mem, auto, completed, waitedOn, ran, handles>>
workerVars == <<wpc, witem>>
clientVars == <<cpc, citem, cop>>
vars == <<queueVars, itemVars, workerVars, clientVars>>

WorkerPCs == {"top", "sleep", "run", "finish", "notify", "exited"}
ClientPCs == {"idle", "notify_one", "notify_all", "item_fast", "item_lock",
              "item_block", "item_check", "delete", "queue_block",
              "queue_check", "free_notify", "join"}
ClientOps == {"none", "queue", "wait", "release", "queue_wait", "free"}

Elements(s) == {s[n] : n \in 1..Len(s)}

Init ==
  /\ queue = "live"
  /\ items = <<>>
  /\ pending = 0
  /\ queueWaiters = 0
  /\ mem = [i \in Items |-> "none"]
  /\ auto = {}
  /\ completed = {}
  /\ waitedOn = {}
  /\ ran = [i \in Items |-> 0]
  /\ handles = {}
  /\ wpc = [w \in Workers |-> "top"]
  /\ witem = [w \in Workers |-> NoItem]
  /\ cpc = [c \in Clients |-> "idle"]
  /\ citem = [c \in Clients |-> NoItem]
  /\ cop = [c \in Clients |-> "none"]

-----------------------------------------------------------------------------
(* worker_thread *)

\* Mutant: leave as soon as the queue is exiting, whatever is still queued.
WorkerTake_LeavesItems(w) ==
  /\ wpc[w] = "top"
  /\ \/ /\ queue # "live"
        /\ wpc' = [wpc EXCEPT ![w] = "exited"]
        /\ UNCHANGED <<items, witem>>
     \/ /\ queue = "live" /\ items # <<>>
        /\ items' = Tail(items)
        /\ witem' = [witem EXCEPT ![w] = Head(items)]
        /\ wpc' = [wpc EXCEPT ![w] = "run"]
     \/ /\ queue = "live" /\ items = <<>>
        /\ wpc' = [wpc EXCEPT ![w] = "sleep"]
        /\ UNCHANGED <<items, witem>>
  /\ UNCHANGED <<queue, pending, queueWaiters, itemVars, clientVars>>

\* Mutant: take the newest item.
WorkerTake_Newest(w) ==
  /\ wpc[w] = "top"
  /\ \/ /\ queue # "live" /\ items = <<>>
        /\ wpc' = [wpc EXCEPT ![w] = "exited"]
        /\ UNCHANGED <<items, witem>>
     \/ /\ items # <<>>
        /\ items' = SubSeq(items, 1, Len(items) - 1)
        /\ witem' = [witem EXCEPT ![w] = items[Len(items)]]
        /\ wpc' = [wpc EXCEPT ![w] = "run"]
     \/ /\ queue = "live" /\ items = <<>>
        /\ wpc' = [wpc EXCEPT ![w] = "sleep"]
        /\ UNCHANGED <<items, witem>>
  /\ UNCHANGED <<queue, pending, queueWaiters, itemVars, clientVars>>

\* The locked section at the top of the loop: sleep on cv unless there is an
\* item or the queue is exiting, exit only once the queue is also empty.
WorkerTake(w) ==
  /\ wpc[w] = "top"
  /\ \/ /\ queue # "live" /\ items = <<>>
        /\ wpc' = [wpc EXCEPT ![w] = "exited"]
        /\ UNCHANGED <<items, witem>>
     \/ /\ items # <<>>
        /\ items' = Tail(items)
        /\ witem' = [witem EXCEPT ![w] = Head(items)]
        /\ wpc' = [wpc EXCEPT ![w] = "run"]
     \/ /\ queue = "live" /\ items = <<>>
        /\ wpc' = [wpc EXCEPT ![w] = "sleep"]
        /\ UNCHANGED <<items, witem>>
  /\ UNCHANGED <<queue, pending, queueWaiters, itemVars, clientVars>>

\* Mutant: publish `completed' as soon as the callback returns, outside the lock.
WorkerRun_PublishesEarly(w) ==
  /\ wpc[w] = "run"
  /\ ran' = [ran EXCEPT ![witem[w]] = @ + 1]
  /\ \/ /\ witem[w] \in auto
        /\ mem' = [mem EXCEPT ![witem[w]] = "deleted"]
        /\ witem' = [witem EXCEPT ![w] = NoItem]
        /\ UNCHANGED completed
     \/ /\ witem[w] \notin auto
        /\ completed' = completed \cup {witem[w]}
        /\ UNCHANGED <<mem, witem>>
  /\ wpc' = [wpc EXCEPT ![w] = "finish"]
  /\ UNCHANGED <<queueVars, auto, waitedOn, handles, clientVars>>

\* The callback returns; an auto-released item is deleted and forgotten.
WorkerRun(w) ==
  /\ wpc[w] = "run"
  /\ ran' = [ran EXCEPT ![witem[w]] = @ + 1]
  /\ \/ /\ witem[w] \in auto
        /\ mem' = [mem EXCEPT ![witem[w]] = "deleted"]
        /\ witem' = [witem EXCEPT ![w] = NoItem]
     \/ /\ witem[w] \notin auto
        /\ UNCHANGED <<mem, witem>>
  /\ wpc' = [wpc EXCEPT ![w] = "finish"]
  /\ UNCHANGED <<queueVars, auto, completed, waitedOn, handles, clientVars>>

\* Mutant: forget the clients in osd_work_queue_wait.
Wake_ItemWaitersOnly(w) == witem[w] \in waitedOn

Wake(w) == \/ witem[w] \in waitedOn
           \/ queueWaiters > 0 /\ pending - 1 = 0

\* Mutant: count off only the items that were not auto-released.
WorkerFinish_SkipsAuto(w) ==
  /\ wpc[w] = "finish"
  /\ pending' = IF witem[w] = NoItem THEN pending ELSE pending - 1
  /\ completed' = completed \cup ({witem[w]} \cap Items)
  /\ wpc' = [wpc EXCEPT ![w] = IF Wake(w) THEN "notify" ELSE "top"]
  /\ witem' = [witem EXCEPT ![w] = NoItem]
  /\ UNCHANGED <<queue, items, queueWaiters, mem, auto, waitedOn, ran, handles,
                 clientVars>>

\* The second locked section: count the item off, decide whether anybody has
\* to be woken, and publish `completed' as the last access to the item.
WorkerFinish(w) ==
  /\ wpc[w] = "finish"
  /\ pending' = pending - 1
  /\ completed' = completed \cup ({witem[w]} \cap Items)
  /\ wpc' = [wpc EXCEPT ![w] = IF Wake(w) THEN "notify" ELSE "top"]
  /\ witem' = [witem EXCEPT ![w] = NoItem]
  /\ UNCHANGED <<queue, items, queueWaiters, mem, auto, waitedOn, ran, handles,
                 clientVars>>

\* What a client parked on done_cv does next once it is notified.
Woken(pc) == CASE pc = "item_block" -> "item_check"
               [] pc = "queue_block" -> "queue_check"
               [] OTHER -> pc

\* done_cv.notify_all, after the unlock.
WorkerNotify(w) ==
  /\ wpc[w] = "notify"
  /\ cpc' = [c \in Clients |-> Woken(cpc[c])]
  /\ wpc' = [wpc EXCEPT ![w] = "top"]
  /\ UNCHANGED <<queueVars, itemVars, witem, citem, cop>>

WorkerStep(w) == WorkerTake(w) \/ WorkerRun(w) \/ WorkerFinish(w) \/ WorkerNotify(w)

-----------------------------------------------------------------------------
(* The functions the clients call *)

Return(c) == /\ cpc' = [cpc EXCEPT ![c] = "idle"]
             /\ citem' = [citem EXCEPT ![c] = NoItem]
             /\ cop' = [cop EXCEPT ![c] = "none"]

\* osd_work_item_queue_multiple: allocate, push under the lock.  Only the last
\* pointer is returned, so more than one item is queued auto-released; an
\* auto-released item's pointer is never kept.
QueueMultiple(c, b, autoRelease) ==
  /\ cpc[c] = "idle" /\ queue = "live"
  /\ \A i \in Elements(b) : mem[i] = "none"
  /\ Len(b) > 1 => autoRelease
  /\ mem' = [i \in Items |-> IF i \in Elements(b) THEN "live" ELSE mem[i]]
  /\ auto' = IF autoRelease THEN auto \cup Elements(b) ELSE auto
  /\ items' = items \o b
  /\ pending' = pending + Len(b)
  /\ citem' = [citem EXCEPT ![c] = IF autoRelease THEN NoItem ELSE b[1]]
  /\ cpc' = [cpc EXCEPT ![c] = IF Len(b) = 1 THEN "notify_one" ELSE "notify_all"]
  /\ cop' = [cop EXCEPT ![c] = "queue"]
  /\ UNCHANGED <<queue, queueWaiters, completed, waitedOn, ran, handles, workerVars>>

\* cv.notify_one wakes one parked worker, if there is one; the call then
\* returns the item pointer.
NotifyOne(c) ==
  /\ cpc[c] = "notify_one"
  /\ \/ \E w \in Workers : wpc[w] = "sleep" /\ wpc' = [wpc EXCEPT ![w] = "top"]
     \/ (\A w \in Workers : wpc[w] # "sleep") /\ UNCHANGED wpc
  /\ handles' = handles \cup ({citem[c]} \cap Items)
  /\ Return(c)
  /\ UNCHANGED <<queueVars, mem, auto, completed, waitedOn, ran, witem>>

WakeAllWorkers == wpc' = [w \in Workers |-> IF wpc[w] = "sleep" THEN "top" ELSE wpc[w]]

NotifyAll(c) ==
  /\ cpc[c] = "notify_all"
  /\ WakeAllWorkers
  /\ Return(c)
  /\ UNCHANGED <<queueVars, itemVars, witem>>

\* An item pointer is used by one client at a time, and not while the queue is
\* being freed (the contract chd_file_compressor keeps).
MayUse(c, i) == /\ cpc[c] = "idle" /\ queue # "closing"
                /\ i \in handles
                /\ \A d \in Clients : citem[d] # i

\* osd_work_item_wait with a timeout.
ItemWait(c, i) ==
  /\ MayUse(c, i)
  /\ cpc' = [cpc EXCEPT ![c] = "item_fast"]
  /\ citem' = [citem EXCEPT ![c] = i]
  /\ cop' = [cop EXCEPT ![c] = "wait"]
  /\ UNCHANGED <<queueVars, itemVars, workerVars>>

\* osd_work_item_release: a completed item is deleted straight away.
ItemRelease(c, i) ==
  /\ MayUse(c, i)
  /\ cpc' = [cpc EXCEPT ![c] = IF i \in completed THEN "delete" ELSE "item_fast"]
  /\ citem' = [citem EXCEPT ![c] = i]
  /\ cop' = [cop EXCEPT ![c] = "release"]
  /\ UNCHANGED <<queueVars, itemVars, workerVars>>

\* osd_work_item_wait returned: the caller was osd_work_item_release or a user.
ItemWaitReturns(c) ==
  \/ cop[c] = "wait" /\ Return(c)
  \/ /\ cop[c] = "release"
     /\ cpc' = [cpc EXCEPT ![c] = "delete"]
     /\ UNCHANGED <<citem, cop>>

\* The unlocked fast path of osd_work_item_wait.
ItemWaitFast(c) ==
  /\ cpc[c] = "item_fast"
  /\ \/ citem[c] \in completed /\ ItemWaitReturns(c)
     \/ /\ citem[c] \notin completed
        /\ cpc' = [cpc EXCEPT ![c] = "item_lock"]
        /\ UNCHANGED <<citem, cop>>
  /\ UNCHANGED <<queueVars, itemVars, workerVars>>

BlockOrReturn(c) ==
  \/ citem[c] \in completed /\ ItemWaitReturns(c)
  \/ /\ citem[c] \notin completed
     /\ cpc' = [cpc EXCEPT ![c] = "item_block"]
     /\ UNCHANGED <<citem, cop>>

\* Lock, set waited_on, evaluate the predicate before parking.
ItemWaitLock(c) ==
  /\ cpc[c] = "item_lock"
  /\ waitedOn' = waitedOn \cup {citem[c]}
  /\ BlockOrReturn(c)
  /\ UNCHANGED <<queueVars, mem, auto, completed, ran, handles, workerVars>>

\* Notified (or spuriously woken): evaluate the predicate again.
ItemWaitCheck(c) ==
  /\ cpc[c] = "item_check"
  /\ BlockOrReturn(c)
  /\ UNCHANGED <<queueVars, itemVars, workerVars>>

\* wait_for's deadline passes: return the predicate, whatever it is.
ItemWaitTimeout(c) ==
  /\ cpc[c] = "item_block" /\ cop[c] = "wait"
  /\ Return(c)
  /\ UNCHANGED <<queueVars, itemVars, workerVars>>

\* `delete item' in osd_work_item_release.
ItemDelete(c) ==
  /\ cpc[c] = "delete"
  /\ mem' = [mem EXCEPT ![citem[c]] = "deleted"]
  /\ handles' = handles \ {citem[c]}
  /\ Return(c)
  /\ UNCHANGED <<queueVars, auto, completed, waitedOn, ran, workerVars>>

\* Mutant: park without registering as a queue waiter.
QueueWait_Unregistered(c) ==
  /\ cpc[c] = "idle" /\ queue = "live" /\ pending # 0
  /\ cpc' = [cpc EXCEPT ![c] = "queue_block"]
  /\ cop' = [cop EXCEPT ![c] = "queue_wait"]
  /\ UNCHANGED <<queueVars, itemVars, workerVars, citem>>

\* osd_work_queue_wait: register as a queue waiter, then wait for pending = 0.
QueueWait(c) ==
  /\ cpc[c] = "idle" /\ queue = "live"
  /\ \/ pending = 0 /\ UNCHANGED <<queueWaiters, clientVars>>
     \/ /\ pending # 0
        /\ queueWaiters' = queueWaiters + 1
        /\ cpc' = [cpc EXCEPT ![c] = "queue_block"]
        /\ cop' = [cop EXCEPT ![c] = "queue_wait"]
        /\ UNCHANGED citem
  /\ UNCHANGED <<queue, items, pending, itemVars, workerVars>>

QueueWaitCheck(c) ==
  /\ cpc[c] = "queue_check"
  /\ \/ /\ pending = 0
        /\ queueWaiters' = queueWaiters - 1
        /\ Return(c)
     \/ /\ pending # 0
        /\ cpc' = [cpc EXCEPT ![c] = "queue_block"]
        /\ UNCHANGED <<queueWaiters, citem, cop>>
  /\ UNCHANGED <<queue, items, pending, itemVars, workerVars>>

\* Mutant: a wait that timed out stays counted.
QueueWaitTimeout_StaysCounted(c) ==
  /\ cpc[c] = "queue_block"
  /\ Return(c)
  /\ UNCHANGED <<queueVars, itemVars, workerVars>>

\* wait_for's deadline passes: off the count, and back with whatever the predicate says.
QueueWaitTimeout(c) ==
  /\ cpc[c] = "queue_block"
  /\ queueWaiters' = queueWaiters - 1
  /\ Return(c)
  /\ UNCHANGED <<queue, items, pending, itemVars, workerVars>>

\* osd_work_queue_free, called once nobody else is inside a queue function.
QueueFree(c) ==
  /\ queue = "live"
  /\ \A d \in Clients : cpc[d] = "idle"
  /\ queue' = "closing"
  /\ cpc' = [cpc EXCEPT ![c] = "free_notify"]
  /\ cop' = [cop EXCEPT ![c] = "free"]
  /\ UNCHANGED <<items, pending, queueWaiters, itemVars, workerVars, citem>>

QueueFreeNotify(c) ==
  /\ cpc[c] = "free_notify"
  /\ WakeAllWorkers
  /\ cpc' = [cpc EXCEPT ![c] = "join"]
  /\ UNCHANGED <<queueVars, itemVars, witem, citem, cop>>

\* Every thread is joined before the queue object is deleted.
QueueFreeJoin(c) ==
  /\ cpc[c] = "join"
  /\ \A w \in Workers : wpc[w] = "exited"
  /\ queue' = "freed"
  /\ Return(c)
  /\ UNCHANGED <<items, pending, queueWaiters, itemVars, workerVars>>

\* Steps of a call that has started; the caller cannot avoid them.
ClientStep(c) ==
  \/ NotifyOne(c) \/ NotifyAll(c)
  \/ ItemWaitFast(c) \/ ItemWaitLock(c) \/ ItemWaitCheck(c) \/ ItemDelete(c)
  \/ QueueWaitCheck(c)
  \/ QueueFreeNotify(c) \/ QueueFreeJoin(c)

\* Calls a client chooses to make.
ClientCall(c) ==
  \/ \E b \in Batches, a \in BOOLEAN : QueueMultiple(c, b, a)
  \/ \E i \in Items : ItemWait(c, i) \/ ItemRelease(c, i)
  \/ QueueWait(c)
  \/ QueueFree(c)

-----------------------------------------------------------------------------
\* std::condition_variable may wake a thread nobody notified.
SpuriousWakeup ==
  \/ \E w \in Workers :
       /\ wpc[w] = "sleep"
       /\ wpc' = [wpc EXCEPT ![w] = "top"]
       /\ UNCHANGED <<queueVars, itemVars, witem, clientVars>>
  \/ \E c \in Clients :
       /\ cpc[c] \in {"item_block", "queue_block"}
       /\ cpc' = [cpc EXCEPT ![c] = Woken(cpc[c])]
       /\ UNCHANGED <<queueVars, itemVars, workerVars, citem, cop>>

\* The queue is gone and every item pointer has been released.
Terminated == queue = "freed" /\ handles = {} /\ UNCHANGED vars

Next == \/ \E w \in Workers : WorkerStep(w)
        \/ \E c \in Clients : \/ ClientStep(c)
                              \/ ClientCall(c)
                              \/ ItemWaitTimeout(c)
                              \/ QueueWaitTimeout(c)
        \/ SpuriousWakeup
        \/ Terminated

\* A runnable thread runs on; nobody has to call anything, no deadline has to
\* pass and no spurious wakeup has to come.
Fairness == /\ \A w \in Workers : WF_vars(WorkerStep(w))
            /\ \A c \in Clients : WF_vars(ClientStep(c))

SafeSpec == Init /\ [][Next]_vars
Spec == SafeSpec /\ Fairness
-----------------------------------------------------------------------------
(* Properties *)

TypeOK ==
  /\ queue \in {"live", "closing", "freed"}
  /\ items \in Seq(Items)
  /\ pending \in Nat
  /\ queueWaiters \in Nat
  /\ mem \in [Items -> {"none", "live", "deleted"}]
  /\ auto \subseteq Items
  /\ completed \subseteq Items
  /\ waitedOn \subseteq Items
  /\ ran \in [Items -> Nat]
  /\ handles \subseteq Items
  /\ wpc \in [Workers -> WorkerPCs]
  /\ witem \in [Workers -> Items \cup {NoItem}]
  /\ cpc \in [Clients -> ClientPCs]
  /\ citem \in [Clients -> Items \cup {NoItem}]
  /\ cop \in [Clients -> ClientOps]

\* No thread ever touches an item after it was deleted, nor the queue after
\* osd_work_queue_free deleted it: the worker's last accesses (completed under
\* the lock, done_cv after it) against a client that releases the item through
\* the unlocked fast path, and the joins in osd_work_queue_free.
NoUseAfterFree ==
  /\ \A n \in 1..Len(items) : mem[items[n]] = "live"
  /\ \A w \in Workers : witem[w] # NoItem => mem[witem[w]] = "live"
  /\ \A c \in Clients : citem[c] # NoItem => mem[citem[c]] = "live"
  /\ queue = "freed" => /\ \A w \in Workers : wpc[w] = "exited"
                        /\ \A c \in Clients : cpc[c] \in {"idle", "item_fast", "delete"}

Busy == {w \in Workers : wpc[w] \in {"run", "finish"}}

Waiting == {c \in Clients : cpc[c] \in {"queue_block", "queue_check"}}

\* pending_items counts exactly the items in the FIFO and in the workers' hands,
\* so osd_work_queue_items and osd_work_queue_wait tell the truth; queue_waiters
\* counts exactly the clients inside osd_work_queue_wait: one that timed out is off it.
CountsExact == /\ pending = Len(items) + Cardinality(Busy)
               /\ queueWaiters = Cardinality(Waiting)

\* A callback never runs twice for one item, `completed' is seen only once it
\* has returned, and osd_work_queue_free returns only after every item that was
\* ever queued has run.
ExactlyOnce ==
  \A i \in Items :
    /\ ran[i] <= 1
    /\ i \in completed => ran[i] = 1
    /\ queue = "freed" /\ mem[i] # "none" => ran[i] = 1

\* Every call returns: no wakeup is lost between a worker that decides not to
\* notify and a client that decides to park, or a push and a worker going to
\* sleep; a queue being freed always lets its workers exit.
CallsReturn == \A c \in Clients : (cpc[c] # "idle") ~> (cpc[c] = "idle")

\* The promise made to chd_file_compressor (WorkQueueAbstract): items start in
\* the order they were queued, each runs to completion, and the queue closes
\* only when all have.
ItemStatus == [i \in Items |->
  CASE mem[i] = "none" -> "none"
    [] i \in Elements(items) -> "queued"
    [] mem[i] # "none" /\ i \notin Elements(items) /\ ran[i] = 0 -> "running"
    [] OTHER -> "done"]

Abstract == INSTANCE WorkQueueAbstract
              WITH status <- ItemStatus, fifo <- items, told <- completed,
                   open <- (queue # "freed")
Implements == Abstract!Spec
=============================================================================
