-------------------------- MODULE WorkQueueAbstract --------------------------
(***************************************************************************)
(* What the work queue of sys/minimal_osd.cpp promises its users, without  *)
(* threads, locks or condition variables: a FIFO of items, each of which   *)
(* is started in order, runs once, and may afterwards be reported complete.*)
(***************************************************************************)
EXTENDS Sequences, Naturals

CONSTANTS Items, Batches

VARIABLES status, \* "none" | "queued" | "running" | "done" for each item
          fifo,   \* the items not yet started, oldest first
          told,   \* the items whose completion has been published
          open    \* the queue object exists

vars == <<status, fifo, told, open>>

Init == /\ status = [i \in Items |-> "none"]
        /\ fifo = <<>>
        /\ told = {}
        /\ open = TRUE

Submit(b) ==
  LET new == {b[n] : n \in 1..Len(b)} IN
  /\ open
  /\ \A i \in new : status[i] = "none"
  /\ status' = [i \in Items |-> IF i \in new THEN "queued" ELSE status[i]]
  /\ fifo' = fifo \o b
  /\ UNCHANGED <<told, open>>

Start ==
  /\ fifo # <<>>
  /\ status' = [status EXCEPT ![Head(fifo)] = "running"]
  /\ fifo' = Tail(fifo)
  /\ UNCHANGED <<told, open>>

Finish(i) ==
  /\ status[i] = "running"
  /\ status' = [status EXCEPT ![i] = "done"]
  /\ UNCHANGED <<fifo, told, open>>

Tell(i) ==
  /\ status[i] = "done"
  /\ told' = told \cup {i}
  /\ UNCHANGED <<status, fifo, open>>

Close ==
  /\ open
  /\ \A i \in Items : status[i] \in {"none", "done"}
  /\ open' = FALSE
  /\ UNCHANGED <<status, fifo, told>>

Next == \/ \E b \in Batches : Submit(b)
        \/ Start
        \/ \E i \in Items : Finish(i) \/ Tell(i)
        \/ Close

SafeSpec == Init /\ [][Next]_vars

\* Whatever is queued is started, and whatever is started finishes.
Spec == /\ SafeSpec
        /\ WF_vars(Start)
        /\ \A i \in Items : WF_vars(Finish(i))
=============================================================================
