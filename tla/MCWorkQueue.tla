----------------------------- MODULE MCWorkQueue -----------------------------
(* A small instance of WorkQueue for TLC. *)
EXTENDS WorkQueue

CONSTANTS i1, i2

\* Single items as async_read queues them, and a batch that is auto-released.
MCBatches == {<<i1>>, <<i2>>, <<i1, i2>>}
=============================================================================
