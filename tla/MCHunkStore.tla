----------------------------- MODULE MCHunkStore -----------------------------
(* Small instances of HunkStore for TLC. *)
EXTENDS HunkStore

\* No guard reads the reply, so allocation can be explored without it.
WithoutReply == <<storeVars, other, cacheVars>>
=============================================================================
