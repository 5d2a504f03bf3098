---------------------------- MODULE MCFileOpener ----------------------------
(***************************************************************************)
(* Four entries, any of which may be regular files, at most two open at    *)
(* once, on a pool of one thread and on one of two. The real concurrency   *)
(* is four for each thread: two is harder, because the opener reaches its  *)
(* limit, and blocks, with fewer tasks in front of it.                     *)
(***************************************************************************)
EXTENDS FileOpener

MCWorkerCounts == {1, 2}

=============================================================================
