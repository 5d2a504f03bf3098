--------------------------- MODULE MCSemaphoreCor ---------------------------
(***************************************************************************)
(* Three clients and requests of every size from nothing to everything.     *)
(***************************************************************************)
EXTENDS SemaphoreCor

MCRequests == 0 .. Initial

=============================================================================
