------------------------- MODULE MCOverlappedReader -------------------------
(***************************************************************************)
(* A ring of three slots, files of up to nine units in reads of two: the   *)
(* ring goes round, the last read is a partial one, a prefetch fills the   *)
(* ring or only part of it; with reads that fail or fall short, a file     *)
(* that is dropped on its way, and a cancellation at any moment.           *)
(***************************************************************************)
EXTENDS OverlappedReader

MCScenarios ==
  LET all == [user : {"packer", "source"}, size : {0, 1, 2, 5, 8, 9}, cancel : BOOLEAN,
              fault : {"none", "issue", "read", "short", "drop"}]
  IN  {s \in all : s.cancel => s.user = "packer"}

=============================================================================
