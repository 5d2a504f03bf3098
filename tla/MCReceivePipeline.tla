-------------------------- MODULE MCReceivePipeline --------------------------
(***************************************************************************)
(* A directory and two files, one of them empty, over a tar_queue of one   *)
(* place. In MCReceives the first file fills its slots exactly, or needs   *)
(* no more of them than there are; in MCWaitsInClose it ends in mid-slot   *)
(* with all other slots still waiting.                                     *)
(***************************************************************************)
EXTENDS ReceivePipeline

MCSizes == <<0, 3, 0>>
MCDirectories == {1}

Case(from, kept, stoppable, broken, size, number) ==
  [source |-> from, keep |-> kept, cancel |-> stoppable, fail |-> broken, slot |-> size,
   slots |-> number]

MCReceives ==
  {Case("socket", TRUE, FALSE, {"source"}, 1, 1),
   Case("socket", FALSE, FALSE, {"source", "disk"}, 2, 2),
   Case("socket", FALSE, TRUE, {"stall"}, 1, 1),
   Case("raw", FALSE, FALSE, {"disk"}, 1, 1),
   Case("raw", FALSE, TRUE, {"disk"}, 2, 2),
   Case("zstd", FALSE, TRUE, {"source"}, 1, 1)}

MCWaitsInClose == {Case("socket", FALSE, FALSE, {}, 2, 1)}

=============================================================================
