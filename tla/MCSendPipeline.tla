--------------------------- MODULE MCSendPipeline ---------------------------
(***************************************************************************)
(* The sending pipeline on queues of one place. The program recovers from  *)
(* a failure of the traverser, the packer, the compressor or the writer,   *)
(* also when two of them fail, as long as the permits do not run out:      *)
(* three cover a queue of one place and the two stages around it. With one *)
(* permit, as with files larger than the budget, a transfer is slower but  *)
(* no different. One entry is enough under a cancellation, which is       *)
(* possible at every step, with and without a failure beside it. (A stage  *)
(* that may fail need not.)                                                *)
(* MCOpenerFails is for the relays.                                        *)
(***************************************************************************)
EXTENDS SendPipeline

MCTransfer(to, n, f, c, p) ==
  [target |-> to, files |-> n, fail |-> f, cancel |-> c, permits |-> p]

MCTransfers ==
  {MCTransfer("socket", 4, f, FALSE, 3) : f \in {{Packer, Writer}, {Compressor, Writer}}} \cup
  {MCTransfer("socket", 4, {Traverser}, FALSE, 1)} \cup
  {MCTransfer("file", 3, {Packer, Writer}, FALSE, 3),
   MCTransfer("raw", 2, {Packer, Writer}, FALSE, 3)} \cup
  {MCTransfer(t, 1, {Packer}, TRUE, 1) : t \in {"socket", "file", "raw"}}

MCOpenerFails == {MCTransfer("socket", 4, {2}, FALSE, 3)}

=============================================================================
