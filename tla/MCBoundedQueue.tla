--------------------------- MODULE MCBoundedQueue ---------------------------
(***************************************************************************)
(* One producer and one consumer, as on every queue of the program, in the *)
(* four wirings the program uses: blocking or coroutine on either side.    *)
(***************************************************************************)
EXTENDS BoundedQueue

CONSTANTS p1, c1

MCProducers == {p1}
MCConsumers == {c1}
MCWirings == SUBSET {p1, c1}

=============================================================================
