---------------------------- MODULE MCSocketSink ----------------------------
(***************************************************************************)
(* A transfer with and without file comparison, on buffers small enough to *)
(* fill up. In MCPeerReads the peer keeps reading; in MCPeerStalls it may  *)
(* stop.                                                                   *)
(***************************************************************************)
EXTENDS SocketSink

MCPeerReads ==
  {[compare |-> m, cancel |-> c, stalls |-> FALSE, lost |-> ~c] :
     m \in BOOLEAN, c \in BOOLEAN}

MCPeerStalls == {[compare |-> FALSE, cancel |-> TRUE, stalls |-> TRUE, lost |-> FALSE]}

=============================================================================
