---------------------------- MODULE GuiSendServer ----------------------------
(***************************************************************************)
(* GuiSendServer of gui_runtime.cpp: the session behind the GUI's send     *)
(* page. A server thread listens, takes one receiver at a time through the *)
(* WebSocket handshake, and sends each drop the user makes to it. The user *)
(* interface thread starts it, submits drops, and stops it.                *)
(*                                                                         *)
(* One step is one critical section of mutex_, or what lies between two.   *)
(* stop() holds mutex_ across the emission of the cancel event, so it is   *)
(* a variable. CancelEvent is here in full, as this class uses it: emit    *)
(* sets the flag and then runs the slots; connect runs the slot at once    *)
(* when the flag is set already. Of SocketByteSink there is what stop()    *)
(* and close_socket() wait for: the keepalive thread, which a receiver     *)
(* that takes nothing any more holds in its ping or, behind a write, at    *)
(* operation_mutex. Sending is one step here (SendPipeline and SocketSink  *)
(* have its inside).                                                       *)
(***************************************************************************)
EXTENDS Naturals, FiniteSets

CONSTANTS Drops,       (* what the user drops, one after the other         *)
          Receivers    (* bound: receivers that connect                    *)

ASSUME ServerAssumption ==
  /\ Receivers \in Nat
  /\ 0 \notin Drops

VARIABLES
  ui,         (* where the user interface thread is                        *)
  server,     (* where the server thread is                                *)
  mutex,      (* mutex_, held across steps by nobody but stop()            *)
  startup,    (* startup_complete_ and startup_error_                      *)
  listening, connected, transferring,     (* the flags of the snapshot     *)
  pending,    (* pending_paths_: a drop, or 0                              *)
  sending,    (* the drop being sent, or 0                                 *)
  receiver,   (* how many receivers have connected so far                  *)
  peer,       (* the present receiver is there, takes nothing, or is gone  *)
  keepalive,  (* the sink's keepalive thread is idle, or stuck in a ping   *)
  cancelled,  (* the flag of cancel_event_                                 *)
  slots,      (* the slots connected to it                                 *)
  closed,     (* what a slot has closed                                    *)
  fate,       (* what has become of each drop                              *)
  meant       (* the receiver that was connected when a drop was accepted  *)

uiVars == <<ui, mutex>>
flags == <<listening, connected, transferring>>
cancelVars == <<cancelled, slots, closed>>
peerVars == <<receiver, peer, keepalive>>
history == <<fate, meant>>

vars == <<uiVars, server, startup, flags, pending, sending, peerVars, cancelVars, history>>

Slots == {"acceptor", "socket", "sink"}
Free == "free"

Init ==
  /\ ui = "new"
  /\ server = "none"
  /\ mutex = Free
  /\ startup = "running"
  /\ listening = FALSE /\ connected = FALSE /\ transferring = FALSE
  /\ pending = 0
  /\ sending = 0
  /\ receiver = 0
  /\ peer = "gone"
  /\ keepalive = "idle"
  /\ cancelled = FALSE
  /\ slots = {}
  /\ closed = {}
  /\ fate = [d \in Drops |-> "none"]
  /\ meant = [d \in Drops |-> 0]

(* Definitions named ..._Fault are seeded faults: what the definition that *)
(* follows would be if the code had a plausible bug. Nothing uses them.    *)

(* CancelEvent::connect, of the slot that closes what the server blocks on,*)
(* in place of the slot before it.                                         *)
Connect_Fault(slot) == slots' = {slot} /\ UNCHANGED <<closed, cancelled>>

Connect(slot) ==
  /\ IF cancelled THEN slots' = {} /\ closed' = closed \cup {slot}
                  ELSE slots' = {slot} /\ closed' = closed
  /\ UNCHANGED cancelled

(* A drop that is thrown away without having been sent.                    *)
Discard(why) ==
  /\ pending' = 0
  /\ fate' = [d \in Drops |-> IF d = pending THEN why ELSE fate[d]]

(***************************************************************************)
(* The server thread.                                                      *)
(***************************************************************************)

(* The acceptor is bound, or that fails and run() goes to its catch block. *)
Bind ==
  /\ server = "bind" /\ mutex = Free
  /\ \/ /\ listening' = TRUE
        /\ startup' = "ok"
        /\ server' = "loop"
     \/ /\ server' = "failed"
        /\ UNCHANGED <<listening, startup>>
  /\ UNCHANGED <<uiVars, connected, transferring, pending, sending, peerVars, cancelVars,
                 history>>

(* The outer loop of run(): cancelled, or on to the next receiver.         *)
AwaitReceiver ==
  /\ server = "loop"
  /\ server' = IF cancelled THEN "final" ELSE "accept"
  /\ UNCHANGED <<uiVars, startup, flags, pending, sending, peerVars, cancelVars, history>>

(* accept_socket connects its slot, and waits.                             *)
Listen ==
  /\ server = "accept" /\ Connect("acceptor")
  /\ server' = "accepting"
  /\ UNCHANGED <<uiVars, startup, flags, pending, sending, peerVars, history>>

(* A receiver connects, and the slot goes with the frame of accept_socket;  *)
(* or the closed acceptor ends the wait with an exception.                 *)
ReceiverComes ==
  /\ server = "accepting" /\ receiver < Receivers /\ "acceptor" \notin closed
  /\ receiver' = receiver + 1
  /\ peer' = "there"
  /\ slots' = {}
  /\ server' = "accepted"
  /\ UNCHANGED <<uiVars, startup, flags, pending, sending, keepalive, cancelled, closed, history>>

(* Accepting also fails for reasons of the system's own; nothing says that *)
(* it has to.                                                              *)
AcceptEnds ==
  /\ server = "accepting"
  /\ slots' = {}
  /\ server' = "failed"
  /\ UNCHANGED <<uiVars, startup, flags, pending, sending, peerVars, cancelled, closed,
                 history>>

AcceptFails == "acceptor" \in closed /\ AcceptEnds
AcceptError == "acceptor" \notin closed /\ AcceptEnds

Wrap ==
  /\ server = "accepted" /\ Connect("socket")
  /\ server' = "shake"
  /\ UNCHANGED <<uiVars, startup, flags, pending, sending, peerVars, history>>

(* The handshake, which a receiver can leave waiting for ever. One that    *)
(* fails ends run(), as any exception outside the inner loop does.         *)
HandshakeDone ==
  /\ server = "shake" /\ peer = "there" /\ "socket" \notin closed
  /\ slots' = {}
  /\ server' = "adopt"
  /\ UNCHANGED <<uiVars, startup, flags, pending, sending, peerVars, cancelled, closed,
                 history>>

HandshakeFails ==
  /\ server = "shake" /\ (peer = "gone" \/ "socket" \in closed)
  /\ slots' = {}
  /\ server' = "failed"
  /\ UNCHANGED <<uiVars, startup, flags, pending, sending, peerVars, cancelled, closed,
                 history>>

(* SocketByteSink takes the socket and connects a slot of its own.         *)
Adopt ==
  /\ server = "adopt" /\ Connect("sink")
  /\ server' = "attached"
  /\ UNCHANGED <<uiVars, startup, flags, pending, sending, peerVars, history>>

Attach ==
  /\ server = "attached" /\ mutex = Free
  /\ connected' = TRUE
  /\ transferring' = FALSE
  /\ server' = "wait"
  /\ UNCHANGED <<uiVars, startup, listening, pending, sending, peerVars, cancelVars,
                 history>>

(* The inner loop and its cv_.wait_for, woken or after half a second:      *)
(* cancelled (the loop's condition reads the flag without the lock), ...   *)
WaitCancelled ==
  /\ server = "wait" /\ cancelled
  /\ server' = "hangup"
  /\ UNCHANGED <<uiVars, startup, flags, pending, sending, peerVars, cancelVars, history>>

(* ... or with a drop to send, ...                                         *)
TakeDrop_Fault ==
  /\ server = "wait" /\ mutex = Free /\ ~cancelled
  /\ sending' = pending
  /\ pending' = 0
  /\ transferring' = TRUE
  /\ server' = "send"
  /\ UNCHANGED <<uiVars, startup, listening, connected, peerVars, cancelVars, history>>

TakeDrop ==
  /\ server = "wait" /\ mutex = Free /\ ~cancelled /\ pending # 0
  /\ sending' = pending
  /\ pending' = 0
  /\ transferring' = TRUE
  /\ server' = "send"
  /\ UNCHANGED <<uiVars, startup, listening, connected, peerVars, cancelVars, history>>

(* ... or with neither: then, without the lock, the connection is checked. *)
WaitTimeout ==
  /\ server = "wait" /\ mutex = Free /\ ~cancelled /\ pending = 0
  /\ server' = "check"
  /\ UNCHANGED <<uiVars, startup, flags, pending, sending, peerVars, cancelVars, history>>

(* A failed ping is noticed some time after the receiver went.             *)
CheckConnection ==
  /\ server = "check"
  /\ \/ server' = "wait"
     \/ server' = "hangup" /\ (peer = "gone" \/ "sink" \in closed)
  /\ UNCHANGED <<uiVars, startup, flags, pending, sending, peerVars, cancelVars, history>>

(* send_paths_to_socket returns, or throws: for its own reasons (a file),  *)
(* because the receiver is gone, or because of the cancel event. It does   *)
(* neither while a receiver takes nothing: the sink's thread, which it     *)
(* joins, is in a write.                                                   *)
Send ==
  /\ server = "send" /\ (peer = "stalled" => "sink" \in closed)
  /\ \/ /\ peer = "there" /\ "sink" \notin closed
        /\ fate' = [fate EXCEPT ![sending] = "sent"]
        /\ server' = "sent"
     \/ /\ fate' = [fate EXCEPT ![sending] = "failed"]
        /\ server' = IF cancelled THEN "hangup" ELSE "unsent"
  /\ sending' = 0
  /\ UNCHANGED <<uiVars, startup, flags, pending, peerVars, cancelVars, meant>>

TransferOver ==
  /\ server \in {"sent", "unsent"} /\ mutex = Free
  /\ transferring' = FALSE
  /\ server' = IF server = "sent" THEN "wait" ELSE "hangup"
  /\ UNCHANGED <<uiVars, startup, listening, connected, pending, sending, peerVars,
                 cancelVars, history>>

(* close_socket joins the keepalive thread before it closes the socket.    *)
HangUp ==
  /\ server = "hangup" /\ keepalive = "idle"
  /\ peer' = "gone"
  /\ server' = "detach"
  /\ UNCHANGED <<uiVars, startup, flags, pending, sending, receiver, keepalive, cancelVars, history>>

Detach_Fault ==
  /\ server = "detach" /\ mutex = Free
  /\ connected' = FALSE
  /\ transferring' = FALSE
  /\ server' = "release"
  /\ UNCHANGED <<uiVars, startup, listening, pending, sending, peerVars, cancelVars, history>>

Detach ==
  /\ server = "detach" /\ mutex = Free
  /\ connected' = FALSE
  /\ transferring' = FALSE
  /\ Discard("lost")
  /\ server' = "release"
  /\ UNCHANGED <<uiVars, startup, listening, sending, peerVars, cancelVars, meant>>

(* The sink, and its slot with it, go at the end of the loop's body.       *)
Release ==
  /\ server = "release"
  /\ slots' = {}
  /\ server' = "loop"
  /\ UNCHANGED <<uiVars, startup, flags, pending, sending, peerVars, cancelled, closed,
                 history>>

(* The catch block of run(), and what follows it.                          *)
Failed ==
  /\ server = "failed" /\ mutex = Free
  /\ startup' = "error"
  /\ server' = "final"
  /\ UNCHANGED <<uiVars, flags, pending, sending, peerVars, cancelVars, history>>

Final_Fault ==
  /\ server = "final" /\ mutex = Free
  /\ connected' = FALSE /\ transferring' = FALSE
  /\ Discard("stopped")
  /\ server' = "ended"
  /\ UNCHANGED <<uiVars, startup, listening, sending, peerVars, cancelVars, meant>>

Final ==
  /\ server = "final" /\ mutex = Free
  /\ listening' = FALSE /\ connected' = FALSE /\ transferring' = FALSE
  /\ Discard("stopped")
  /\ server' = "ended"
  /\ UNCHANGED <<uiVars, startup, sending, peerVars, cancelVars, meant>>

ServerStep ==
  \/ Bind \/ AwaitReceiver \/ Listen \/ AcceptFails \/ Wrap \/ HandshakeFails \/ Adopt \/ Attach
  \/ WaitCancelled \/ TakeDrop \/ WaitTimeout \/ CheckConnection
  \/ Send \/ TransferOver \/ HangUp \/ Detach \/ Release \/ Failed \/ Final

(* What is the receiver's doing, or the network's.                         *)
PeerBecomes(how) ==
  /\ peer' = how
  /\ UNCHANGED <<uiVars, server, startup, flags, pending, sending, receiver, keepalive, cancelVars,
                 history>>

PeerLeaves == peer # "gone" /\ PeerBecomes("gone")

(* A receiver stops taking what is sent, until the buffers between are     *)
(* full, and may go on later.                                              *)
PeerStalls == peer = "there" /\ PeerBecomes("stalled")
PeerGoesOn == peer = "stalled" /\ PeerBecomes("there")

PeerStep == ReceiverComes \/ HandshakeDone \/ AcceptError \/ PeerLeaves \/ PeerStalls \/ PeerGoesOn

(***************************************************************************)
(* The keepalive thread of the sink.                                       *)
(***************************************************************************)

(* It goes for a ping on a connection whose receiver takes nothing: it     *)
(* waits at operation_mutex behind the write, or in the ping. Once the     *)
(* cancel event is out it is asked to stop before anybody waits for it; a  *)
(* ping it goes for in between might as well have come first.              *)
PingSticks ==
  /\ server \in {"attached", "wait", "check", "send", "sent", "unsent"}
  /\ peer = "stalled" /\ keepalive = "idle" /\ ~cancelled
  /\ keepalive' = "stuck"
  /\ UNCHANGED <<uiVars, server, startup, flags, pending, sending, receiver, peer, cancelVars,
                 history>>

(* The write and the ping end when the receiver takes something again, or  *)
(* is gone.                                                                *)
PingEnds ==
  /\ keepalive = "stuck" /\ peer # "stalled"
  /\ keepalive' = "idle"
  /\ UNCHANGED <<uiVars, server, startup, flags, pending, sending, receiver, peer, cancelVars,
                 history>>

(***************************************************************************)
(* The user interface thread.                                              *)
(***************************************************************************)
Start ==
  /\ ui = "new"
  /\ ui' = "starting"
  /\ server' = "bind"
  /\ UNCHANGED <<mutex, startup, flags, pending, sending, peerVars, cancelVars, history>>

(* start() waits for startup_complete_, and throws startup_error_.         *)
Started ==
  /\ ui = "starting" /\ startup # "running"
  /\ ui' = "idle"
  /\ UNCHANGED <<mutex, server, startup, flags, pending, sending, peerVars, cancelVars,
                 history>>

(* submit_paths.                                                           *)
MayDrop_Fault == connected /\ ~transferring
MayDrop == connected /\ ~transferring /\ pending = 0

Submit(d) ==
  /\ ui = "idle" /\ mutex = Free /\ fate[d] = "none"
  /\ IF MayDrop
     THEN /\ pending' = d
          /\ fate' = [fate EXCEPT ![d] = "accepted"]
          /\ meant' = [meant EXCEPT ![d] = receiver]
     ELSE /\ fate' = [fate EXCEPT ![d] = "refused"]
          /\ UNCHANGED <<pending, meant>>
  /\ UNCHANGED <<uiVars, server, startup, flags, sending, peerVars, cancelVars>>

(* stop(): lock, emit (flag, then slots), drop what is pending, unlock and *)
(* join the server thread.                                                 *)
Stop ==
  /\ ui = "idle" /\ mutex = Free
  /\ mutex' = "ui"
  /\ cancelled' = TRUE
  /\ ui' = "emitting"
  /\ UNCHANGED <<server, startup, flags, pending, sending, peerVars, slots, closed, history>>

(* The sink's slot, cancel_pending_work, joins the keepalive thread before *)
(* it closes the socket, all with mutex_ held.                             *)
RunSlots ==
  /\ ui = "emitting" /\ ("sink" \in slots => keepalive = "idle")
  /\ closed' = closed \cup slots
  /\ Discard("stopped")
  /\ mutex' = Free
  /\ ui' = "joining"
  /\ UNCHANGED <<server, startup, flags, sending, peerVars, cancelled, slots, meant>>

Stopped ==
  /\ ui = "joining" /\ server = "ended"
  /\ ui' = "stopped"
  /\ UNCHANGED <<mutex, server, startup, flags, pending, sending, peerVars, cancelVars,
                 history>>

Finished == ui = "stopped" /\ UNCHANGED vars

Next ==
  \/ ServerStep
  \/ PeerStep
  \/ PingSticks \/ PingEnds
  \/ Start \/ Started \/ Stop \/ RunSlots \/ Stopped
  \/ \E d \in Drops : Submit(d)
  \/ Finished

Spec == Init /\ [][Next]_vars

(* Threads run, a transfer comes to an end (SendPipeline shows when it     *)
(* does), and a gone receiver is noticed by one of the pings. What waits   *)
(* for a receiver to take something ends when it does so again and again.  *)
(* No receiver has to come, to answer the handshake, to take anything or   *)
(* to go, and the user has to do nothing.                                  *)
Fairness ==
  /\ WF_vars(ServerStep)
  /\ SF_vars(CheckConnection /\ server' = "hangup")
  /\ SF_vars(PingEnds)
  /\ WF_vars(Started) /\ WF_vars(RunSlots) /\ WF_vars(Stopped)

FairSpec == Spec /\ Fairness

(***************************************************************************)
(* Properties.                                                             *)
(***************************************************************************)
Fates == {"none", "refused", "accepted", "sent", "failed", "lost", "stopped"}

(* Every variable has its type, and a transfer has something to send.      *)
TypeOK ==
  /\ ui \in {"new", "starting", "idle", "emitting", "joining", "stopped"}
  /\ server \in {"none", "bind", "loop", "accept", "accepting", "accepted", "shake", "adopt", "attached",
                 "wait", "check", "send", "sent", "unsent", "hangup", "detach", "release", "failed",
                 "final", "ended"}
  /\ mutex \in {Free, "ui"}
  /\ startup \in {"running", "ok", "error"}
  /\ {listening, connected, transferring, cancelled} \subseteq BOOLEAN
  /\ pending \in Drops \cup {0}
  /\ sending \in Drops \cup {0}
  /\ server = "send" <=> sending # 0
  /\ receiver \in 0 .. Receivers
  /\ peer \in {"there", "stalled", "gone"}
  /\ keepalive \in {"idle", "stuck"}
  /\ slots \subseteq Slots /\ closed \subseteq Slots
  /\ fate \in [Drops -> Fates]
  /\ meant \in [Drops -> 0 .. Receivers]

(* A drop is sent to the receiver the user saw connected when dropping it, *)
(* and never to one that connected later: what was pending when a receiver *)
(* left is not kept for the next.                                          *)
DropGoesToItsReceiver ==
  /\ sending # 0 => meant[sending] = receiver
  /\ pending # 0 => connected /\ meant[pending] = receiver

(* A drop is not overwritten by the next one: each accepted drop is the    *)
(* one pending until it is taken, and only one is in progress.             *)
AcceptedIsKept ==
  \A d \in Drops : fate[d] = "accepted" => d \in {pending, sending}

(* When stop() has returned the server thread is gone, nothing is pending, *)
(* and the snapshot does not claim a listener, a receiver or a transfer.   *)
StoppedIsQuiet ==
  ui = "stopped" => /\ server = "ended" /\ pending = 0
                    /\ ~listening /\ ~connected /\ ~transferring

(* start() always returns. So does stop(), whatever the server thread is   *)
(* blocked on when the cancel event reaches it, with one exception: a      *)
(* receiver that takes nothing for ever while the keepalive thread of the  *)
(* sink is stuck on it. The slot that stop() runs with mutex_ held joins   *)
(* that thread before it closes the socket that would free it.             *)
JoinBlocked == keepalive = "stuck" /\ peer = "stalled"

CallsReturn ==
  /\ ui = "starting" ~> ui = "idle"
  /\ <>[]JoinBlocked \/ (ui = "emitting" ~> ui = "stopped")

=============================================================================
