----------------------------- MODULE SocketSink -----------------------------
(***************************************************************************)
(* SocketByteSink of io.cpp: the sending end of the WebSocket. Two threads *)
(* use it at once, the one that runs the transfer (Main: the transport     *)
(* events, and in comparison mode the control messages and the reading of  *)
(* the answers) and the one behind the compressor (Data: write and close). *)
(* A keepalive thread pings an idle socket, and cancel_pending_work comes  *)
(* from whatever thread emits the cancel event.                            *)
(*                                                                         *)
(* send_mutex makes a call one unit and guards both buffers; operation_    *)
(* mutex is held across one blocking operation on the socket: a write, a   *)
(* ping or a read. keepalive_mutex is never held across such an operation, *)
(* so its critical sections are single steps.                              *)
(*                                                                         *)
(* What travels is a sequence of units: <<"data", n>> for the n-th write,  *)
(* <<"control", n>> for the n-th control message, <<"event", 1>> for the   *)
(* transport begin and <<"event", 2>> for its end.                         *)
(***************************************************************************)
EXTENDS Naturals, Sequences, FiniteSets, SequencesExt

CONSTANTS Writes,       (* bound: calls of write                           *)
          Batches,      (* bound: batches compared in comparison mode      *)
          DataCap,      (* units the data buffer holds                     *)
          ControlCap,   (* units the control buffer holds                  *)
          Scenarios     (* what one transfer meets: comparison mode, a     *)
                        (* cancellation, a peer that stops reading, a lost *)
                        (* connection                                      *)

SinkBounds ==
  /\ Writes \in Nat /\ Batches \in Nat
  /\ DataCap \in Nat \ {0} /\ ControlCap \in Nat \ {0}
  /\ Scenarios \subseteq [compare : BOOLEAN, cancel : BOOLEAN,
                          stalls : BOOLEAN, lost : BOOLEAN]

ASSUME SinkAssumption == SinkBounds

Users == {"main", "data"}
Stoppers == {"main", "canceller"}
Free == "free"

VARIABLES
  scenario,     (* fixed                                                   *)
  calls,        (* the calls each user has yet to make                     *)
  phase,        (* where each user is in its call                          *)
  todo,         (* what is left of the call, under send_mutex              *)
  frame,        (* the frame being sent                                    *)
  outcome,      (* how each user ended                                     *)
  data,         (* data_buffer                                             *)
  control,      (* control_writer's buffer                                 *)
  active,       (* transport_active                                        *)
  sendLock,     (* send_mutex                                              *)
  opLock,       (* operation_mutex                                         *)
  wire,         (* what reached the peer                                   *)
  answers,      (* answers read                                            *)
  accepted,     (* history: units in the order the calls took them         *)
  closed,       (* close_lowest_layer was called (and socket_closed set)   *)
  broken,       (* the connection failed                                   *)
  cancelling,   (* cancel_requested                                        *)
  asyncError,   (* async_error                                             *)
  keep,         (* where the keepalive thread is                           *)
  stopKeep,     (* keepalive_stop_requested                                *)
  stopper,      (* where a thread is in stopping the keepalive thread      *)
  reaped        (* keepalive_thread has been joined                        *)

callVars == <<calls, phase, todo, frame, outcome>>
bufferVars == <<data, control, active, wire, answers, accepted>>
stopVars == <<stopKeep, stopper, reaped>>

vars == <<scenario, callVars, bufferVars, sendLock, opLock, closed, broken,
          cancelling, asyncError, keep, stopVars>>

(* The calls of listen_directory_task and of QueueWriter. Main joins the   *)
(* writer's thread before it ends the transport.                           *)
Repeat(n, s) == [i \in 1 .. n * Len(s) |-> s[((i - 1) % Len(s)) + 1]]

MainCalls(compare) ==
  <<"begin">>
  \o (IF compare THEN Repeat(Batches, <<"message", "flush", "await">>) \o <<"message", "flush">>
      ELSE <<>>)
  \o <<"end", "check">>

DataCalls == Repeat(Writes, <<"write">>) \o <<"close">>

Init ==
  /\ scenario \in Scenarios
  /\ calls = [u \in Users |-> IF u = "main" THEN MainCalls(scenario.compare) ELSE DataCalls]
  /\ phase = [u \in Users |-> "idle"]
  /\ todo = [u \in Users |-> <<>>]
  /\ frame = [u \in Users |-> <<>>]
  /\ outcome = [u \in Users |-> "running"]
  /\ data = <<>>
  /\ control = <<>>
  /\ active = FALSE
  /\ sendLock = Free
  /\ opLock = Free
  /\ wire = <<>>
  /\ answers = 0
  /\ accepted = <<>>
  /\ closed = FALSE
  /\ broken = FALSE
  /\ cancelling = FALSE
  /\ asyncError = FALSE
  /\ keep = "wait"
  /\ stopKeep = FALSE
  /\ stopper = [s \in Stoppers |-> "none"]
  /\ reaped = FALSE

(* Definitions named ..._Fault are seeded faults: what the definition that *)
(* follows would be if the code had a plausible bug. Nothing uses them.    *)

(***************************************************************************)
(* What a call does under send_mutex.                                      *)
(***************************************************************************)
Script_NoFlushFault(call) ==
  CASE call = "begin"   -> <<"flushData", "flushControl", "sendBegin">>
    [] call = "write"   -> <<"putData">>
    [] call = "close"   -> <<"flushData", "flushControl">>
    [] call = "message" -> <<"putControl">>
    [] call = "flush"   -> <<"flushControl">>
    [] call = "end"     -> <<"flushData", "flushControl", "sendEnd">>

Script(call) ==
  CASE call = "begin"   -> <<"flushData", "flushControl", "sendBegin">>
    [] call = "write"   -> <<"flushControl", "putData">>
    [] call = "close"   -> <<"flushData", "flushControl">>
    [] call = "message" -> <<"flushData", "putControl">>
    [] call = "flush"   -> <<"flushControl">>
    [] call = "end"     -> <<"flushData", "flushControl", "sendEnd">>

(* The units of a kind in a sequence, and the next one to be accepted.     *)
NumberOf(kind, s) == Cardinality({i \in DOMAIN s : s[i][1] = kind})
NextUnit(kind) == <<kind, NumberOf(kind, accepted) + 1>>

Refusing == asyncError \/ cancelling

(* The exception ends the user's part and unlocks what it holds.           *)
Throw(u, how) ==
  /\ phase' = [phase EXCEPT ![u] = "over"]
  /\ outcome' = [outcome EXCEPT ![u] = how]
  /\ todo' = [todo EXCEPT ![u] = <<>>]
  /\ frame' = [frame EXCEPT ![u] = <<>>]
  /\ sendLock' = IF sendLock = u THEN Free ELSE sendLock
  /\ opLock' = IF opLock = u THEN Free ELSE opLock

Refusal == IF asyncError THEN "failed" ELSE "cancelled"

(* QueueWriter's thread runs from the beginning of the transport on.       *)
(* Main waits for it before the end, and gives up if it failed; so write   *)
(* and send_transport_end never find the transport inactive.               *)
MayCall(u) ==
  IF u = "data" THEN active
  ELSE Head(calls[u]) = "end" => outcome["data"] # "running"

WriterFailed == outcome["data"] \in {"cancelled", "failed"}

(* The beginning of a call. await_control_response and check_connection do *)
(* not take send_mutex, and the former checks nothing.                     *)
StartCall(u) ==
  /\ phase[u] = "idle" /\ calls[u] # <<>> /\ MayCall(u)
  /\ LET call == Head(calls[u]) IN
     \/ /\ call = "end" /\ WriterFailed
        /\ Throw(u, outcome["data"])
        /\ UNCHANGED calls
     \/ /\ call = "end" => ~WriterFailed
        /\ call # "await" /\ (asyncError \/ (cancelling /\ call # "check"))
        /\ Throw(u, Refusal)
        /\ UNCHANGED calls
     \/ /\ call = "end" => ~WriterFailed
        /\ call = "await" \/ call = "check" \/ ~cancelling
        /\ call = "await" \/ ~asyncError
        /\ calls' = [calls EXCEPT ![u] = Tail(@)]
        /\ phase' = [phase EXCEPT ![u] = CASE call = "await" -> "op"
                                            [] call = "check" -> "idle"
                                            [] OTHER          -> "lock"]
        /\ todo' = [todo EXCEPT ![u] = CASE call = "await" -> <<"read">>
                                         [] call = "check" -> <<>>
                                         [] OTHER          -> Script(call)]
        /\ UNCHANGED <<frame, outcome, sendLock, opLock>>
  /\ UNCHANGED <<scenario, bufferVars, closed, broken, cancelling, asyncError, keep, stopVars>>

TakeSendLock(u) ==
  /\ phase[u] = "lock" /\ sendLock = Free
  /\ sendLock' = u
  /\ phase' = [phase EXCEPT ![u] = "work"]
  /\ UNCHANGED <<scenario, calls, todo, frame, outcome, bufferVars, opLock, closed, broken,
                 cancelling, asyncError, keep, stopVars>>

(***************************************************************************)
(* The steps of a call.                                                    *)
(***************************************************************************)
Working(u, step) == phase[u] = "work" /\ todo[u] # <<>> /\ Head(todo[u]) = step

Then(u, steps) == todo' = [todo EXCEPT ![u] = steps \o Tail(@)]

(* flush_data_buffer, and the flush of control_writer: nothing if empty.   *)
FlushEmpty(u) ==
  /\ \/ Working(u, "flushData") /\ data = <<>>
     \/ Working(u, "flushControl") /\ control = <<>>
  /\ Then(u, <<>>)
  /\ UNCHANGED <<scenario, calls, phase, frame, outcome, bufferVars, sendLock, opLock,
                 closed, broken, cancelling, asyncError, keep, stopVars>>

(* do_send_data_frame and do_send_control_frame, up to the operation_mutex.*)
Frame(u) ==
  CASE Head(todo[u]) = "flushData"    -> data
    [] Head(todo[u]) = "flushControl" -> control
    [] Head(todo[u]) = "sendBegin"    -> << <<"event", 1>> >>
    [] Head(todo[u]) = "sendEnd"      -> << <<"event", 2>> >>
    [] OTHER                          -> << NextUnit("control") >>

StartFrame(u) ==
  /\ \/ Working(u, "flushData") /\ data # <<>>
     \/ Working(u, "flushControl") /\ control # <<>>
     \/ \E step \in {"sendBegin", "sendEnd", "sendLarge"} : Working(u, step)
  /\ \/ /\ Refusing
        /\ Throw(u, Refusal)
        /\ UNCHANGED accepted
     \/ /\ ~Refusing
        /\ frame' = [frame EXCEPT ![u] = Frame(u)]
        /\ accepted' = IF Head(todo[u]) \in {"flushData", "flushControl"} THEN accepted
                       ELSE accepted \o Frame(u)
        /\ phase' = [phase EXCEPT ![u] = "op"]
        /\ UNCHANGED <<todo, outcome, sendLock, opLock>>
  /\ UNCHANGED <<scenario, calls, data, control, active, wire, answers, closed, broken,
                 cancelling, asyncError, keep, stopVars>>

(* write's loop: the bytes go into the buffer, which is sent when it is    *)
(* full, or when what is in it has waited too long.                        *)
PutData(u) ==
  /\ Working(u, "putData")
  /\ data' = Append(data, NextUnit("data"))
  /\ accepted' = Append(accepted, NextUnit("data"))
  /\ \/ Then(u, <<"flushData">>)
     \/ Len(data') < DataCap /\ Then(u, <<>>)
  /\ UNCHANGED <<scenario, calls, phase, frame, outcome, control, active, wire, answers,
                 sendLock, opLock, closed, broken, cancelling, asyncError, keep, stopVars>>

(* send_control_message: a record too large for the buffer goes out at     *)
(* once. The callers flush after every message, so the buffer is empty     *)
(* here and never has to be flushed to make room.                          *)
PutControl(u) ==
  /\ Working(u, "putControl")
  /\ \/ /\ Then(u, <<"flushControl", "sendLarge">>)
        /\ UNCHANGED <<control, accepted>>
     \/ /\ control' = Append(control, NextUnit("control"))
        /\ accepted' = Append(accepted, NextUnit("control"))
        /\ \/ Then(u, <<"flushControl">>)
           \/ Len(control') < ControlCap /\ Then(u, <<>>)
  /\ UNCHANGED <<scenario, calls, phase, frame, outcome, data, active, wire, answers,
                 sendLock, opLock, closed, broken, cancelling, asyncError, keep, stopVars>>

(* The end of a call: send_mutex is unlocked.                              *)
EndCall(u) ==
  /\ phase[u] = "work" /\ todo[u] = <<>>
  /\ sendLock' = Free
  /\ phase' = [phase EXCEPT ![u] = "idle"]
  /\ UNCHANGED <<scenario, calls, todo, frame, outcome, bufferVars, opLock, closed, broken,
                 cancelling, asyncError, keep, stopVars>>

EndUser(u) ==
  /\ phase[u] = "idle" /\ calls[u] = <<>>
  /\ phase' = [phase EXCEPT ![u] = "over"]
  /\ outcome' = [outcome EXCEPT ![u] = "ok"]
  /\ UNCHANGED <<scenario, calls, todo, frame, bufferVars, sendLock, opLock, closed, broken,
                 cancelling, asyncError, keep, stopVars>>

(* With Main gone before the beginning of the transport there is nothing   *)
(* for Data to write.                                                      *)
NothingToWrite ==
  /\ phase["data"] = "idle" /\ ~active /\ phase["main"] = "over"
  /\ Throw("data", outcome["main"])
  /\ UNCHANGED <<scenario, calls, bufferVars, closed, broken, cancelling, asyncError, keep,
                 stopVars>>

(***************************************************************************)
(* The socket. An operation blocks, with operation_mutex held, until the   *)
(* peer lets it finish, or the connection fails or is closed under it.     *)
(***************************************************************************)
TakeOp(u) ==
  /\ phase[u] = "op" /\ opLock = Free
  /\ opLock' = u
  /\ phase' = [phase EXCEPT ![u] = "socket"]
  /\ UNCHANGED <<scenario, calls, todo, frame, outcome, bufferVars, sendLock, closed, broken,
                 cancelling, asyncError, keep, stopVars>>

Alive == ~closed /\ ~broken

(* The frame is written; only now is the buffer it came from emptied.      *)
Emptied_Fault(step) == /\ data' = data
                       /\ control' = IF step = "flushControl" THEN <<>> ELSE control
Emptied(step) == /\ data' = IF step = "flushData" THEN <<>> ELSE data
                 /\ control' = IF step = "flushControl" THEN <<>> ELSE control

WriteFrame(u) ==
  /\ phase[u] = "socket" /\ frame[u] # <<>> /\ Alive
  /\ wire' = wire \o frame[u]
  /\ Emptied(Head(todo[u]))
  /\ active' = CASE Head(todo[u]) = "sendBegin" -> TRUE
                 [] Head(todo[u]) = "sendEnd"   -> FALSE
                 [] OTHER                       -> active
  /\ frame' = [frame EXCEPT ![u] = <<>>]
  /\ phase' = [phase EXCEPT ![u] = "work"]
  /\ Then(u, <<>>)
  /\ opLock' = Free
  /\ UNCHANGED <<scenario, calls, outcome, answers, accepted, sendLock, closed, broken,
                 cancelling, asyncError, keep, stopVars>>

(* The peer answers every batch, after it got it.                          *)
Asked == NumberOf("control", wire)

ReadAnswer(u) ==
  /\ phase[u] = "socket" /\ todo[u] = <<"read">> /\ Alive
  /\ answers < Asked
  /\ answers' = answers + 1
  /\ phase' = [phase EXCEPT ![u] = "idle"]
  /\ todo' = [todo EXCEPT ![u] = <<>>]
  /\ opLock' = Free
  /\ UNCHANGED <<scenario, calls, frame, outcome, data, control, active, wire, accepted,
                 sendLock, closed, broken, cancelling, asyncError, keep, stopVars>>

(* is_cancelled_socket_error knows four error codes; others that a closed  *)
(* socket gives make it a failure even then.                               *)
OperationFails(u) ==
  /\ phase[u] = "socket" /\ ~Alive
  /\ \/ cancelling /\ Throw(u, "cancelled")
     \/ Throw(u, "failed")
  /\ UNCHANGED <<scenario, calls, bufferVars, closed, broken, cancelling, asyncError, keep,
                 stopVars>>

LoseConnection ==
  /\ scenario.lost /\ ~broken
  /\ broken' = TRUE
  /\ UNCHANGED <<scenario, callVars, bufferVars, sendLock, opLock, closed, cancelling,
                 asyncError, keep, stopVars>>

(***************************************************************************)
(* run_keepalive. Time is not modelled: the socket may be idle long enough *)
(* at any wakeup.                                                          *)
(***************************************************************************)
KeepLeaves ==
  /\ keep = "wait" /\ (stopKeep \/ cancelling \/ closed)
  /\ keep' = "exited"
  /\ UNCHANGED <<scenario, callVars, bufferVars, sendLock, opLock, closed, broken, cancelling,
                 asyncError, stopVars>>

KeepIdle ==
  /\ keep = "wait" /\ ~(stopKeep \/ cancelling \/ closed)
  /\ keep' = "op"
  /\ UNCHANGED <<scenario, callVars, bufferVars, sendLock, opLock, closed, broken, cancelling,
                 asyncError, stopVars>>

KeepTakesOp ==
  /\ keep = "op" /\ opLock = Free
  /\ opLock' = "keepalive"
  /\ keep' = IF cancelling \/ closed THEN "skip" ELSE "ping"
  /\ UNCHANGED <<scenario, callVars, bufferVars, sendLock, closed, broken, cancelling,
                 asyncError, stopVars>>

Ping ==
  /\ keep = "skip" \/ (keep = "ping" /\ Alive)
  /\ keep' = "wait"
  /\ opLock' = Free
  /\ UNCHANGED <<scenario, callVars, bufferVars, sendLock, closed, broken, cancelling,
                 asyncError, stopVars>>

(* A failed ping: the lock goes, the error is kept, the socket is closed.  *)
PingFails ==
  /\ keep = "ping" /\ ~Alive
  /\ keep' = "failed"
  /\ opLock' = Free
  /\ UNCHANGED <<scenario, callVars, bufferVars, sendLock, closed, broken, cancelling,
                 asyncError, stopVars>>

KeepStoresError ==
  /\ keep = "failed" /\ ~asyncError
  /\ asyncError' = TRUE
  /\ UNCHANGED <<scenario, callVars, bufferVars, sendLock, opLock, closed, broken, cancelling,
                 keep, stopVars>>

KeepCloses ==
  /\ keep = "failed" /\ asyncError
  /\ closed' = TRUE
  /\ keep' = "exited"
  /\ UNCHANGED <<scenario, callVars, bufferVars, sendLock, opLock, broken, cancelling,
                 asyncError, stopVars>>

(***************************************************************************)
(* request_keepalive_stop and the closing of the socket: close_socket or   *)
(* stop in Main, when both users are through, and cancel_pending_work.     *)
(***************************************************************************)
Cancel ==
  /\ scenario.cancel /\ ~cancelling /\ stopper["main"] # "stopped"
  /\ cancelling' = TRUE
  /\ stopper' = [stopper EXCEPT !["canceller"] = "request"]
  /\ UNCHANGED <<scenario, callVars, bufferVars, sendLock, opLock, closed, broken, asyncError,
                 keep, stopKeep, reaped>>

MainStops ==
  /\ stopper["main"] = "none" /\ \A u \in Users : phase[u] = "over"
  /\ stopper' = [stopper EXCEPT !["main"] = "request"]
  /\ UNCHANGED <<scenario, callVars, bufferVars, sendLock, opLock, closed, broken, cancelling,
                 asyncError, keep, stopKeep, reaped>>

RequestStop_Fault(s) ==
  /\ stopper[s] = "request"
  /\ stopper' = [stopper EXCEPT ![s] = IF reaped THEN "close" ELSE "join"]
  /\ UNCHANGED <<scenario, callVars, bufferVars, sendLock, opLock, closed, broken, cancelling,
                 asyncError, keep, stopKeep, reaped>>

RequestStop(s) ==
  /\ stopper[s] = "request"
  /\ stopKeep' = TRUE
  /\ stopper' = [stopper EXCEPT ![s] = IF reaped THEN "close" ELSE "join"]
  /\ UNCHANGED <<scenario, callVars, bufferVars, sendLock, opLock, closed, broken, cancelling,
                 asyncError, keep, reaped>>

(* join(). Two threads may be here for the one jthread, which is undefined:*)
(* the second to return goes on, or throws and skips the rest.             *)
JoinKeepalive(s) ==
  /\ stopper[s] = "join" /\ keep = "exited"
  /\ reaped' = TRUE
  /\ \/ stopper' = [stopper EXCEPT ![s] = "close"]
     \/ reaped /\ stopper' = [stopper EXCEPT ![s] = "stopped"]
  /\ UNCHANGED <<scenario, callVars, bufferVars, sendLock, opLock, closed, broken, cancelling,
                 asyncError, keep, stopKeep>>

CloseLowestLayer(s) ==
  /\ stopper[s] = "close"
  /\ closed' = TRUE
  /\ stopper' = [stopper EXCEPT ![s] = "stopped"]
  /\ UNCHANGED <<scenario, callVars, bufferVars, sendLock, opLock, broken, cancelling,
                 asyncError, keep, stopKeep, reaped>>

(***************************************************************************)
(* The specification.                                                      *)
(***************************************************************************)
UserStep(u) ==
  \/ StartCall(u) \/ TakeSendLock(u) \/ FlushEmpty(u) \/ StartFrame(u)
  \/ PutData(u) \/ PutControl(u) \/ EndCall(u) \/ EndUser(u) \/ OperationFails(u)
  \/ u = "data" /\ NothingToWrite

PeerStep(u) == WriteFrame(u) \/ ReadAnswer(u)

KeepStep ==
  \/ KeepLeaves \/ KeepIdle \/ KeepTakesOp
  \/ Ping \/ PingFails \/ KeepStoresError \/ KeepCloses

StopStep(s) ==
  \/ s = "main" /\ MainStops
  \/ RequestStop(s) \/ JoinKeepalive(s) \/ CloseLowestLayer(s)

AllOver == stopper["main"] = "stopped" /\ stopper["canceller"] \in {"none", "stopped"}

Finished == AllOver /\ UNCHANGED vars

Next ==
  \/ \E u \in Users : UserStep(u) \/ TakeOp(u) \/ PeerStep(u)
  \/ KeepStep
  \/ \E s \in Stoppers : StopStep(s)
  \/ Cancel
  \/ LoseConnection
  \/ Finished

Spec == Init /\ [][Next]_vars

(* Threads run. The keepalive thread may take operation_mutex again and    *)
(* again, and yet a user obtains it in the end. The peer reads and answers *)
(* unless the scenario says it may stall; a ping is a few bytes that find  *)
(* room even then. No connection has to be lost, nobody has to cancel.     *)
Fairness ==
  /\ \A u \in Users : /\ WF_vars(UserStep(u))
                      /\ SF_vars(TakeOp(u))
                      /\ WF_vars(~scenario.stalls /\ PeerStep(u))
  /\ WF_vars(KeepStep)
  /\ \A s \in Stoppers : WF_vars(StopStep(s))

FairSpec == Spec /\ Fairness

(***************************************************************************)
(* Properties.                                                             *)
(***************************************************************************)
Unit == ({"data", "control"} \X Nat) \cup {<<"event", 1>>, <<"event", 2>>}
Steps == {"flushData", "flushControl", "sendBegin", "sendEnd", "sendLarge", "putData",
          "putControl", "read"}
Calls == {"begin", "write", "close", "message", "flush", "await", "end", "check"}

(* Every variable has its type, and neither buffer exceeds its capacity.   *)
TypeOK ==
  /\ scenario \in Scenarios
  /\ calls \in [Users -> Seq(Calls)]
  /\ phase \in [Users -> {"idle", "lock", "work", "op", "socket", "over"}]
  /\ todo \in [Users -> Seq(Steps)]
  /\ frame \in [Users -> Seq(Unit)]
  /\ outcome \in [Users -> {"running", "ok", "cancelled", "failed"}]
  /\ data \in Seq(Unit) /\ Len(data) <= DataCap
  /\ control \in Seq(Unit) /\ Len(control) <= ControlCap
  /\ active \in BOOLEAN
  /\ sendLock \in Users \cup {Free}
  /\ opLock \in Users \cup {Free, "keepalive"}
  /\ wire \in Seq(Unit)
  /\ answers \in 0 .. Asked
  /\ accepted \in Seq(Unit)
  /\ {closed, broken, cancelling, asyncError, stopKeep, reaped} \subseteq BOOLEAN
  /\ keep \in {"wait", "op", "ping", "skip", "failed", "exited"}
  /\ stopper \in [Stoppers -> {"none", "request", "join", "close", "stopped"}]

(* What two threads send through two buffers reaches the peer in the order *)
(* in which their calls took send_mutex, nothing twice and without a gap:  *)
(* a control message is never overtaken by data written after it, nor data *)
(* by a later message. The end of the transport is the last thing on the   *)
(* wire, behind every byte that was written.                               *)
WireIsInOrder ==
  /\ IsPrefix(wire, accepted)
  /\ <<"event", 2>> \in Range(wire) =>
       /\ Last(wire) = <<"event", 2>> /\ wire = accepted
       /\ NumberOf("data", wire) = Writes

(* Cancellation reaches the socket: whatever operation holds it is ended   *)
(* by closing it.                                                          *)
CancelCloses == cancelling ~> closed

(* Both users, the keepalive thread and whoever stops it come to an end.   *)
EverythingStops == <>(AllOver /\ keep = "exited")

=============================================================================
