---------------------------- MODULE SendPipeline ----------------------------
(***************************************************************************)
(* The pipeline of listen_directory_task and send_paths_to_socket without  *)
(* file comparison, and of pack_directory_to_file, with the queues between *)
(* its stages:                                                             *)
(*                                                                         *)
(*   FileTraverser -> FileOpener -> FilePrefetcher         (coroutines)    *)
(*   -> TarPacker -> ZstdCompressor -> QueueWriter         (threads)       *)
(*                                                                         *)
(* Opener and prefetcher are alike here, relays between the traverser and  *)
(* the packer, so their number is a constant: each takes a permit of its   *)
(* own semaphore (open_slots_, byte_budget_) for every file, and the file  *)
(* carries the guard along. Queue q lies between stage q and stage q+1 and *)
(* is used as the channel BoundedQueue implements. The module is about how *)
(* a failure or a cancellation travels: who closes which queue, in which   *)
(* order, what the main thread waits for, and what it reports. The work of *)
(* a stage is one item in, the same item out.                              *)
(***************************************************************************)
EXTENDS Naturals, Sequences, FiniteSets, FiniteSetsExt

CONSTANTS Relays,        (* stages between traverser and packer: 2         *)
          Files,         (* bound: entries a traverser finds               *)
          Capacity,      (* capacity of every queue                        *)
          Scenarios      (* transfers: to a socket, or into a local file,  *)
                         (* with compression or without ("raw"); the       *)
                         (* entries there are; the stages whose own        *)
                         (* work may fail; whether somebody may cancel;    *)
                         (* and the permits of each semaphore, few if the  *)
                         (* files are large                                *)

Traverser == 1
Opener == 2
Packer == Relays + 2
Compressor == Packer + 1
Writer == Packer + 2

Stages == 1 .. Writer
Queues == 1 .. Compressor
TarQueue == Packer
ZstdQueue == Compressor

ASSUME PipelineAssumption ==
  /\ Relays \in Nat
  /\ Files \in Nat
  /\ Capacity \in Nat \ {0}
  /\ Scenarios \subseteq [target : {"socket", "file", "raw"}, files : 0 .. Files,
                          fail : SUBSET Stages, cancel : BOOLEAN, permits : Nat \ {0}]

Coroutines == 1 .. Packer - 1
AllRelays == 2 .. Packer - 1
Main == Writer + 1
Over == Main + 2
Actors == Stages \cup {Main}

(* What the packer and the compressor put behind the last item: the end of *)
(* the archive and the end of the frame.                                   *)
TarEnd == Files + 1
ZstdEnd == Files + 2
VARIABLES
  scenario,  (* fixed                                                      *)
  status,    (* of each queue                                              *)
  items,     (* in each queue                                              *)
  pc,        (* where each stage is                                        *)
  held,      (* the item each stage works on                               *)
  produced,  (* entries the traverser has found                            *)
  sink,      (* what was written to the socket, or to the file             *)
  todo,      (* what is left of an actor's error handling                  *)
  error,     (* the exception each stage is handling                       *)
  result,    (* how each stage ended, as its future or thread shows        *)
  state,     (* PipelineState::error_                                      *)
  main,      (* the stage the main thread waits for; then Main ... Over    *)
  ended,     (* the transport end event went out                           *)
  report,    (* what complete_progress says                                *)
  cancel     (* 0, or 1 plus the number of cancel slots that have run      *)

vars == <<scenario, status, items, pc, held, produced, sink, todo, error, result, state, main,
          ended, report, cancel>>

ToSocket == scenario.target = "socket"
ToFile == ~ToSocket
Raw == scenario.target = "raw"
Whole == [i \in 1 .. scenario.files |-> i] \o (IF Raw THEN <<TarEnd>> ELSE <<TarEnd, ZstdEnd>>)

(* The queue a stage takes from. Without compression the writer takes from *)
(* the packer (on the compressor's thread; that of the writer returns at   *)
(* once).                                                                  *)
Input(s) == IF s = Writer /\ Raw THEN TarQueue ELSE s - 1

(* Cancelling sets the flag and runs the slots in the order they were      *)
(* connected: the queues and the semaphores in the order of the pipeline,  *)
(* and the sink before them if it is the socket, behind them if a file.    *)
Before == IF ToSocket THEN 1 ELSE 0
QueueSlot(q) == Before + q
SemaphoreSlot(s) == Before + ZstdQueue + s - 1
LastSlot == ZstdQueue + Relays + 1
SinkSlot == IF ToSocket THEN 1 ELSE LastSlot

Cancelled == cancel > 0
SinkCancelled == cancel > SinkSlot
SemaphoreCancelled(s) == cancel > SemaphoreSlot(s)

(* Stage t has a file in its hands that carries a permit of relay s: the   *)
(* open guard lives as long as the opened file, the prefetch guard until   *)
(* the packer takes the file.                                              *)
Carries(t, s) ==
  \/ pc[t] = "hold" /\ (t < Packer \/ s = Opener)
  \/ pc[t] = "acquire" /\ t > s

(* The permits in use. Files left behind in a closed queue keep theirs; an *)
(* abandoned queue disposes of its files.                                  *)
InUse(s) ==
  Cardinality({t \in s .. Packer : Carries(t, s)})
    + MapThenSumSet(LAMBDA q : Len(items[q]), s .. Packer - 1)

Init ==
  /\ scenario \in Scenarios
  /\ status = [q \in Queues |-> "Open"]
  /\ items = [q \in Queues |-> <<>>]
  /\ pc = [s \in Stages |-> IF s = Compressor /\ Raw THEN "done" ELSE "take"]
  /\ held = [s \in Stages |-> 0]
  /\ produced = 0
  /\ sink = <<>>
  /\ todo = [a \in Actors |-> <<>>]
  /\ error = [s \in Stages |-> "none"]
  /\ result = [s \in Stages |-> IF s = Compressor /\ Raw THEN "ok" ELSE "none"]
  /\ state = "none"
  /\ main = Traverser
  /\ ended = FALSE
  /\ report = "none"
  /\ cancel = 0

(***************************************************************************)
(* Error handling of each stage, as the steps it takes: a number closes    *)
(* that queue, Fail records the exception in the pipeline state.           *)
(***************************************************************************)
(* Definitions named ..._Fault are seeded faults: what the definition that *)
(* follows would be if the code had a plausible bug. Nothing uses them.    *)

Fail == 0
CloseAll == [q \in Queues |-> q]

(* A coroutine closes its output, and its exception waits in its future.   *)
(* pack and compress close theirs too, before the thread's catch block     *)
(* records the exception and guards or explicit calls close the others. A  *)
(* queue that was closed already is not listed again.                      *)
Handling_LateFault(s) ==
  CASE s \in Coroutines -> <<s>>
    [] s = Packer -> <<TarQueue>> \o [q \in Coroutines |-> q] \o <<ZstdQueue, Fail>>
    [] s = Compressor -> <<ZstdQueue, TarQueue, Fail>>
    [] s = Writer -> <<TarQueue, ZstdQueue, Fail>>

Handling(s) ==
  CASE s \in Coroutines -> <<s>>
    [] s = Packer -> <<TarQueue, Fail>> \o [q \in Coroutines |-> q] \o <<ZstdQueue>>
    [] s = Compressor -> <<ZstdQueue, Fail, TarQueue>>
    [] s = Writer -> <<Fail, TarQueue, ZstdQueue>>

Throw(s, e) ==
  /\ pc' = [pc EXCEPT ![s] = "handling"]
  /\ error' = [error EXCEPT ![s] = e]
  /\ todo' = [todo EXCEPT ![s] = Handling(s)]

(* The first exception is kept; pack_directory_to_file records no          *)
(* CancelledError, and looks at the flag in the end instead.               *)
Recorded(e) == ToSocket \/ e # "cancelled"
StateFail(e) == state' = IF state = "none" /\ Recorded(e) THEN e ELSE state

Close(q) == status' = [status EXCEPT ![q] = IF @ = "Open" THEN "Closed" ELSE @]

(***************************************************************************)
(* The stages.                                                             *)
(***************************************************************************)

(* The traverser finds the next entry, after a check for cancellation.     *)
Traverse ==
  /\ pc[Traverser] = "take" /\ produced < scenario.files
  /\ \/ /\ Cancelled
        /\ Throw(Traverser, "cancelled")
        /\ UNCHANGED <<held, produced>>
     \/ /\ ~Cancelled
        /\ produced' = produced + 1
        /\ held' = [held EXCEPT ![Traverser] = produced + 1]
        /\ pc' = [pc EXCEPT ![Traverser] = "hold"]
        /\ UNCHANGED <<error, todo>>
  /\ UNCHANGED <<scenario, status, items, sink, result, state, main, ended,
                 report, cancel>>

(* The normal end of a stage: the output is closed, the guard dismissed.   *)
EndStage_Fault(s) ==
  /\ UNCHANGED status
  /\ pc' = [pc EXCEPT ![s] = "done"]
  /\ result' = [result EXCEPT ![s] = "ok"]

EndStage(s) ==
  /\ Close(s)
  /\ pc' = [pc EXCEPT ![s] = "done"]
  /\ result' = [result EXCEPT ![s] = "ok"]

TraverseEnd ==
  /\ pc[Traverser] = "take" /\ produced = scenario.files
  /\ EndStage(Traverser)
  /\ UNCHANGED <<scenario, items, held, produced, sink, todo, error, state,
                 main, ended, report, cancel>>

(* Every other stage pops its input and then checks for cancellation. (A   *)
(* cancellation between the two shows as one before the pop.) At the end   *)
(* of its input it closes its output, or has something to flush first.     *)
Take(s) ==
  LET q == Input(s) IN
  /\ s > Traverser /\ pc[s] = "take"
  /\ \/ /\ items[q] # <<>>
        /\ items' = [items EXCEPT ![q] = Tail(@)]
        /\ IF Cancelled
           THEN Throw(s, "cancelled") /\ UNCHANGED held
           ELSE /\ held' = [held EXCEPT ![s] = Head(items[q])]
                /\ pc' = [pc EXCEPT ![s] = IF s \in AllRelays THEN "acquire" ELSE "hold"]
                /\ UNCHANGED <<error, todo>>
        /\ UNCHANGED <<status, result>>
     \/ /\ items[q] = <<>> /\ status[q] = "Closed"
        /\ IF s \in Coroutines THEN EndStage(s)
           ELSE pc' = [pc EXCEPT ![s] = "flush"] /\ UNCHANGED <<status, result>>
        /\ UNCHANGED <<items, held, error, todo>>
     \/ /\ items[q] = <<>> /\ status[q] = "Abandoned"
        /\ Throw(s, "cancelled")
        /\ UNCHANGED <<status, items, held, result>>
  /\ UNCHANGED <<scenario, produced, sink, state, main, ended, report, cancel>>

(* open_slots_.acquire, byte_budget_.acquire: wait for a permit, or for    *)
(* the cancellation of the semaphore.                                      *)
Acquire(s) ==
  /\ s \in AllRelays /\ pc[s] = "acquire"
  /\ \/ /\ ~SemaphoreCancelled(s) /\ InUse(s) < scenario.permits
        /\ pc' = [pc EXCEPT ![s] = "hold"]
        /\ UNCHANGED <<error, todo>>
     \/ SemaphoreCancelled(s) /\ Throw(s, "cancelled")
  /\ UNCHANGED <<scenario, status, items, held, produced, sink, result, state,
                 main, ended, report, cancel>>

(* The work itself fails: an unreadable file, a full disk, a lost peer.    *)
(* The last call of the compressor and of the sink may fail as the others. *)
OwnFailure(s) ==
  /\ s \in scenario.fail
  /\ pc[s] \in (IF s \in {Compressor, Writer} THEN {"hold", "flush"} ELSE {"hold"})
  /\ Throw(s, "own")
  /\ UNCHANGED <<scenario, status, items, held, produced, sink, result, state,
                 main, ended, report, cancel>>

Room_Fault(q) == Len(items[q]) <= Capacity
Room(q) == Len(items[q]) < Capacity

PushTo(q, item, s, then) ==
  \/ /\ status[q] = "Open" /\ Room(q)
     /\ items' = [items EXCEPT ![q] = Append(@, item)]
     /\ pc' = [pc EXCEPT ![s] = then]
     /\ UNCHANGED <<error, todo>>
  \/ /\ status[q] # "Open"
     /\ Throw(s, IF status[q] = "Closed" THEN "closed" ELSE "cancelled")
     /\ UNCHANGED items

(* The stage pushes the item; with the queue full it waits here.           *)
Push(s) ==
  /\ s < Writer /\ pc[s] = "hold"
  /\ PushTo(s, held[s], s, "take")
  /\ UNCHANGED <<scenario, status, held, produced, sink, result, state, main,
                 ended, report, cancel>>

(* At the end of its input the packer, or the compressor, still writes the *)
(* end of its own format.                                                  *)
Flush(s) ==
  /\ s \in {Packer, Compressor} /\ pc[s] = "flush"
  /\ IF Cancelled
     THEN Throw(s, "cancelled") /\ UNCHANGED items
     ELSE PushTo(s, IF s = Packer THEN TarEnd ELSE ZstdEnd, s, "close")
  /\ UNCHANGED <<scenario, status, held, produced, sink, result, state, main,
                 ended, report, cancel>>

CloseOutput(s) ==
  /\ s < Writer /\ pc[s] = "close"
  /\ EndStage(s)
  /\ UNCHANGED <<scenario, items, held, produced, sink, todo, error, state,
                 main, ended, report, cancel>>

(* The writer: sink.write for an item, sink.close at the end.              *)
Write ==
  /\ pc[Writer] = "hold"
  /\ IF SinkCancelled
     THEN Throw(Writer, "cancelled") /\ UNCHANGED sink
     ELSE /\ sink' = Append(sink, held[Writer])
          /\ pc' = [pc EXCEPT ![Writer] = "take"]
          /\ UNCHANGED <<error, todo>>
  /\ UNCHANGED <<scenario, status, items, held, produced, result, state, main,
                 ended, report, cancel>>

WriteEnd ==
  /\ pc[Writer] = "flush"
  /\ IF SinkCancelled
     THEN Throw(Writer, "cancelled") /\ UNCHANGED result
     ELSE /\ pc' = [pc EXCEPT ![Writer] = "done"]
          /\ result' = [result EXCEPT ![Writer] = "ok"]
          /\ UNCHANGED <<error, todo>>
  /\ UNCHANGED <<scenario, status, items, held, produced, sink, state, main,
                 ended, report, cancel>>

(* One step of the error handling; after the last one the stage is over.   *)
Handle(s) ==
  /\ pc[s] = "handling" /\ todo[s] # <<>>
  /\ todo' = [todo EXCEPT ![s] = Tail(@)]
  /\ IF Head(todo[s]) = Fail
     THEN StateFail(error[s]) /\ UNCHANGED status
     ELSE Close(Head(todo[s])) /\ UNCHANGED state
  /\ IF Len(todo[s]) = 1
     THEN /\ pc' = [pc EXCEPT ![s] = "done"]
          /\ result' = [result EXCEPT ![s] = error[s]]
     ELSE UNCHANGED <<pc, result>>
  /\ UNCHANGED <<scenario, items, held, produced, sink, error, main, ended,
                 report, cancel>>

StageStep(s) ==
  \/ s = Traverser /\ (Traverse \/ TraverseEnd)
  \/ s = Writer /\ (Write \/ WriteEnd)
  \/ Take(s) \/ Acquire(s) \/ Push(s) \/ Flush(s) \/ CloseOutput(s) \/ Handle(s)

(***************************************************************************)
(* The main thread.                                                        *)
(***************************************************************************)

(* What is known of a future before get() returns.                         *)
Awaited(s) == result[s]

(* traverse_future.get(), open_future.get(), prefetch_future.get(): the    *)
(* first exception ends the waiting, is recorded, and closes every queue.  *)
AwaitFuture ==
  /\ main \in Coroutines /\ todo[Main] = <<>> /\ Awaited(main) # "none"
  /\ IF Awaited(main) = "ok"
     THEN main' = main + 1 /\ UNCHANGED <<state, todo>>
     ELSE /\ StateFail(Awaited(main))
          /\ todo' = [todo EXCEPT ![Main] = CloseAll]
          /\ main' = Packer
  /\ UNCHANGED <<scenario, status, items, pc, held, produced, sink, error,
                 result, ended, report, cancel>>

GuardCloses ==
  /\ todo[Main] # <<>>
  /\ Close(Head(todo[Main]))
  /\ todo' = [todo EXCEPT ![Main] = Tail(@)]
  /\ UNCHANGED <<scenario, items, pc, held, produced, sink, error, result,
                 state, main, ended, report, cancel>>

(* join_and_capture of the three threads, in this order.                   *)
Join ==
  /\ main \in Packer .. Writer /\ todo[Main] = <<>> /\ pc[main] = "done"
  /\ main' = main + 1
  /\ UNCHANGED <<scenario, status, items, pc, held, produced, sink, todo,
                 error, result, state, ended, report, cancel>>

(* rethrow_if_failed, or else the transport end event; sending that may    *)
(* fail as any write may.                                                  *)
Verdict(e) == IF Cancelled \/ e = "cancelled" THEN "cancelled" ELSE "failed"

Conclude ==
  /\ ToSocket /\ main = Main
  /\ \/ /\ state # "none"
        /\ report' = Verdict(state)
        /\ main' = Over
        /\ UNCHANGED ended
     \/ /\ state = "none" /\ ~SinkCancelled
        /\ ended' = TRUE
        /\ main' = Main + 1
        /\ UNCHANGED report
     \/ /\ state = "none" /\ (SinkCancelled \/ Writer \in scenario.fail)
        /\ report' = Verdict(IF SinkCancelled THEN "cancelled" ELSE "own")
        /\ main' = Over
        /\ UNCHANGED ended
  /\ UNCHANGED <<scenario, status, items, pc, held, produced, sink, todo,
                 error, result, state, cancel>>

(* pack_directory_to_file rethrows what the state holds, and throws a      *)
(* CancelledError if it holds nothing but the transfer was cancelled.      *)
CancelSeen_Fault == FALSE
CancelSeen == Cancelled

ConcludeFile ==
  /\ ToFile /\ main = Main
  /\ report' = CASE state # "none" -> "failed"
                 [] state = "none" /\ CancelSeen -> "cancelled"
                 [] OTHER -> "completed"
  /\ main' = Over
  /\ UNCHANGED <<scenario, status, items, pc, held, produced, sink, todo,
                 error, result, state, ended, cancel>>

(* check_connection may find the connection lost after the end event;      *)
(* send_paths_to_socket then checks for cancellation once more,            *)
(* listen_directory_task does not.                                         *)
Report ==
  /\ main = Main + 1
  /\ main' = Over
  /\ \/ report' = "completed"
     \/ Cancelled /\ report' = "cancelled"
     \/ Writer \in scenario.fail /\ report' = Verdict("own")
  /\ UNCHANGED <<scenario, status, items, pc, held, produced, sink, todo,
                 error, result, state, ended, cancel>>

MainStep == AwaitFuture \/ GuardCloses \/ Join \/ Conclude \/ ConcludeFile \/ Report

(***************************************************************************)
(* Cancellation: the flag, and then the slots one by one.                  *)
(***************************************************************************)
Cancel ==
  /\ scenario.cancel /\ cancel = 0 /\ main < Over
  /\ cancel' = 1
  /\ UNCHANGED <<scenario, status, items, pc, held, produced, sink, todo,
                 error, result, state, main, ended, report>>

CancelSlot ==
  /\ cancel \in 1 .. LastSlot
  /\ cancel' = cancel + 1
  /\ \/ \E q \in Queues :
          /\ cancel = QueueSlot(q)
          /\ status' = [status EXCEPT ![q] = "Abandoned"]
          /\ items' = [items EXCEPT ![q] = <<>>]
     \/ /\ \A q \in Queues : cancel # QueueSlot(q)
        /\ UNCHANGED <<status, items>>
  /\ UNCHANGED <<scenario, pc, held, produced, sink, todo, error, result,
                 state, main, ended, report>>

AllOver == main = Over /\ \A s \in Stages : pc[s] = "done"

Finished == AllOver /\ UNCHANGED vars

Next ==
  \/ \E s \in Stages : StageStep(s) \/ OwnFailure(s)
  \/ MainStep
  \/ Cancel
  \/ CancelSlot
  \/ Finished

Spec == Init /\ [][Next]_vars

(* Threads and coroutines run, and emit() runs all its slots. No stage has *)
(* to fail and nobody has to cancel.                                       *)
Fairness ==
  /\ \A s \in Stages : WF_vars(StageStep(s))
  /\ WF_vars(MainStep) /\ WF_vars(CancelSlot)

FairSpec == Spec /\ Fairness

(***************************************************************************)
(* Properties.                                                             *)
(***************************************************************************)
Errors == {"none", "own", "closed", "cancelled"}

(* Every variable has its type, and no queue exceeds its capacity.         *)
TypeOK ==
  /\ scenario \in Scenarios
  /\ status \in [Queues -> {"Open", "Closed", "Abandoned"}]
  /\ items \in [Queues -> Seq(1 .. Files + 2)]
  /\ \A q \in Queues : Len(items[q]) <= Capacity
  /\ pc \in [Stages -> {"take", "acquire", "hold", "flush", "close", "handling", "done"}]
  /\ held \in [Stages -> 0 .. Files + 2]
  /\ produced \in 0 .. Files
  /\ sink \in Seq(1 .. Files + 2)
  /\ todo \in [Actors -> Seq(Queues \cup {Fail})]
  /\ error \in [Stages -> Errors]
  /\ result \in [Stages -> Errors \cup {"ok"}]
  /\ state \in Errors
  /\ main \in 1 .. Over
  /\ ended \in BOOLEAN
  /\ report \in {"none", "completed", "cancelled", "failed"}
  /\ cancel \in 0 .. LastSlot + 1

(* The receiver is told that the transport is complete, and the archive is *)
(* called packed, only when all of it went out, in order, and every stage  *)
(* returned normally: a stage that fails, or is cancelled, makes the ones  *)
(* behind it end normally on a shortened stream, which must never pass for *)
(* success.                                                                *)
NoSilentTruncation ==
  ended \/ (ToFile /\ report = "completed")
    => sink = Whole /\ \A s \in Stages : result[s] = "ok"

(* The error that is kept, and reported, is the failure or the cancellation*)
(* that started it all, and never the "queue closed" of a stage that       *)
(* stumbled over the queues others closed. (pack_directory_to_file, when   *)
(* cancelled, may keep just that: it records no cancellation.)             *)
RootCauseIsKept == ToSocket \/ ~scenario.cancel => state # "closed"

(* A stage that failed does not leave the others waiting: in the end no    *)
(* queue is open any more.                                                 *)
NoQueueLeftOpen ==
  (\E s \in Stages : pc[s] = "handling") ~> (\A q \in Queues : status[q] # "Open")

(* The transfer always ends, and so does every stage, whoever fails or     *)
(* cancels.                                                                *)
TransferEnds == <>AllOver

=============================================================================
