--------------------------- MODULE FileComparison ---------------------------
(***************************************************************************)
(* The sending of files that differ (enable_file_comparison): between the  *)
(* traverser and the opener, stream_file_comparison_to_opener asks the     *)
(* receiver which files it lacks.                                          *)
(*                                                                         *)
(*   traverser -> traversal -> producer -> pending -> main thread          *)
(*     -> filtered -> opener and all behind it ("rest")                    *)
(*                                                                         *)
(* The producer collects entries into batches. The main thread sends the   *)
(* infos of a batch over the control channel, waits for the answer, and    *)
(* forwards the directories and the files that differ, under sequence      *)
(* numbers of its own, because the opener emits by number and waits for a  *)
(* number that is missing. The receiver answers while it reads data.       *)
(*                                                                         *)
(* The rest of the pipeline is one actor: it takes, emits in order of the  *)
(* numbers, and ends, or fails as the packer or the writer fail, whose     *)
(* guard closes the queues (SendPipeline has the stages one by one). The   *)
(* two connections of a request with the data around it are in SocketSink. *)
(***************************************************************************)
EXTENDS Naturals, Sequences, FiniteSets, SequencesExt

CONSTANTS Entries,      (* bound: entries of the traversal                 *)
          InfoLimit,    (* kFileInfoBatchSize                              *)
          EntryLimit,   (* kTraversalBatchSize                             *)
          Capacity,     (* capacity of each queue                          *)
          Scenarios     (* what each entry is, and what may go wrong       *)

Entry == 1 .. Entries
Kinds == {"directory", "same", "missing", "otherType", "otherSize", "otherTime"}
Queues == {"traversal", "pending", "filtered"}

ASSUME ComparisonAssumption ==
  /\ Entries \in Nat
  /\ InfoLimit \in Nat \ {0} /\ EntryLimit \in Nat \ {0} /\ Capacity \in Nat \ {0}
  /\ Scenarios \subseteq [kind : [Entry -> Kinds],
                          fail : SUBSET {"traverser", "producer", "rest", "link"},
                          cancel : BOOLEAN]

VARIABLES
  scenario,     (* fixed                                                   *)
  queue,        (* the three queues: items and status                      *)
  traverser,    (* "running", or how it ended                              *)
  found,        (* entries found                                           *)
  producer,     (* where the producer thread is, or how it ended           *)
  batch,        (* the batch the producer collects                         *)
  main,         (* where the main thread is                                *)
  current,      (* entries of its batch the main thread has yet to handle  *)
  differing,    (* diff_paths: those the receiver asked for                *)
  sequence,     (* next_filtered_sequence                                  *)
  error,        (* consumer_error                                          *)
  todo,         (* what is left of its handling                            *)
  requests,     (* control messages on their way to the receiver ...       *)
  answers,      (* ... and back                                            *)
  receiver,     (* "reading", "completed", "failed"                        *)
  link,         (* the connection: "up", "down"                            *)
  rest,         (* "running", "guard", "done"                              *)
  arrived,      (* entries the opener has and may not emit yet             *)
  packed,       (* entries it has emitted                                  *)
  state,        (* PipelineState::error_                                   *)
  report,       (* what the sender reports                                 *)
  cancel        (* 0, or 1 plus the slots that have run                    *)

senderVars == <<traverser, found, producer, batch, main, current, differing, sequence, error, todo,
                report>>
linkVars == <<requests, answers, receiver, link>>
restVars == <<rest, arrived, packed, state>>
vars == <<scenario, queue, senderVars, linkVars, restVars, cancel>>

Init ==
  /\ scenario \in Scenarios
  /\ queue = [q \in Queues |-> [items |-> <<>>, status |-> "Open"]]
  /\ traverser = "running" /\ found = 0
  /\ producer = "pop" /\ batch = <<>>
  /\ main = "pop" /\ current = <<>> /\ differing = {} /\ sequence = 0
  /\ error = "none" /\ todo = <<>>
  /\ requests = <<>> /\ answers = <<>> /\ receiver = "reading" /\ link = "up"
  /\ rest = "running" /\ arrived = {} /\ packed = <<>> /\ state = "none"
  /\ report = "none" /\ cancel = 0

Regular(e) == scenario.kind[e] # "directory"

(* file_differs_from_local: a file is left out only if the receiver has a  *)
(* regular file of the same size and, to the second, the same time.        *)
Differs(e) == scenario.kind[e] \in {"missing", "otherType", "otherSize", "otherTime"}

Cancelled == cancel > 0
SinkCancelled == cancel > 1

(* The slots in the order they were connected.                             *)
Slots == <<"sink", "traversal", "filtered", "rest", "pending">>

(***************************************************************************)
(* Queues, used as BoundedQueue promises.                                  *)
(***************************************************************************)
Items(q) == queue[q].items
Open(q) == queue[q].status = "Open"
Room(q) == Open(q) /\ Len(Items(q)) < Capacity
AtEnd(q) == Items(q) = <<>> /\ ~Open(q)

(* What a push finds, or a pop that got nothing, when the queue has ended. *)
Ended(q) == IF queue[q].status = "Closed" THEN "closed" ELSE "cancelled"

Pushed(q, item) == [queue EXCEPT ![q].items = Append(@, item)]
Popped(q) == [queue EXCEPT ![q].items = Tail(@)]
Closed(q) == [queue EXCEPT ![q].status = IF @ = "Open" THEN "Closed" ELSE @]
Abandoned(q) == [queue EXCEPT ![q] = [items |-> <<>>, status |-> "Abandoned"]]

(* Definitions named ..._Fault are seeded faults: what the definition that *)
(* follows would be if the code had a plausible bug. Nothing uses them.    *)

(***************************************************************************)
(* The traverser.                                                          *)
(***************************************************************************)
TraverserEnds(how) == traverser' = how /\ queue' = Closed("traversal") /\ UNCHANGED found

Traverse ==
  /\ traverser = "running"
  /\ \/ Cancelled /\ TraverserEnds("cancelled")
     \/ (* Before it has begun it leaves its queue to the cancel slot.      *)
        Cancelled /\ found = 0 /\ traverser' = "cancelled" /\ UNCHANGED <<queue, found>>
     \/ "traverser" \in scenario.fail /\ TraverserEnds("own")
     \/ ~Cancelled /\ found = Entries /\ TraverserEnds("ok")
     \/ /\ found < Entries /\ Room("traversal") /\ ~Cancelled
        /\ found' = found + 1
        /\ queue' = Pushed("traversal", found')
        /\ UNCHANGED traverser
     \/ found < Entries /\ ~Open("traversal") /\ TraverserEnds(Ended("traversal"))
  /\ UNCHANGED <<scenario, producer, batch, main, current, differing, sequence, error, todo, report,
                 linkVars, restVars, cancel>>

(***************************************************************************)
(* produce_comparison_batches, on a thread of its own.                     *)
(***************************************************************************)
(* The infos of a batch: what is asked is about a set of files.            *)
Infos(entries) == {e \in ToSet(entries) : Regular(e)}

BatchFull_Fault(entries) == Len(entries) > EntryLimit
BatchFull(entries) == Cardinality(Infos(entries)) >= InfoLimit \/ Len(entries) >= EntryLimit

(* The end of the producer, after an error or without: pending is closed,  *)
(* and whatever is in front of it is left as it is.                        *)
ProducerEnds(how) == producer' = how /\ queue' = Closed("pending") /\ UNCHANGED batch

ProducerPop ==
  /\ producer = "pop" /\ Items("traversal") # <<>>
  /\ LET e == Head(Items("traversal"))
         grown == Append(batch, e)
     IN  IF Cancelled
         THEN /\ producer' = "cancelled"
              /\ queue' = [Popped("traversal") EXCEPT !["pending"] = Closed("pending")["pending"]]
              /\ UNCHANGED batch
         ELSE \/ /\ batch' = grown
                 /\ producer' = IF BatchFull(grown) THEN "push" ELSE "pop"
                 /\ queue' = Popped("traversal")
              \/ (* populate_file_metadata fails.                          *)
                 /\ "producer" \in scenario.fail /\ Regular(e)
                 /\ producer' = "own"
                 /\ queue' = [Popped("traversal") EXCEPT !["pending"] = Closed("pending")["pending"]]
                 /\ UNCHANGED batch
  /\ UNCHANGED <<scenario, traverser, found, main, current, differing, sequence, error, todo, report,
                 linkVars, restVars, cancel>>

LastBatch_Fault == Len(batch) > 1
LastBatch == batch # <<>>

ProducerAtEnd ==
  /\ producer = "pop" /\ AtEnd("traversal")
  /\ IF Ended("traversal") = "cancelled" THEN ProducerEnds("cancelled")
     ELSE IF LastBatch THEN producer' = "pushLast" /\ UNCHANGED <<batch, queue>>
     ELSE ProducerEnds("ok")
  /\ UNCHANGED <<scenario, traverser, found, main, current, differing, sequence, error, todo, report,
                 linkVars, restVars, cancel>>

ProducerPush ==
  /\ producer \in {"push", "pushLast"}
  /\ \/ /\ Room("pending")
        /\ queue' = Pushed("pending", batch)
        /\ batch' = <<>>
        /\ producer' = IF producer = "push" THEN "pop" ELSE "close"
     \/ ~Open("pending") /\ ProducerEnds(Ended("pending"))
  /\ UNCHANGED <<scenario, traverser, found, main, current, differing, sequence, error, todo, report,
                 linkVars, restVars, cancel>>

ProducerClose ==
  /\ producer = "close" /\ ProducerEnds("ok")
  /\ UNCHANGED <<scenario, traverser, found, main, current, differing, sequence, error, todo, report,
                 linkVars, restVars, cancel>>

ProducerStep == ProducerPop \/ ProducerAtEnd \/ ProducerPush \/ ProducerClose
ProducerDone == producer \in {"ok", "own", "closed", "cancelled"}

(***************************************************************************)
(* send_batches_and_forward_diffs, on the main thread.                     *)
(***************************************************************************)
(* The two catch blocks on its way: what they do to which queue.           *)
Handling == << [queue |-> "filtered", how |-> "close"], [queue |-> "traversal", how |-> "abandon"],
               [queue |-> "pending", how |-> "abandon"], [queue |-> "filtered", how |-> "close"] >>

Throw(e) == main' = "handling" /\ error' = e /\ todo' = Handling

MainPop ==
  /\ main = "pop"
  /\ \/ /\ Items("pending") # <<>>
        /\ queue' = Popped("pending")
        /\ IF Cancelled
           THEN Throw("cancelled") /\ UNCHANGED <<current, differing>>
           ELSE /\ current' = Head(Items("pending"))
                /\ differing' = {}
                /\ main' = IF Infos(current') = {} THEN "forward" ELSE "ask"
                /\ UNCHANGED <<error, todo>>
     \/ /\ AtEnd("pending")
        /\ IF Ended("pending") = "cancelled" THEN Throw("cancelled")
           ELSE main' = "finish" /\ UNCHANGED <<error, todo>>
        /\ UNCHANGED <<queue, current, differing>>
  /\ UNCHANGED <<scenario, traverser, found, producer, batch, sequence, report, linkVars, restVars,
                 cancel>>

SocketError == IF SinkCancelled THEN "cancelled" ELSE "lost"
SocketDown == SinkCancelled \/ link = "down"

Message(type, infos) == [type |-> type, infos |-> infos]

(* send_control_message and flush_control_buffer.                          *)
SendMessage(message, then) ==
  \/ /\ ~SocketDown
     /\ requests' = Append(requests, message)
     /\ main' = then
     /\ UNCHANGED <<error, todo>>
  \/ SocketDown /\ Throw(SocketError) /\ UNCHANGED requests

Ask ==
  /\ main = "ask" /\ SendMessage(Message("infos", Infos(current)), "await")
  /\ UNCHANGED <<scenario, queue, traverser, found, producer, batch, current, differing, sequence,
                 report, answers, receiver, link, restVars, cancel>>

(* await_control_response.                                                 *)
Await ==
  /\ main = "await"
  /\ \/ /\ answers # <<>> /\ ~SinkCancelled
        /\ answers' = Tail(answers)
        /\ differing' = Head(answers)
        /\ main' = "forward"
        /\ UNCHANGED <<error, todo>>
     \/ SocketDown /\ Throw(SocketError) /\ UNCHANGED <<answers, differing>>
  /\ UNCHANGED <<scenario, queue, traverser, found, producer, batch, current, sequence, report,
                 requests, receiver, link, restVars, cancel>>

Renumbered_Fault(e) == [entry |-> e, sequence |-> e - 1]
Renumbered(e) == [entry |-> e, sequence |-> sequence]

(* Directories are forwarded unasked; what the receiver has is passed over.*)
Chosen(e) == ~Regular(e) \/ e \in differing

Forward ==
  /\ main = "forward"
  /\ \/ /\ current = <<>>
        /\ main' = "pop"
        /\ UNCHANGED <<queue, current, sequence, error, todo>>
     \/ /\ current # <<>> /\ ~Chosen(Head(current))
        /\ current' = Tail(current)
        /\ UNCHANGED <<queue, main, sequence, error, todo>>
     \/ /\ current # <<>> /\ Chosen(Head(current)) /\ Room("filtered")
        /\ queue' = Pushed("filtered", Renumbered(Head(current)))
        /\ sequence' = sequence + 1
        /\ current' = Tail(current)
        /\ UNCHANGED <<main, error, todo>>
     \/ /\ current # <<>> /\ Chosen(Head(current)) /\ ~Open("filtered")
        /\ Throw(Ended("filtered"))
        /\ UNCHANGED <<queue, current, sequence>>
  /\ UNCHANGED <<scenario, traverser, found, producer, batch, differing, report, linkVars, restVars,
                 cancel>>

(* The end message, and the end of the filtered queue.                     *)
Finish ==
  /\ main = "finish" /\ SendMessage(Message("infoEnd", {}), "join")
  /\ queue' = IF main' = "join" THEN Closed("filtered") ELSE queue
  /\ UNCHANGED <<scenario, traverser, found, producer, batch, current, differing, sequence, report,
                 answers, receiver, link, restVars, cancel>>

Handle ==
  /\ main = "handling"
  /\ queue' = IF Head(todo).how = "close" THEN Closed(Head(todo).queue)
              ELSE Abandoned(Head(todo).queue)
  /\ todo' = Tail(todo)
  /\ main' = IF Len(todo) = 1 THEN "join" ELSE main
  /\ UNCHANGED <<scenario, traverser, found, producer, batch, current, differing, sequence, error, report,
                 linkVars, restVars, cancel>>

(***************************************************************************)
(* The rest of the main thread.                                            *)
(***************************************************************************)
Verdict(e) == IF Cancelled \/ e = "cancelled" THEN "cancelled" ELSE "failed"

(* producer.join() and the two rethrows.                                   *)
JoinProducer ==
  /\ main = "join" /\ ProducerDone
  /\ IF error = "none" /\ producer = "ok"
     THEN main' = "future" /\ UNCHANGED error
     ELSE main' = "unwind" /\ error' = IF error = "none" THEN producer ELSE error
  /\ UNCHANGED <<scenario, queue, traverser, found, producer, batch, current, differing, sequence, todo,
                 report, linkVars, restVars, cancel>>

(* traverse_future.get(), outside the try block as well.                   *)
AwaitTraverser ==
  /\ main = "future" /\ traverser # "running"
  /\ IF traverser = "ok"
     THEN main' = "rest" /\ UNCHANGED error
     ELSE main' = "unwind" /\ error' = traverser
  /\ UNCHANGED <<scenario, queue, traverser, found, producer, batch, current, differing, sequence, todo,
                 report, linkVars, restVars, cancel>>

(* Leaving on an exception joins the threads; a traverser that is parked   *)
(* goes with its queue.                                                    *)
Unwind ==
  /\ main = "unwind" /\ rest = "done"
  /\ main' = "over"
  /\ report' = Verdict(error)
  /\ UNCHANGED <<scenario, queue, traverser, found, producer, batch, current, differing, sequence, error,
                 todo, linkVars, restVars, cancel>>

(* The futures, the threads, rethrow_if_failed, send_transport_end, and    *)
(* check_connection, which may find the connection lost all the same.      *)
Conclude ==
  /\ main = "rest" /\ rest = "done"
  /\ main' = "over"
  /\ \/ state # "none" /\ report' = Verdict(state) /\ UNCHANGED requests
     \/ state = "none" /\ SocketDown /\ report' = Verdict(SocketError) /\ UNCHANGED requests
     \/ /\ state = "none" /\ ~SocketDown
        /\ requests' = Append(requests, Message("transportEnd", {}))
        /\ \/ report' = "completed"
           \/ Cancelled /\ report' = "cancelled"
           \/ "link" \in scenario.fail /\ report' = Verdict("lost")
  /\ UNCHANGED <<scenario, queue, traverser, found, producer, batch, current, differing, sequence, error,
                 todo, answers, receiver, link, restVars, cancel>>

MainStep ==
  \/ MainPop \/ Ask \/ Await \/ Forward \/ Finish \/ Handle
  \/ JoinProducer \/ AwaitTraverser \/ Unwind \/ Conclude

(***************************************************************************)
(* The opener and everything behind it.                                    *)
(***************************************************************************)
RestFails(e) == rest' = "guard" /\ state' = IF state = "none" THEN e ELSE state

RestTake ==
  /\ rest = "running" /\ ~Cancelled /\ Items("filtered") # <<>>
  /\ arrived' = arrived \cup {Head(Items("filtered"))}
  /\ queue' = Popped("filtered")
  /\ UNCHANGED <<scenario, senderVars, linkVars, rest, packed, state, cancel>>

Emit ==
  /\ rest = "running"
  /\ \E f \in arrived :
       /\ f.sequence = Len(packed)
       /\ arrived' = arrived \ {f}
       /\ packed' = Append(packed, f.entry)
  /\ UNCHANGED <<scenario, queue, senderVars, linkVars, rest, state, cancel>>

(* The end of the input: with entries left that it cannot emit the opener  *)
(* waits for the number it lacks.                                          *)
RestEnds ==
  /\ rest = "running" /\ ~Cancelled /\ AtEnd("filtered") /\ Ended("filtered") = "closed"
  /\ arrived = {}
  /\ rest' = "done"
  /\ UNCHANGED <<scenario, queue, senderVars, linkVars, arrived, packed, state, cancel>>

(* A failure of the packer or the compressor, a lost connection the writer *)
(* runs into, a cancellation any of the stages sees.                       *)
RestFailure ==
  /\ rest = "running"
  /\ \/ "rest" \in scenario.fail /\ RestFails("own")
     \/ link = "down" /\ RestFails("lost")
     \/ Cancelled /\ RestFails("cancelled")
  /\ UNCHANGED <<scenario, queue, senderVars, linkVars, arrived, packed, cancel>>

(* PipelineGuard, in the order its queues are watched.                     *)
GuardCloses ==
  /\ rest = "guard"
  /\ IF Open("traversal") THEN queue' = Closed("traversal") /\ UNCHANGED rest
     ELSE queue' = Closed("filtered") /\ rest' = "done"
  /\ UNCHANGED <<scenario, senderVars, linkVars, arrived, packed, state, cancel>>

RestStep == RestTake \/ Emit \/ RestEnds \/ (Cancelled /\ RestFailure) \/ GuardCloses

(***************************************************************************)
(* The receiver.                                                           *)
(***************************************************************************)
(* compare_file_info_batch: the answer to a batch.                         *)
Answer(infos) == {e \in infos : Differs(e)}

(* handle_file_comparison_control_message sends it; the end of the infos   *)
(* asks for nothing.                                                       *)
Asked(message) == answers' = IF message.type = "infos"
                             THEN Append(answers, Answer(message.infos)) ELSE answers

(* read() calls it for every control message between the data.             *)
Receive ==
  /\ receiver = "reading" /\ requests # <<>> /\ link = "up"
  /\ requests' = Tail(requests)
  /\ \/ /\ Head(requests).type = "transportEnd"
        /\ receiver' = "completed"
        /\ UNCHANGED answers
     \/ /\ Head(requests).type # "transportEnd"
        /\ Asked(Head(requests))
        /\ UNCHANGED receiver
  /\ UNCHANGED <<scenario, queue, senderVars, link, restVars, cancel>>

(* Its connection fails, or ends before the end of the transport.          *)
ReceiverFails ==
  /\ receiver = "reading"
  /\ link = "down" \/ (requests = <<>> /\ main = "over")
  /\ receiver' = "failed"
  /\ UNCHANGED <<scenario, queue, senderVars, requests, answers, link, restVars, cancel>>

(* The connection is lost, or the receiver gives up: a full disk, a user.  *)
Lose ==
  /\ "link" \in scenario.fail /\ link = "up" /\ main # "over"
  /\ link' = "down"
  /\ UNCHANGED <<scenario, queue, senderVars, requests, answers, receiver, restVars, cancel>>

(***************************************************************************)
(* Cancellation on the sender's side.                                      *)
(***************************************************************************)
Cancel ==
  /\ scenario.cancel /\ cancel = 0 /\ main # "over"
  /\ cancel' = 1
  /\ UNCHANGED <<scenario, queue, senderVars, linkVars, restVars>>

CancelSlot ==
  /\ cancel \in 1 .. Len(Slots)
  /\ cancel' = cancel + 1
  /\ queue' = IF Slots[cancel] \in Queues THEN Abandoned(Slots[cancel]) ELSE queue
  /\ link' = IF Slots[cancel] = "sink" THEN "down" ELSE link
  /\ UNCHANGED <<scenario, senderVars, requests, answers, receiver, restVars>>

AllOver == main = "over" /\ receiver # "reading"
Finished == AllOver /\ UNCHANGED vars

Next ==
  \/ Traverse \/ ProducerStep \/ MainStep
  \/ RestStep \/ RestFailure
  \/ Receive \/ ReceiverFails \/ Lose
  \/ Cancel \/ CancelSlot
  \/ Finished

(* Threads and coroutines run, the receiver reads what arrives, emit()     *)
(* runs all its slots. Nothing has to fail and nobody has to cancel.       *)
Fairness ==
  /\ WF_vars(Traverse) /\ WF_vars(ProducerStep) /\ WF_vars(MainStep) /\ WF_vars(RestStep)
  /\ WF_vars(Receive) /\ WF_vars(ReceiverFails) /\ WF_vars(CancelSlot)

Spec == Init /\ [][Next]_vars
FairSpec == Spec /\ Fairness

(***************************************************************************)
(* Properties.                                                             *)
(***************************************************************************)
Errors == {"own", "closed", "cancelled", "lost"}

(* Every variable has its type; no queue exceeds its capacity and no batch *)
(* its limits; and an answer is there only for a question that is waiting. *)
TypeOK ==
  /\ scenario \in Scenarios
  /\ \A q \in Queues : /\ queue[q].status \in {"Open", "Closed", "Abandoned"}
                       /\ Len(Items(q)) <= Capacity
  /\ \A b \in {batch, current} \cup ToSet(Items("pending")) :
       /\ b \in Seq(Entry)
       /\ Len(b) <= EntryLimit /\ Cardinality(Infos(b)) <= InfoLimit
  /\ ToSet(Items("traversal")) \subseteq Entry
  /\ ToSet(Items("filtered")) \cup arrived \subseteq [entry : Entry, sequence : 0 .. Entries]
  /\ traverser \in Errors \cup {"running", "ok"} /\ found \in 0 .. Entries
  /\ producer \in Errors \cup {"pop", "push", "pushLast", "close", "ok"}
  /\ main \in {"pop", "ask", "await", "forward", "finish", "handling", "join", "future",
               "unwind", "rest", "over"}
  /\ differing \subseteq Entry
  /\ sequence \in 0 .. Entries /\ error \in Errors \cup {"none"}
  /\ Len(answers) + Cardinality({i \in DOMAIN requests : requests[i].type = "infos"}) <= 1
  /\ receiver \in {"reading", "completed", "failed"} /\ link \in {"up", "down"}
  /\ rest \in {"running", "guard", "done"} /\ packed \in Seq(Entry)
  /\ state \in Errors \cup {"none"}
  /\ report \in {"none", "completed", "cancelled", "failed"}
  /\ cancel \in 0 .. Len(Slots) + 1

Wanted == {e \in Entry : ~Regular(e) \/ Differs(e)}

(* What is sent are the directories and the files the receiver lacks, in   *)
(* the order of the traversal, none passed over, and no others; and when   *)
(* the sender calls the transfer complete, or the receiver believes it is, *)
(* all of them: whoever of the traverser, the producer, the rest or the    *)
(* receiver failed on the way.                                             *)
OnlyDifferencesAreSent ==
  /\ \A i \in DOMAIN packed :
       /\ packed[i] \in Wanted
       /\ {packed[j] : j \in 1 .. i - 1} = {e \in Wanted : e < packed[i]}
  /\ report = "completed" \/ receiver = "completed" => ToSet(packed) = Wanted

(* Both sides come to an end: nobody waits for an answer, a batch, or a    *)
(* sequence number that never comes.                                       *)
ComparisonEnds == <>AllOver

=============================================================================
