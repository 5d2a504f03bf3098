--------------------------- MODULE ReceivePipeline ---------------------------
(***************************************************************************)
(* The receiving pipeline: receive_directory_task with                     *)
(* receive_transport_from_source, and unpack_file_to_directory.            *)
(*                                                                         *)
(*   source -> ZstdDecompressor or RawTarReader -> tar_queue -> TarUnpacker*)
(*          -> BufferedFileWriter -> FileByteSink -> the disk              *)
(*                                                                         *)
(* The input thread and the unpacker thread share tar_queue; the unpacker  *)
(* and a task of the pool share the slots of the writer of one file; that  *)
(* task keeps several overlapped writes of FileByteSink in flight, and the *)
(* system completes them in any order.                                     *)
(*                                                                         *)
(* A file is a number of chunks. An item of tar_queue is a header, a chunk *)
(* of a file, the mark that ends the archive, or padding behind it. What   *)
(* libarchive does is external and taken from how the unpacker uses it: at *)
(* the end of its input it reports the end of the archive between two      *)
(* files, and an error inside one; after the mark it reads no more.        *)
(***************************************************************************)
EXTENDS Naturals, Sequences, FiniteSets, SequencesExt

CONSTANTS Sizes,       (* chunks of each entry of a transport              *)
          Directories, (* the entries that are directories                 *)
          Padding,     (* items behind the mark                            *)
          Capacity,    (* capacity of tar_queue                            *)
          BatchSize,   (* chunks in a buffer of FileByteSink               *)
          MaxOps,      (* max_in_flight_write_ops                          *)
          Transports,  (* bound: transports over one connection            *)
          Scenarios    (* the source, whether the connection is kept, what *)
                       (* may fail, whether somebody may cancel, and the   *)
                       (* size and the number of the writer's slots        *)

(* Padding that does not fit in the queue would stop the input thread for  *)
(* ever. Archives of TarPacker have less than two items of it.             *)
ASSUME ReceiveAssumption ==
  /\ Sizes \in Seq(Nat)
  /\ Directories \subseteq DOMAIN Sizes /\ \A d \in Directories : Sizes[d] = 0
  /\ Padding \in Nat /\ Capacity \in Nat \ {0} /\ Padding <= Capacity
  /\ BatchSize \in Nat \ {0}
  /\ MaxOps \in Nat \ {0}
  /\ Transports \in Nat \ {0}
  /\ Scenarios \subseteq
       [source : {"socket", "zstd", "raw"}, keep : BOOLEAN, cancel : BOOLEAN,
        fail : SUBSET {"source", "stall", "disk"}, slot : Nat \ {0}, slots : Nat \ {0}]
  /\ \A s \in Scenarios : s.keep => s.source = "socket"

Files == DOMAIN Sizes
Chunks(f) == 1 .. Sizes[f]
Slots == 0 .. MaxOps

Mark == <<0, 0>>
Entry(f) == [i \in 1 .. Sizes[f] + 1 |-> <<f, i - 1>>]
Stream ==
  FlattenSeq([f \in Files |-> Entry(f)]) \o [i \in 1 .. Padding + 1 |-> <<0, i - 1>>]

(* What a file is on the disk when all of it is there, in its place.       *)
WholeFile(f) == {<<f, i, i>> : i \in Chunks(f)}

VARIABLES
  scenario,  (* fixed                                                      *)
  line,      (* the source: up, lost, stalled, or closed by cancellation   *)
  got,       (* items read from the source in this transport               *)
  queue,     (* tar_queue: its items and status                            *)
  in,        (* the input thread                                           *)
  un,        (* the unpacker thread: where, the file, its chunks so far    *)
  writer,    (* the BufferedFileWriter of the file                         *)
  drain,     (* its drain_loop on the pool                                 *)
  sink,      (* its FileByteSink                                           *)
  disk,      (* chunks of files on the disk, with their places             *)
  restored,  (* the entries that got the sender's times and permissions    *)
  main,      (* the main thread                                            *)
  received,  (* transports received completely                             *)
  state,     (* PipelineState::error_                                      *)
  report,    (* what complete_progress says, or unpack_file_to_directory   *)
  cancel     (* 0, or 1 plus the number of cancel slots that have run      *)

source == <<scenario, line, got>>
files == <<writer, drain, sink, disk, restored>>
outcome == <<main, received, state, report>>
vars == <<source, queue, in, un, files, outcome, cancel>>

Local == scenario.source # "socket"
Cancelled == cancel > 0
EmitDone == 5

NewQueue == [items |-> <<>>, status |-> "open"]
NewInput == [at |-> "check", item |-> 0, error |-> "none", todo |-> <<>>]
NewUnpacker == [at |-> "check", file |-> 0, chunk |-> 0, then |-> "none",
                error |-> "none", todo |-> <<>>]
Off(thread) == [thread EXCEPT !.at = "done"]
NewWriter ==
  [current |-> <<>>, pending |-> <<>>, closing |-> FALSE, cancelled |-> Cancelled,
   error |-> "none"]
NewSink ==
  [buffer |-> [s \in Slots |-> <<>>], place |-> [s \in Slots |-> 0],
   op |-> [s \in Slots |-> "idle"], active |-> 0, available |-> [i \in 1 .. MaxOps |-> i],
   flight |-> <<>>, size |-> 0, cancelled |-> Cancelled]
NoDrain == [at |-> "none", slot |-> <<>>, then |-> "none"]

Init ==
  /\ scenario \in Scenarios
  /\ line = "up" /\ got = 0
  /\ queue = NewQueue
  /\ in = Off(NewInput) /\ un = Off(NewUnpacker)
  /\ cancel = 0
  /\ writer = NewWriter /\ sink = NewSink /\ drain = NoDrain
  /\ disk = {} /\ restored = {}
  /\ main = "await" /\ received = 0
  /\ state = "none" /\ report = "none"

(***************************************************************************)
(* Errors of the two threads. ZstdDecompressor closes the queue before the *)
(* thread's catch block records the error; the others after it.            *)
(***************************************************************************)
(* Definitions named ..._Fault are seeded faults: what the definition that *)
(* follows would be if the code had a plausible bug. Nothing uses them.    *)

InputHandling_Fault == IF scenario.source = "raw" THEN <<"fail">> ELSE <<"close">>
InputHandling == IF scenario.source = "raw" THEN <<"fail", "close">> ELSE <<"close", "fail">>

Throw(thread, e, todo) == [thread EXCEPT !.at = "handling", !.error = e, !.todo = todo]
InputThrows(e) == in' = Throw(in, e, InputHandling)
UnpackerThrows(e) == un' = Throw(un, e, <<"fail", "close">>)

CloseQueue == queue' = [queue EXCEPT !.status = IF @ = "open" THEN "closed" ELSE @]

(* unpack_file_to_directory does not record a cancellation.                *)
Fail(e) ==
  state' = IF state = "none" /\ ~(Local /\ e = "cancelled") THEN e ELSE state

Handle(thread) ==
  /\ thread.at = "handling"
  /\ IF Head(thread.todo) = "fail" THEN Fail(thread.error) /\ UNCHANGED queue
                                   ELSE CloseQueue /\ UNCHANGED state

Handled(thread) ==
  [thread EXCEPT !.todo = Tail(@), !.at = IF Len(thread.todo) = 1 THEN "done" ELSE @]

InputHandles ==
  /\ Handle(in) /\ in' = Handled(in)
  /\ UNCHANGED <<source, un, files, main, received, report, cancel>>

UnpackerHandles ==
  /\ Handle(un) /\ un' = Handled(un)
  /\ UNCHANGED <<source, in, files, main, received, report, cancel>>

(***************************************************************************)
(* The input thread: ZstdDecompressor::decompress or RawTarReader::read.   *)
(***************************************************************************)
InputChecks ==
  /\ in.at = "check"
  /\ IF Cancelled THEN InputThrows("cancelled") ELSE in' = [in EXCEPT !.at = "read"]
  /\ UNCHANGED <<source, queue, un, files, outcome, cancel>>

(* IByteSource::read. At the end of the transport, or of the file, it      *)
(* returns nothing and the queue is closed.                                *)
Read ==
  /\ in.at = "read"
  /\ \/ /\ line = "up" /\ got < Len(Stream)
        /\ got' = got + 1
        /\ in' = [in EXCEPT !.at = "push", !.item = got + 1]
        /\ UNCHANGED queue
     \/ /\ line = "up" /\ got = Len(Stream)
        /\ in' = [in EXCEPT !.at = "done"]
        /\ CloseQueue /\ UNCHANGED got
     \/ /\ line \in {"lost", "closed"}
        /\ InputThrows(IF line = "lost" THEN "own" ELSE "cancelled")
        /\ UNCHANGED <<queue, got>>
  /\ UNCHANGED <<scenario, line, un, files, outcome, cancel>>

PushTar ==
  /\ in.at = "push"
  /\ \/ /\ queue.status = "open" /\ Len(queue.items) < Capacity
        /\ queue' = [queue EXCEPT !.items = Append(@, in.item)]
        /\ in' = [in EXCEPT !.at = "check"]
     \/ /\ queue.status # "open"
        /\ InputThrows(IF queue.status = "closed" THEN "closed" ELSE "cancelled")
        /\ UNCHANGED queue
  /\ UNCHANGED <<source, un, files, outcome, cancel>>

(* The peer goes away, or goes silent; the file cannot be read any more.   *)
SourceFails ==
  /\ line = "up"
  /\ \/ "source" \in scenario.fail /\ line' = "lost"
     \/ "stall" \in scenario.fail /\ ~Cancelled /\ line' = "stalled"
  /\ UNCHANGED <<scenario, got, queue, in, un, files, outcome, cancel>>

InputStep == InputChecks \/ Read \/ PushTar \/ InputHandles

(***************************************************************************)
(* The unpacker thread: TarUnpacker::unpack. It collects all chunks of a   *)
(* file before it creates the writer.                                      *)
(***************************************************************************)
Collected == un.file # 0 /\ un.chunk = Sizes[un.file]

UnpackerChecks ==
  /\ un.at = "check"
  /\ IF Cancelled THEN UnpackerThrows("cancelled")
     ELSE un' = [un EXCEPT !.at = IF Collected THEN "create" ELSE "pop"]
  /\ UNCHANGED <<source, queue, in, files, outcome, cancel>>

(* archive_read_next_header, or archive_read_data_block. A directory is    *)
(* made, and gets its times, at once.                                      *)
PopTar ==
  /\ un.at = "pop"
  /\ \/ /\ queue.items # <<>>
        /\ queue' = [queue EXCEPT !.items = Tail(@)]
        /\ LET x == Stream[Head(queue.items)] IN
           un' = IF x = Mark THEN [un EXCEPT !.at = "done"]
                 ELSE [un EXCEPT !.at = IF x[1] \in Directories THEN "restore" ELSE "check",
                                 !.file = x[1], !.chunk = x[2]]
     \/ /\ queue.items = <<>> /\ queue.status = "closed"
        /\ IF un.file = 0 THEN un' = [un EXCEPT !.at = "done"] ELSE UnpackerThrows("own")
        /\ UNCHANGED queue
     \/ /\ queue.items = <<>> /\ queue.status = "abandoned"
        /\ UnpackerThrows("cancelled")
        /\ UNCHANGED queue
  /\ UNCHANGED <<source, in, files, outcome, cancel>>

(* BufferedFileWriter::create truncates the file. Slots connected after a  *)
(* cancellation run at once.                                               *)
Create ==
  /\ un.at = "create"
  /\ \/ /\ writer' = NewWriter /\ sink' = NewSink /\ drain' = NoDrain
        /\ disk' = {d \in disk : d[1] # un.file}
        /\ restored' = restored \ {un.file}
        /\ un' = [un EXCEPT !.at = "write", !.chunk = 0]
     \/ "disk" \in scenario.fail /\ UnpackerThrows("own") /\ UNCHANGED files
  /\ UNCHANGED <<source, queue, in, outcome, cancel>>

(* BufferedFileWriter::write of one chunk, which may fill the slot.        *)
WriteChunk ==
  /\ un.at = "write"
  /\ \/ /\ un.chunk = Sizes[un.file]
        /\ un' = [un EXCEPT !.at = "close"]
        /\ UNCHANGED writer
     \/ /\ un.chunk < Sizes[un.file]
        /\ IF Cancelled \/ writer.error # "none"
           THEN UnpackerThrows(IF Cancelled THEN "cancelled" ELSE writer.error) /\ UNCHANGED writer
           ELSE /\ writer' = [writer EXCEPT !.current = Append(@, un.chunk + 1)]
                /\ un' = [un EXCEPT !.chunk = @ + 1, !.then = "write",
                            !.at = IF Len(writer.current) + 1 = scenario.slot THEN "enqueue"
                                                                             ELSE "write"]
  /\ UNCHANGED <<source, queue, in, drain, sink, disk, restored, outcome, cancel>>

MaySend_Fault == Len(writer.pending) <= scenario.slots
MaySend == Len(writer.pending) < scenario.slots

StartWorker_Fault == UNCHANGED drain
StartWorker == drain' = IF drain.at = "none" THEN [drain EXCEPT !.at = "wait"] ELSE drain

(* enqueue_current_slot_locked: wait, without the lock, for a place, an    *)
(* error or a cancellation.                                                *)
SendSlot(closing, then) ==
  \/ /\ writer.error # "none" \/ writer.cancelled
     /\ UnpackerThrows(IF writer.error # "none" THEN writer.error ELSE "cancelled")
     /\ writer' = [writer EXCEPT !.closing = closing]
     /\ UNCHANGED drain
  \/ /\ writer.error = "none" /\ ~writer.cancelled /\ MaySend
     /\ writer' = [writer EXCEPT !.pending = Append(@, writer.current), !.current = <<>>,
                                 !.closing = closing]
     /\ StartWorker
     /\ un' = [un EXCEPT !.at = then]

Enqueue ==
  /\ un.at = "enqueue"
  /\ SendSlot(writer.closing, un.then)
  /\ UNCHANGED <<source, queue, in, sink, disk, restored, outcome, cancel>>

(* BufferedFileWriter::close sets closing_ and enqueues what is left, with *)
(* the lock held unless it has to wait for a place.                        *)
CloseWriter ==
  /\ un.at = "close"
  /\ \/ /\ writer.error = "none" /\ writer.current = <<>>
        /\ writer' = [writer EXCEPT !.closing = TRUE]
        /\ un' = [un EXCEPT !.at = "await"]
        /\ UNCHANGED drain
     \/ /\ writer.error # "none" \/ writer.current # <<>>
        /\ SendSlot(TRUE, "await")
     \/ /\ writer.error = "none" /\ ~writer.cancelled /\ writer.current # <<>> /\ ~MaySend
        /\ writer' = [writer EXCEPT !.closing = TRUE]
        /\ un' = [un EXCEPT !.at = "enqueue", !.then = "await"]
        /\ UNCHANGED drain
  /\ UNCHANGED <<source, queue, in, sink, disk, restored, outcome, cancel>>

(* drain_future.get(); without a worker there is nothing to write, and the *)
(* sink is closed here.                                                    *)
Awaited_Fault == drain.at \notin {"none", "wait"}
Awaited == drain.at = "over"

AwaitDrain ==
  /\ un.at = "await"
  /\ \/ /\ drain.at = "none"
        /\ \/ sink.cancelled /\ UnpackerThrows("cancelled")
           \/ ~sink.cancelled /\ un' = [un EXCEPT !.at = "restore"]
           \/ ~sink.cancelled /\ "disk" \in scenario.fail /\ UnpackerThrows("own")
     \/ /\ Awaited
        /\ IF writer.error # "none" THEN UnpackerThrows(writer.error)
                                    ELSE un' = [un EXCEPT !.at = "restore"]
  /\ UNCHANGED <<source, queue, in, files, outcome, cancel>>

(* ensure_directory_exists, for a directory, and apply_restorable_metadata,*)
(* which checks before the times and after them, and may fail at either.   *)
Restore ==
  /\ un.at = "restore"
  /\ \/ /\ un' = [un EXCEPT !.at = "check", !.file = 0, !.chunk = 0]
        /\ restored' = restored \cup {un.file}
     \/ /\ \/ Cancelled /\ UnpackerThrows("cancelled")
           \/ "disk" \in scenario.fail /\ UnpackerThrows("own")
        /\ restored' \in {restored, restored \cup {un.file}}
  /\ UNCHANGED <<source, queue, in, writer, drain, sink, disk, outcome, cancel>>

UnpackerStep ==
  \/ UnpackerChecks \/ PopTar \/ Create \/ WriteChunk \/ Enqueue \/ CloseWriter \/ AwaitDrain
  \/ Restore \/ UnpackerHandles

(***************************************************************************)
(* The task of the pool: BufferedFileWriter::drain_loop and, inside it,    *)
(* FileByteSink.                                                           *)
(***************************************************************************)
DrainFails(e) ==
  /\ writer' = [writer EXCEPT !.error = e]
  /\ drain' = [drain EXCEPT !.at = "over"]

(* The wait of drain_loop. A slot goes before the end.                     *)
TakeSlot ==
  /\ drain.at = "wait"
  /\ \/ /\ writer.pending # <<>>
        /\ writer' = [writer EXCEPT !.pending = Tail(@)]
        /\ drain' = [drain EXCEPT !.at = "look", !.slot = Head(writer.pending)]
     \/ /\ writer.pending = <<>> /\ writer.closing
        /\ drain' = [drain EXCEPT !.at = "look"]
        /\ UNCHANGED writer
     \/ /\ writer.pending = <<>> /\ ~writer.closing /\ writer.cancelled
        /\ DrainFails("cancelled")
  /\ UNCHANGED <<source, queue, in, un, sink, disk, restored, outcome, cancel>>

(* The checks of drain_loop and of FileByteSink::write or close.           *)
Look ==
  /\ drain.at = "look"
  /\ IF writer.cancelled \/ sink.cancelled THEN DrainFails("cancelled")
     ELSE /\ drain' = IF drain.slot # <<>> THEN [drain EXCEPT !.at = "fill"]
                      ELSE [drain EXCEPT !.at = "submit", !.then = "all"]
          /\ UNCHANGED writer
  /\ UNCHANGED <<source, queue, in, un, sink, disk, restored, outcome, cancel>>

(* FileByteSink::write: one turn of its loop. A buffer goes out when it is *)
(* full, and also when its first byte has waited for too long.             *)
Fill ==
  /\ drain.at = "fill"
  /\ \/ drain.slot = <<>> /\ drain' = [drain EXCEPT !.at = "wait"] /\ UNCHANGED sink
     \/ /\ drain.slot # <<>> /\ sink.buffer[sink.active] # <<>>
        /\ drain' = [drain EXCEPT !.at = "submit", !.then = "fill"]
        /\ UNCHANGED sink
     \/ /\ drain.slot # <<>>
        /\ sink' = [sink EXCEPT !.buffer[sink.active] = Append(@, Head(drain.slot))]
        /\ drain' =
             [drain EXCEPT !.slot = Tail(@), !.then = "fill",
                !.at = IF Len(sink.buffer[sink.active]) + 1 = BatchSize THEN "submit" ELSE "fill"]
  /\ UNCHANGED <<source, queue, in, un, writer, disk, restored, outcome, cancel>>

TooManyOps_Fault == Len(sink.flight) > MaxOps
TooManyOps == Len(sink.flight) >= MaxOps

(* submit_active_write. With the operations used up the oldest is awaited. *)
Submit ==
  /\ drain.at = "submit"
  /\ IF sink.cancelled THEN DrainFails("cancelled")
     ELSE /\ drain' = [drain EXCEPT !.at = IF sink.buffer[sink.active] = <<>> THEN drain.then
                                           ELSE IF TooManyOps THEN "reap" ELSE "issue"]
          /\ UNCHANGED writer
  /\ UNCHANGED <<source, queue, in, un, sink, disk, restored, outcome, cancel>>

(* WriteFile, and the next buffer.                                         *)
Issue ==
  /\ drain.at = "issue"
  /\ \/ LET s == sink.active IN
        /\ sink' = [sink EXCEPT !.place[s] = sink.size,
                                !.op[s] = "pending",
                                !.size = @ + Len(sink.buffer[s]),
                                !.flight = Append(@, s),
                                !.active = Head(sink.available),
                                !.available = Tail(@),
                                !.buffer[Head(sink.available)] = <<>>]
        /\ drain' = [drain EXCEPT !.at = drain.then]
        /\ UNCHANGED writer
     \/ /\ "disk" \in scenario.fail
        /\ DrainFails(IF sink.cancelled THEN "cancelled" ELSE "own")
        /\ UNCHANGED sink
  /\ UNCHANGED <<source, queue, in, un, disk, restored, outcome, cancel>>

(* wait_for_one_write: GetOverlappedResult of the oldest operation.        *)
WaitForOne(then) ==
  LET s == Head(sink.flight) IN
  /\ sink.op[s] # "pending"
  /\ sink' = [sink EXCEPT !.flight = Tail(@), !.op[s] = "idle",
                !.available = IF sink.op[s] = "written" THEN Append(@, s) ELSE @]
  /\ IF sink.op[s] = "written" THEN drain' = [drain EXCEPT !.at = then] /\ UNCHANGED writer
     ELSE DrainFails(IF sink.op[s] = "aborted" THEN "cancelled" ELSE "own")

Reap ==
  /\ drain.at = "reap" /\ WaitForOne("issue")
  /\ UNCHANGED <<source, queue, in, un, disk, restored, outcome, cancel>>

(* wait_for_all_writes, and the end of FileByteSink::close.                *)
FinishSink ==
  /\ drain.at = "all"
  /\ \/ sink.flight # <<>> /\ WaitForOne("all")
     \/ sink.flight = <<>> /\ drain' = [drain EXCEPT !.at = "over"] /\ UNCHANGED <<writer, sink>>
     \/ sink.flight = <<>> /\ "disk" \in scenario.fail /\ DrainFails("own") /\ UNCHANGED sink
  /\ UNCHANGED <<source, queue, in, un, disk, restored, outcome, cancel>>

DrainStep == TakeSlot \/ Look \/ Fill \/ Submit \/ Issue \/ Reap \/ FinishSink

(* The system completes an operation: with what is in the buffer now.      *)
Complete(s) ==
  /\ sink.op[s] = "pending"
  /\ \/ /\ sink' = [sink EXCEPT !.op[s] = "written"]
        /\ disk' = disk \cup {<<un.file, sink.place[s] + i, sink.buffer[s][i]>> :
                                i \in DOMAIN sink.buffer[s]}
     \/ /\ "disk" \in scenario.fail
        /\ sink' = [sink EXCEPT !.op[s] = "failed"]
        /\ UNCHANGED disk
  /\ UNCHANGED <<source, queue, in, un, writer, drain, restored, outcome, cancel>>

(***************************************************************************)
(* The main thread.                                                        *)
(***************************************************************************)
Start ==
  /\ got' = 0
  /\ queue' = [NewQueue EXCEPT !.status = IF Cancelled THEN "abandoned" ELSE "open"]
  /\ in' = NewInput /\ un' = NewUnpacker
  /\ state' = "none"
  /\ report' = "none"
  /\ main' = "input"

(* should_report_transfer_error: after a cancellation no error is shown.   *)
Verdict(e) == IF Cancelled \/ e = "cancelled" THEN "cancelled" ELSE "failed"

(* unpack_file_to_directory starts at once. receive_directory_task waits   *)
(* for the next transport (await_transport_begin): a peer that says goodbye*)
(* there ends it without an error, unless nothing was received at all.     *)
AwaitTransport ==
  /\ main = "await"
  /\ \/ /\ (line = "up" \/ Local) /\ received < Transports
        /\ Start
     \/ /\ ~Local /\ (line = "lost" \/ received = Transports)
        /\ report' \in {Verdict("own")} \cup IF scenario.keep \/ received > 0 THEN {report} ELSE {}
        /\ main' = "over"
        /\ UNCHANGED <<got, queue, in, un, state>>
     \/ /\ ~Local /\ line = "closed"
        /\ report' = "cancelled"
        /\ main' = "over"
        /\ UNCHANGED <<got, queue, in, un, state>>
  /\ UNCHANGED <<scenario, line, files, received, cancel>>

(* join_and_capture of both threads; leaving the function, the destructor  *)
(* of the executor waits for its tasks.                                    *)
Join ==
  /\ \/ main = "input" /\ in.at = "done" /\ main' = "unpacker"
     \/ main = "unpacker" /\ un.at = "done" /\ main' = "pool"
     \/ main = "pool" /\ drain.at \in {"none", "over"} /\ main' = "judge"
  /\ UNCHANGED <<source, queue, in, un, files, received, state, report, cancel>>

Judge ==
  /\ main = "judge"
  /\ IF state # "none"
     THEN /\ report' = IF Local THEN "failed" ELSE Verdict(state)
          /\ main' = "over" /\ UNCHANGED received
     ELSE /\ report' = IF Local /\ Cancelled THEN "cancelled" ELSE "completed"
          /\ main' = IF scenario.keep THEN "await" ELSE "over"
          /\ received' = received + 1
  /\ UNCHANGED <<source, queue, in, un, files, state, cancel>>

MainStep == AwaitTransport \/ Join \/ Judge

(***************************************************************************)
(* Cancellation: the flag, the socket (unless the source is a file), the   *)
(* queue, and the sink and the writer of the present file. CancelIoEx may  *)
(* come too late for an operation.                                         *)
(***************************************************************************)
Cancel ==
  /\ scenario.cancel /\ cancel = 0 /\ main # "over"
  /\ cancel' = 1
  /\ UNCHANGED <<source, queue, in, un, files, outcome>>

Abort(ops) ==
  sink' = [sink EXCEPT !.cancelled = TRUE,
                       !.op = [s \in Slots |-> IF s \in ops THEN "aborted" ELSE @[s]]]

CancelSlot ==
  /\ cancel \in 1 .. EmitDone - 1
  /\ cancel' = cancel + 1
  /\ IF cancel = 1 /\ ~Local THEN line' = "closed" ELSE UNCHANGED line
  /\ IF cancel = 2 THEN queue' = [items |-> <<>>, status |-> "abandoned"] ELSE UNCHANGED queue
  /\ IF cancel = 3 THEN \E ops \in SUBSET {s \in Slots : sink.op[s] = "pending"} : Abort(ops)
                   ELSE UNCHANGED sink
  /\ IF cancel = 4 THEN writer' = [writer EXCEPT !.cancelled = TRUE] ELSE UNCHANGED writer
  /\ UNCHANGED <<scenario, got, in, un, drain, disk, restored, outcome>>

AllOver == main = "over" /\ cancel \in {0, EmitDone} /\ \A s \in Slots : sink.op[s] # "pending"
Finished == AllOver /\ UNCHANGED vars

Next ==
  \/ InputStep \/ SourceFails \/ UnpackerStep \/ DrainStep \/ MainStep
  \/ \E s \in Slots : Complete(s)
  \/ Cancel \/ CancelSlot
  \/ Finished

Spec == Init /\ [][Next]_vars

(* Threads run, the system completes what it was asked to write, emit()    *)
(* runs its slots, and a user who sees no progress cancels in the end.     *)
Fairness ==
  /\ WF_vars(InputStep) /\ WF_vars(UnpackerStep) /\ WF_vars(DrainStep) /\ WF_vars(MainStep)
  /\ \A s \in Slots : WF_vars(Complete(s))
  /\ WF_vars(CancelSlot) /\ WF_vars(line = "stalled" /\ Cancel)

FairSpec == Spec /\ Fairness

(***************************************************************************)
(* Properties.                                                             *)
(***************************************************************************)
Errors == {"none", "own", "closed", "cancelled"}

(* Every variable has its type; the queue and the writer keep to their     *)
(* capacities, and FileByteSink to its number of operations.               *)
TypeOK ==
  /\ scenario \in Scenarios
  /\ line \in {"up", "lost", "stalled", "closed"}
  /\ got \in 0 .. Len(Stream)
  /\ queue.items \in Seq(1 .. Len(Stream)) /\ Len(queue.items) <= Capacity
  /\ queue.status \in {"open", "closed", "abandoned"}
  /\ in.at \in {"check", "read", "push", "handling", "done"}
  /\ un.at \in {"check", "pop", "create", "write", "enqueue", "close", "await", "restore",
                "handling", "done"}
  /\ un.file \in Files \cup {0} /\ un.chunk \in Nat
  /\ {in.error, un.error, writer.error, state} \subseteq Errors
  /\ Len(writer.current) <= scenario.slot /\ Len(writer.pending) <= scenario.slots
  /\ drain.at \in {"none", "wait", "look", "fill", "submit", "reap", "issue", "all", "over"}
  /\ sink.op \in [Slots -> {"idle", "pending", "written", "failed", "aborted"}]
  /\ sink.available \in Seq(Slots) /\ sink.flight \in Seq(Slots)
  /\ Len(sink.flight) <= MaxOps
  /\ \A s \in Slots : Len(sink.buffer[s]) <= BatchSize
  /\ restored \subseteq Files
  /\ main \in {"await", "input", "unpacker", "pool", "judge", "over"}
  /\ received \in 0 .. Transports
  /\ report \in {"none", "completed", "cancelled", "failed"}
  /\ cancel \in 0 .. EmitDone

(* A transport that is reported complete is on the disk: every file of it, *)
(* every chunk, each in its place, with its metadata. An archive cut off   *)
(* between two files looks complete to the unpacker, and the errors of the *)
(* slots and of the disk surface in other threads.                         *)
CompletedIsWhole ==
  report = "completed" =>
    /\ restored = Files
    /\ disk = UNION {WholeFile(f) : f \in Files}

(* A file gets the sender's time only when its content is complete on the  *)
(* disk. The file comparison of a later transfer goes by size and time and *)
(* would never send a damaged file again.                                  *)
RestoredIsWritten ==
  \A f \in restored : {d \in disk : d[1] = f} = WholeFile(f)

(* The two runtime checks of submit_active_write never fail ("write slot   *)
(* is unexpectedly still in flight", "no write slot available"), so that a *)
(* buffer is never filled while the system writes it out.                  *)
SlotsAreSafe ==
  /\ drain.at \in {"fill", "submit", "issue"} => sink.op[sink.active] = "idle"
  /\ drain.at = "issue" => sink.available # <<>>

(* Receiving always ends, whatever fails, and a cancellation ends it also  *)
(* when the sender is silent.                                              *)
ReceiveEnds == <>AllOver

=============================================================================
