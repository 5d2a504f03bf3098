# SoraTransport in TLA+

SoraTransport sends directories from one Windows machine to another: a tar
stream, compressed with zstd, over a WebSocket; it also packs and unpacks local
archives. Its difficulty is not in the formats. It is in a pipeline of threads
and coroutines that share bounded queues, semaphores, a socket and write
buffers, all of which can fail or be cancelled at any moment. This directory
models that part, checks it with TLC on small instances, and proves the core of
it with TLAPS for all instances. Paths such as `types.hpp:289` are under
`src/src/detail` or `src/src/detail2`.

## 1. Inventory

| Component | Source | State | Operations | What makes it correct |
|---|---|---|---|---|
| BoundedQueue | `types.hpp` | items, status, two deques of parked handlers, two condition variables | push, pop, async_push, async_pop, close, abandon | bounded FIFO; no lost wakeup; nobody parked after an end; the end is seen after the last item |
| CancelEvent | `types.hpp` | a flag, slots | connect, emit | a slot connected late still runs |
| SemaphoreCor | `infra.hpp`, `infra.cpp` | permits, deque of requests | acquire, Guard, release, cancel | permits conserved; oldest first; a freed permit is never overlooked |
| TaskExecutor | `infra.*` | a thread pool | submit, post, join | |
| BufferPool | `runtime.*` | free lists | acquire, recycle | |
| FileTraverser | `filesystem.cpp` | breadth-first frontier | traverse | entries in sequence |
| FileOpener | `filesystem.cpp` | pending and ready results, `open_slots_` | open, open_regular_file | emits in traversal order; never blocks for ever in `future.get()`; slots come back |
| FilePrefetcher | `filesystem.cpp` | `byte_budget_` | prefetch | guards come back; while the transfer goes on, the bytes read ahead are covered by the budget |
| TarPacker, ZstdCompressor, QueueWriter | `tar.cpp`, `zstd.cpp`, `stream.cpp` | the stream so far | pack, compress, write | nothing missing, nothing out of order |
| AdaptiveLevelController | `zstd.cpp` | last level, direction and time, cooldown | on_upstream_full, on_downstream_full, on_downstream_empty_then_upstream_full | within bounds from the first decision on; few and small changes |
| Sending pipeline | `orchestration.cpp`, `gui_runtime.cpp`, `internal.hpp` | queues, PipelineState, PipelineGuard, futures, threads | listen_directory_task, send_paths_to_socket | a failed stage ends all others; the first error is kept; a short archive is never reported complete |
| SocketByteSink | `io.cpp` | two buffers, three locks, keepalive thread, async error | send_transport_begin/end, write, send_control_message, await_control_response, close, stop, cancel_pending_work | order of frames; end last; cancellation closes the socket; all threads stop |
| SocketByteSource | `io.cpp` | current message, transport state | await_transport_begin, read, cancel_pending_work | end of data only at the transport end |
| FileByteSink, BufferedFileWriter | `io.cpp`, `writer.cpp` | slots, overlapped writes in flight, drain task | write, close, drain_loop, cancel | the whole file, each part in its place; errors surface; no buffer reused in flight |
| OverlappedFileReader, FileByteSource | `io.cpp` | a ring of slots with reads in flight | start_prefetch, read_next_chunk, close, cancellation; read | data in file order and in full; no buffer given back with a read in flight |
| ZstdDecompressor, RawTarReader, TarUnpacker | `stream.cpp`, `tar.cpp` | position in the archive | decompress, read, unpack | what is reported complete is on the disk |
| Receiving pipeline, local unpack | `orchestration.cpp` | tar_queue, PipelineState | receive_directory_task, unpack_file_to_directory | as the sending pipeline |
| File comparison | `file_compare_stream.cpp` | two queues, the batch under way, the next sequence number | stream_file_comparison_to_opener, produce_comparison_batches, handle_file_comparison_control_message | only files that differ are sent, all of them, in order; nobody waits for ever |
| GuiSendServer | `gui_runtime.cpp` | mutex_, flags, pending drop | start, stop, submit_paths, run | drops go to the right receiver, once; start and stop return, but for finding 2 |
| Protocol, TransferProgress, options, Windows helpers, GUI, entry points | several | little or none | | tested or visible directly |

How they interact. Every queue has one producer and one consumer, each either a
thread (blocking calls) or a coroutine (async calls). Sending:

    FileTraverser -> FileOpener -> FilePrefetcher -> TarPacker -> ZstdCompressor -> QueueWriter -> SocketByteSink
      traversal      opened         prefetched       tar         zstd queue

Receiving:

    SocketByteSource -> ZstdDecompressor -> tar_queue -> TarUnpacker -> BufferedFileWriter -> FileByteSink

With file comparison the producer thread and the main thread stand between
traverser and opener:

    FileTraverser -> producer -> main thread (asks the receiver) -> FileOpener -> ...
          traversal      pending                            filtered

An opened file carries two semaphore guards through the queues. Errors travel
through PipelineState (the first one is kept), through futures, and by closing
queues; cancellation travels through CancelEvent, whose slots close the socket,
abandon the queues and cancel the semaphores one after the other.

The hard behaviours: handing items over between locks; blocking a pool thread
for work of the same pool; a stage that fails while its neighbours are parked;
the order of "record the error" and "close the queues"; cancellation between any
two steps; two threads and a keepalive thread on one socket; overlapped writes
completing in any order; GUI calls in the windows between two critical sections
of the server thread. `PROJECT.json` lists them, each at its line, as hazards.

## 2. Modules

| Module | Models | Role |
|---|---|---|
| `Channel` | what a stage may expect of a queue | abstract specification |
| `BoundedQueue` | `BoundedQueue<T>` | implements `Channel` |
| `SemaphoreCor` | `SemaphoreCor`, `Guard` | |
| `FileOpener` | `FileOpener::open` and its tasks on the pool | uses a pool, a semaphore and two queues, reduced |
| `SendPipeline` | `listen_directory_task`, `send_paths_to_socket`, `pack_directory_to_file` | composes the six stages; queues are used as `Channel` promises |
| `FileComparison` | `file_compare_stream.cpp`, and `listen_directory_task` around it | both sides of the exchange; the stages behind the comparison are one actor |
| `OverlappedReader` | `OverlappedFileReader`, `FileByteSource`, the prefetch of one file, `TarPacker::add_entry` | one reader and its user |
| `AdaptiveLevel` | `AdaptiveLevelController` and the loop of `ZstdCompressor::compress` | the queues are an arbitrary environment |
| `SocketSink` | `SocketByteSink::State` | |
| `GuiSendServer` | `GuiSendServer::State` | |
| `ReceivePipeline` | `receive_directory_task`, `receive_transport_from_source`, `unpack_file_to_directory`, TarUnpacker, BufferedFileWriter, FileByteSink | composes the receiving stages |
| `BoundedQueueProofs`, `SemaphoreCorProofs`, `FileOpenerProofs`, `SendPipelineProofs`, `ReceivePipelineProofs`, `OverlappedReaderProofs`, `GuiSendServerProofs`, `FileComparisonProofs` | | theorems; those about `AdaptiveLevel` are in `SendPipelineProofs`, those about `SocketSink` in `SemaphoreCorProofs` |
| `MC...` | | instances for TLC |

Definitions named `..._Fault` are seeded faults: variants of the definition they
stand before, as a plausible bug would write it. No specification uses them;
they show that a property would notice.

### State and steps

- **BoundedQueue.** `queue`, `pendingPushes`, `pendingPops` are the deques
  `queue_`, `pending_pushes_`, `pending_pops_`; `status` is `closed_` and
  `abandoned_`; `notFull`, `notEmpty` are the threads asleep on the two
  condition variables. A step is one critical section of `sync_mutex_`. The
  blocking calls do a notify and a second critical section
  (`schedule_resume_from_sync`) after the first: separate steps. Sleepers may
  also wake for no reason.
- **SemaphoreCor.** A step is one critical section of `state->mutex`, except
  that the loop of `drain_ready_waiters_locked` is one step per turn, with the
  mutex as `draining`.
- **FileOpener.** The coroutine is a handler of the pool; its steps lie between
  the places where tasks can interfere. `emit_ready(true)` keeps its thread.
- **SendPipeline.** A stage takes an item, may acquire a permit, works, pushes.
  What its error handling does is a sequence of steps (`Handling`): close a
  queue, record the error, let the guard close the rest, in the order of the
  code for each stage. The main thread waits for the futures, joins the threads,
  and reports. Cancellation is the flag and then one step per slot. The target
  is a socket or a file: into a file the sink is the last thing cancelled, and
  without compression (`Raw`) the writer takes from the packer.
- **FileComparison.** A queue is a record of items and status; a step of a thread
  is one queue operation, one control message, one entry passed over, or one step
  of its error handling (`Handling`). `differing` is `diff_paths`, `sequence` is
  `next_filtered_sequence`. `requests` and `answers` are the two directions of the connection; the receiver answers as it reads
  (`Receive`). `rest` takes entries in any order it may and emits by number.
- **Channel.** `transit` is what was accepted, never more than the capacity;
  `offered` is what producers that are held back have in hand. Closing keeps all
  of the one and refuses all of the other; `End` is a consumer being told the end
  of the stream, which takes an empty `transit`. `cut` marks a close by somebody
  other than the producer, after which `End` may miss one item of each producer:
  see the argument for the queue in section 4.
- **OverlappedReader.** `slot` and `ring` hold the fields of `State`; `op` is
  what the system does with the read of each slot. `pc` follows the calls of the
  reader's user through issue_next_read, read_next_chunk and close; `Complete`
  is the system, in any order. A cancellation is the flag of the event, then the
  flag of the reader, then `CancelIoEx`, which catches some of the reads. A file
  that was prefetched goes through a parked push and the queue to the packer
  (`queue`, `Push`, `Promote`). On that way it is let go of in two orders:
  `Dispose()` closes the reader and then frees the budget (a push parked at
  `close()`, everything at `abandon()`), `~OpenedFile` destroys members in reverse
  and frees the budget first (`Throw`: a push that is refused, a file left in a
  closed queue).
- **AdaptiveLevel.** A step is one consultation of the controller, at the head of
  the loop (`Turn`) or at an output (`Output`); what the queues look like is free.
  `-l` fixes nothing (`adaptive_enabled` is not used), so the first level is any
  number, inside the bounds or not.
  `decisions` is a history variable.
- **SocketSink.** One step per critical section of `send_mutex` and per blocking
  operation under `operation_mutex`; the keepalive thread is an actor.
- **GuiSendServer.** One step per critical section of `mutex_` and per blocking
  call between two. The sink is there as far as others wait for it: a receiver may
  stop taking anything (`PeerStalls`), the keepalive thread is then stuck in or
  behind a write (`PingSticks`), and both the slot that `stop()` runs with
  `mutex_` held and `close_socket()` at the end of a session join it.
- **ReceivePipeline.** Input thread, unpacker thread, drain task, the system that
  completes writes, main thread, and cancellation. `writer` and `sink` hold the
  fields of BufferedFileWriter and FileByteSink; a step is one critical section
  of the writer's mutex, or one turn of a loop of the sink.

## 3. What is checked

| Run | Instance | Result |
|---|---|---|
| `bounded_queue` | 1 producer, 1 consumer, capacity 2, 4 items, each side blocking or coroutine | queue implements `Channel`; nobody stranded; everyone finishes |
| `semaphore` | 3 clients, 3 permits, requests 0..3 | permits conserved; FIFO; no request that fits waits for ever |
| `file_opener` | 4 entries, concurrency 2, pools of 1 and 2 threads | order; permits; no deadlock in `future.get()` |
| `send_pipeline` | 5 stages, 1 to 4 items, queues of 1, to a socket, into a file, into a file without compression, 8 scenarios: two stages failing, or a cancellation at any moment beside a failure | no silent truncation; root cause kept; the transfer ends |
| `send_stage_failure` | opener fails | **violated**, see 6 |
| `socket_sink` | 3 writes, 1 batch, buffers of 2 and 1, both modes | order of frames; end last; all threads stop |
| `sink_cancel_stalled` | the peer stops reading | **violated**, see 6 |
| `gui_send_server` | 2 drops, 2 receivers | drops not mixed up; start returns, and stop unless a stalled receiver holds up the join (finding 2) |
| `receive_pipeline` | a directory, 2 files (3 chunks, none), 1-2 slots, 2 writes in flight, 6 scenarios | complete means whole; times only on whole files; buffers safe; ends |
| `file_comparison` | 4 entries, batches of at most 2 files and 3 entries, queues of 1; every mix of directories, equal and different files; 5 failures, cancellation | only differences sent, all of them, in order; both sides end |
| `overlapped_reader` | ring of 3, files of 0 to 9 units in reads of 2, two users, 4 faults, cancellation | file order and whole; buffers held long enough, and the budget, until the transfer fails; every reader closes |
| `receive_last_slot` | the file ends in mid-slot, slots full at close | **violated**, see 6 |

Why these bounds. A queue of one or two places is full, empty and neither within
a few items, and every queue of the program has one producer and one consumer.
Three clients are the least with a head, a tail and a holder; requests from 0 to
all permits cover every relation between them. FileOpener has at most
`Concurrency` tasks at once: four entries pass the limit twice, and a pool of
one thread is the hardest. In `send_pipeline` one relay stands for opener and
prefetcher, which are alike, so that four items can fill all queues. Three
permits per semaphore cannot run out there (a queue of one place and the two
stages around it); with the traverser failing and under a cancellation there is
one, so that relays do wait for it. In `file_comparison` four entries make a
batch that is full by files, one that is full by entries, a partial last one and
none; equal and different files before and behind each other. In
`overlapped_reader` nine units go round a ring of three reads of two, with a
short last read; a prefetch of two reads leaves a slot of the ring free, one of a
small file has only one. Two
drops and two receivers are the least that can be mixed up. Three chunks over
two operations in flight need a buffer again while another is written.
`ReceivePipeline` assumes that what lies behind the end-of-archive mark fits in
`tar_queue` (true of archives of TarPacker; section 7).

`CHECK_DEADLOCK` is on in all passing runs: a specification may stop only by
`Finished`, when every actor is done.

### Fairness

- Every thread and every coroutine that can go on goes on (weak fairness of each
  stage, thread and task): the operating system and the pool schedule them.
- SemaphoreCor has strong fairness on `Release`: a holder finishes its work
  although the mutex is taken and freed meanwhile. SocketSink has it on taking
  `operation_mutex` and GuiSendServer on noticing that a receiver has gone: a
  mutex taken again and again is not refused for ever, and a `check_connection`
  repeated every turn fails in the end. GuiSendServer also has it on the end of a
  ping (`PingEnds`): a receiver that takes something again and again lets the ping
  through. One that stalls for good is under no obligation.
- Slots of `emit()` all run: it is one loop.
- In OverlappedReader the system ends every read it was given: `close()` waits
  for that as well.
- In FileComparison a receiver that reads goes on reading. One that stops is the
  subject of `sink_cancel_stalled`.
- In ReceivePipeline the system completes the writes it was given, and a user
  who sees no progress cancels; otherwise a silent sender ends nothing.
- No failure, no cancellation and no drop is ever assumed to happen.

## 4. What is proved

For all values of the constants, under the named assumptions of each module
(`QueueAssumption`, `SemaphoreAssumption`, `OpenerAssumption`,
`PipelineAssumption`, `ReceiveAssumption`, `ReaderAssumption`,
`ServerAssumption`, `ComparisonAssumption`). AdaptiveLevel and SocketSink are
instances in the modules that prove about them, so what they assume is a
hypothesis of the theorems there (`LevelsAreOrdered`, `SinkBounds`):

- `BoundedQueueProofs`: `TypeCorrect` (`TypeOK`) and `EndedSettled`
  (`EndedIsSettled`), for any number of producers and consumers, any wiring and
  capacity. With one producer and one consumer, as every queue of the program
  has, also `NoWaiterStranded` (`NoStrandedWaiter`) and `QueueIsChannel`
  (`Spec` implements the `Spec` of `Channel`, `ImplementsChannel`).
- `SemaphoreCorProofs`: `TypeCorrect` (`TypeOK`: permits never underflow),
  `DequeCorrect` (`DequeIsParked`), `NoLostWakeup` (`HeadIsBlocked`),
  `PermitsConserved` (`Conservation`), for any finite set of clients.
- `FileOpenerProofs`: `TypeCorrect` (`TypeOK`), `EmittedOrdered`
  (`EmittedInOrder`) and `PermitsKept` (`PermitsConserved`), for any entries, any
  limits and any pool. `WaitServed` (`WaitIsServed`) for `Concurrency > 1`: the
  code gives each thread of the pool four files (`config.cpp:23`).
- `SendPipelineProofs`: `TypeCorrect` (`TypeOK`), `NoTruncation`
  (`NoSilentTruncation`) and `RootCause` (`RootCauseIsKept`), for any number of
  relays, files, queue places and permits, and any scenario.
- `ReceivePipelineProofs`: `TypeCorrect` (`TypeOK`) and `SlotsSafe`
  (`SlotsAreSafe`), for any files, any number and size of slots, any number of
  operations and any scenario. `RestoredAreWritten` (`RestoredIsWritten`) and
  `CompletedAreWhole` (`CompletedIsWhole`), for every run in which
  `BufferedFileWriter::close()` never waits for a place (`NoWaitInClose`).
  `CloseFindsPlace`: it never does when the files fit their slots (`Fits`), so
  for such files both hold in every run (`FittingFilesAreWhole`).
- `OverlappedReaderProofs`: `TypeCorrect` (`TypeOK`, the shape of the ring with
  it), `OwnedBuffers` (`BuffersAreOwned`), `DataInOrder` (`DeliveredInOrder`) and
  `BudgetIsEnough` (`BudgetCoversReads`), for any depth of the ring, any sizes and
  any scenario.
- `GuiSendServerProofs`: `TypeCorrect` (`TypeOK`), `DropsAreNotMixedUp`
  (`DropGoesToItsReceiver`), `AcceptedDropsAreKept` (`AcceptedIsKept`) and
  `StopIsQuiet` (`StoppedIsQuiet`), for any drops and any number of receivers.
- `FileComparisonProofs`: `TypeCorrect` (`TypeOK`) and `DifferencesSent`
  (`OnlyDifferencesAreSent`), for any number of entries, any limits of a batch,
  any capacity and any scenario. `NothingIsHeldBack` (`NoGap`: an opener that has
  drained its queue and still holds entries can emit one of them, since every
  number given out is emitted or on its way) and `AnswersAreForTheBatch` are what
  a reader of the code would ask for.
- Of `SocketSink`, at the end of `SemaphoreCorProofs` (`Sink`): `SinkTypeCorrect`
  (`TypeOK`: no buffer outgrows its capacity, no answer is read unasked) and
  `FramesInOrder` (`WireIsInOrder`), for any number of writes and batches, any
  capacities and any scenarios.
- Of `AdaptiveLevel`, at the end of `SendPipelineProofs`: `LevelBounded`,
  `CooldownPaysForDecisions`, `LevelMovesGently`. AdaptiveLevel has no run: TLC
  would need a bound on the clock, and the theorems say it for any time.

The argument for the queue. `TypeOK` alone is not inductive: a push that finds a
parked pop hands its item over and must know that the queue is open, and a
promotion after `close()` must find no parked handler. The invariant is
`TypeOK /\ EndedIsSettled`. The promotion loop is one operator on the record
`Parts` of the queue's deques; the lemmas `CompletePopGood`, `PromoteOneGood`,
`HandOffGood` say that each keeps such a record good, and `StepGood` goes through
the actions with them.

The argument for the queue between one producer and one consumer. Nobody is
stranded because whoever waits either waits rightly, or somebody is on the way to
let him go: a notification under way, or the other side between the two critical
sections of its blocking call (`Waits`). This is false for several consumers (a
notify may go to one who finds nothing while another is parked, and the code does
not promise more), hence the hypothesis `Producers = {p}`, `Consumers = {c}`. The
invariant `Duo` says which side can be where and that a deque holds at most the
one actor of its side. The refinement maps the items on the way, those handed to
a parked pop, in the queue and held by a parked push, in that order, to the one
sequence of `Channel`; a lemma for each action says which step of `Channel` it
is, or that it is none (a promotion only moves the boundary between these parts).
A pop that reports the end is `End`, so it must find nothing on the way. There is
one exception, which is the code's: a blocking push that finds a parked pop puts
its item into the queue, unlocks, and hands the item over in a second critical
section (`schedule_resume_from_sync`). When another thread's `close()` comes in
between, it tells the parked pop the end while that one item is queued. The
queue's own producer cannot close there; a guard of another stage can
(`filtered_traversal_queue`, pushed by the main thread, closed by the guard of the
sender thread), when the transfer is failing anyhow. `cut` is true after such a
close, and the invariant shows that what is missed is a single item.

The argument for the semaphore. `HeadIsBlocked` needs that the deque holds
exactly the parked clients (`DequeIsParked`), so that the head has a request at
all, and that a grant to a newcomer leaves the head blocked, because permits only
shrink; `release` may leave it unblocked only while `draining`, and `DrainStop`
ends that only when the head does not fit. Distinctness of the deque is carried
by the lemmas `AppendDistinct` and `TailDistinct`. `Conservation` has a sum over
a set, defined by a fold, and the folds of the library are recursive functions
the prover knows nothing about. That such a sum exists and is additive is proved
by induction over the subsets of the finite set of clients (`SubsetInduction`,
`AdditiveExists`, `SumIsAdditive`); a step changes permits and one summand, or
two, by opposite amounts.

The argument for the opener. The coroutine is a handler like the tasks it submits,
and the invariant first says where it is: on a thread, last in the line of the
pool, parked in one operation, or over (`Turn`). A parked coroutine is posted by
exactly one step of somebody else. Entries it has not submitted are untouched
(`Untouched`); a task has its permit and no result, so a result that is awaited is
there or its task is under way (`Opening`). The files behind the opener are
numbered without a gap, the one a parked push holds included (`Emission`), which
is the order. Each permit has a holder (`Held`): when the coroutine is over and
pool and queues are empty nobody is left to be one, so all permits are back; that
none is lost or doubled is the count (`Conserved`), kept by `Free` also where it
hands a permit to the parked coroutine. Steps that return permits share the
lemmas `Freeing`, `FreeingPosts` and `FreeingKeepsPlace`.

That the opener does not wait for itself is more than this. Parked for a permit
it has fewer results awaited than there are permits (`Window`), and none is
available; all tasks under way are awaited (`Awaited`), so some permit is with a
file that was emitted. In `future.get()` the tasks before the last one submitted
have left the line before the coroutine did, since the pool is first in, first
out: what is behind a running coroutine is at most that last task (`Turn`). The
loop waits only with `Concurrency` results outstanding, so with two or more the
next result is not of the last task (`Ahead`) and its task is on a thread. With
one file at a time and one thread this is false: the coroutine would block the
thread its only task needs. The clamp in `config.cpp:23` allows one, but its
argument is four times the number of threads.

The argument for the sending pipeline. The invariant has two halves. `Control` is
about the way of a failure: a failure is on record (`Known`) before any
consequence of it can be seen, before a queue is closed by anybody but its own
stage, before "queue closed" is thrown, before the main thread gets past a stage
that failed. What can be caught between its failure and the record is the stage
itself, with the entry `Fail` still in its `todo` and at most its own queue
closed (`Unrecorded`). `RootCauseIsKept` is part of it: the first to record is
never one that stumbled. `Flow` says that queues and sink hold adjacent parts of
one stream. It needs two numbers per stage that the code does not keep, items
taken and items passed on, and says that such numbers exist; the lemma of each
action names the new ones. If every stage returned normally, each has passed on
what it took and its predecessor's all, and by induction over the relays the
stream of the sink is whole (`AllOkIsWhole`). That the main thread only says so
when all returned normally is `Waiting`, in `Control`.

The argument for the receiving pipeline. The ring of operations: each of the
`MaxOps + 1` slots is in one place, active, available or in flight (`Ring`,
`Buffers`), so the active one is idle and another available while fewer than
`MaxOps` are in flight. That is `SlotsAreSafe`; with the places of the threads
(`Threads`) and the writer's (`WriterPlace`) it makes up `Base`. For the
content of files `FilesRight` follows each chunk: while a file is being written
its chunks are those on disk, under way, in waiting slots and in the current one,
in order and once (`Chain`, `Placed`, `Ordered`, `Accounted`), and when its times
are restored the writer has drained (`Ending`, `Restoring`). This is where
`close()` matters: the step in which it waits for a place for its last slot is
the one that may lose it (finding 3). It is no accident of the proof: every other
step keeps `FilesRight`, so the loss of a slot is that wait and nothing else. The
theorems say so with `NoWaitInClose` as the hypothesis, and `CloseFindsPlace` says
when it holds: a writer sends only full slots before it is closed (`Filling`), so
a file that ends with a full slot has no last one, and a file with fewer chunks
than the slots can take has a place for it. For `CompletedIsWhole` the invariant
`Order` says that some number of items has been taken by the unpacker, all before
it treated, none left out, and that an early end has a reason on record
(`WhyClosed`); `Reported` ties the report to it. The stream of items is a
concatenation by a recursive function of the library, shown to exist by induction.

The argument for the reader. That a pending read has its buffer is not inductive:
`close()` gives buffers back slot by slot and waits only where `in_flight` is
set. So a pending read must be in a slot with that flag (`Owned`), the slot
ReadFile is about to use must have its buffer and no read (`SlotIsTaken`: it was
free when the probe found it), every slot behind `close()` must be free
(`ClosedSoFar`), and the handle open until all are (`OpenUntilClosed`). Nothing
about the order of the reads is needed for this, nor about the arithmetic of the
ring except that it stays within the slots. `ElsewhereKeepsInvariant` covers the
steps that leave slots and reads alone, `FreedKeepsInvariant` those that free a
slot whose read has ended, `SystemKeepsInvariant` those of the system.

The order of the data does rest on the ring (`InOrder`). Every read in flight has
its place there, adjacent to the next in the file, and every other slot is free
but the one ReadFile is about to use (`Shape`, `Chosen`): so the probe, which
might pick any free slot, always finds the one behind the last read
(`SlotBehindIsFree`), and `read_next_chunk`, which only looks at the next slot to
consume, finds the next units of the file. What was delivered and the chunk in
hand are together what was consumed (`Data`, pieces `Units(a, n)` of the file that
are joined and cut). That an empty chunk means the end of the file, which is what
both users take it for, needs to know what each place of the code follows upon
(`Course`): `read_next_chunk` waits only with a read in flight, because it issued
one where there was none. `Blame` ties the ends to their reasons.

The budget adds sums to this: what is read ahead is a fold over the slots with a
buffer, and as for the semaphore such a sum is shown to exist and to be additive
(`SumWithout`, `SumOfSame`). While prefetching it equals `issued_bytes`, which is
a number of reads of one length or the whole file (`Prefetching`). The loop checks
the budget before a read and not the read's length, so the last read could exceed
it; it does not, because the budget is itself a number of reads or the whole file
(`NextReadFits`). A budget that is no multiple of the slot size would break it.
When a file is disposed of in its queue the guard goes last, and `close()` only
takes from the sum (`OneFreed`). Where `~OpenedFile` destroys it the guard goes
first; the theorem leaves that out by name (`Lost`), and only for a queue that has
ended: that a file is destroyed only there is what the step `Leave` and the refused
`Push` are checked and proved for.

The argument for the session. The flags the user sees are tied to where the
server thread is (`Phases`): connected exactly from the attachment to the
detachment, transferring only within that. The pending drop and the one being
sent are accepted, different and meant for the present receiver (`UnderWay`).
`AcceptedIsKept` is then preserved by `submit_paths` because it accepts only with
nothing pending. The receiver changes only where the thread is accepting, outside
those places, so there is no drop under way to be sent to the new one. Steps that
leave drops and receiver alone are covered by `QuietKeepsDrops`, those that
discard what is pending by `DiscardKeepsInvariant`.

The argument for the comparison. Three facts, each broken by faults of other
actors. (1) Nothing is lost in front of the main thread: `found`, the traversal
queue, the producer's batch, the pending batches and the batch the main thread
works on are adjacent runs of entries, without a gap (`Chain`; the batches differ
in length, so it says that a start of each batch exists). An abandoned queue
breaks the chain, but nobody behind it then ends well: `MainIsInFront` and
`TraversedFollows` hold as long as no error is on record at the side that would
notice, and `ProducerHasAll`, `MainHasAll` say what each end of a thread is worth:
pending is closed only by its producer, so a main thread that finds it closed and
joins a producer without an error has all that was found. (2) The answer fits:
at most one question or answer is on its way, and it is about the batch in hand
(`OneQuestion`, `AnswerFits`). (3) Behind the main thread numbers and entries
fit: an entry has as number the count of wanted entries in front of it
(`NumbersFit`, with `UpTo`), and each number given out is emitted or on its way
(`NoneMissing`). On top of this the numbers in the queue ascend behind those that
have arrived, and none comes a second time (`NumbersAscend`): so the least number
an opener holds, once its queue is drained, is the one it waits for (`NoGap`).
Counting tells two wanted entries apart (`NumbersGrow`), hence
what is emitted by number is in order with none passed over (`NumbersTell`).
`EndIsTrue` ties both reports to the end of the main thread and of the opener.

The argument for the socket. `WireIsInOrder` speaks of what arrived, and the
invariant (`SinkInv`) says where the rest is: while the connection holds, what was
accepted is what is on the wire and behind it one thing only, the frame in flight
or the one buffer that is not empty (`InOrder`, `Waiting`). That it is one thing
rests on three facts. Whoever puts something behind a buffer has this buffer
flushed before, in the same call (`FlushedFirst`), and nobody comes in between,
because only the holder of `send_mutex` has anything left to do with the buffers
(`PhaseFits`). A frame is what its step flushes, and stays so until it is written
(`FrameFits`). A message is flushed before the main thread does anything else, so
the next one finds both buffers empty and has room (`RoomLeft`). When the connection is lost nothing follows what is missing, so the
wire stays a beginning of what was accepted. The end event is the last: it is
accepted when the writing thread is through (`EndIsLast`, `CallsFit`), and by then
every write is among what was accepted (`AllCounted`).

The argument for the level. A reversal doubles the cooldown, and comes no earlier
than the old cooldown after the last decision. So the cooldown can only double as
fast as the time of the last decision does, `cooldown <= lastAdjusted + 1`, and
each decision is paid for with at least one kBaseCooldown, `decisions <=
lastAdjusted + 1`. Small steps need `lastTarget = level`: the minimum a reversal
takes is then over two neighbouring levels. Nothing holds the level given with
`-l` to the bounds; the first decision takes it there, in one step of any size, and
both theorems say so.

Only model-checked: liveness (the prover has no fairness rules here), and
`NoStrandedWaiter` and the refinement of `Channel` for several producers or
consumers. `WaitIsServed` with one file open at a time, and `RestoredIsWritten` and `CompletedIsWhole`
without a hypothesis, are false (for the latter see finding 3).

## 5. Abstractions

- An item in a pipeline is a number; bytes, names, paths and formats are left
  out. A tar block, a zstd frame and a queue item are the same thing: the stages
  are one in, one out, with a trailer at the end.
- What a transfer may read ahead is a budget shared by all files; OverlappedReader
  has the share of one file, and SendPipeline its waiting. A single request always
  fits: the smallest budget (`-r`) is 64 MiB, and a file asks for 12 MiB at most.
- The adaptive level changes nothing a later stage could notice, so AdaptiveLevel
  stands alone.
- FileByteSource connects no slot to the cancel event: in the instances only the
  reader of an opened file is cancelled.
- In FileComparison the stages behind the comparison are one actor that fails as
  packer or writer do. A failure of the opener is excluded: it leaves its input
  queue open, and the main thread waits in its push for ever (finding 1).
- A cancellation of a local pack is one of the interface: `core.hpp:42` takes a
  CancelEvent, and no caller in the repository passes one.
- Budgets of the packer and the compressor in bytes are left out. They never
  limit: `config.cpp:41` makes them at least as large as the queue, and
  libarchive and zstd hand out smaller pieces than they are computed for.
- Permits are units: a file takes one of each semaphore.
- Each module has one failure per stage and no retry, as the code.
- Objects are never destroyed: what a destructor does while others still use the
  object is listed under the hazards and not modelled.
- libarchive is external: at the end of its input it reports the end of the
  archive between two files and an error inside one. Exceptions thrown in its
  callbacks are taken to reach the caller.
- A data race on a plain bool (`cancel_requested_` at `writer.cpp:203`) is read
  as either value: both orders of the steps are there.

## 6. Findings

1. `send_stage_failure`: a stage in the middle that fails leaves its input queue
   open, its producer parked, and the main thread waiting.
2. `sink_cancel_stalled`: cancellation joins the keepalive thread before it closes
   the socket, and with a peer that stops reading it never gets there.
3. `receive_last_slot`: `BufferedFileWriter::close()` can lose the last slot of a
   file and report success.

`PROJECT.json` quotes what the documentation says of each. The rest was met while
modelling and has no run of its own:

- Files left in a closed queue keep their guards: with a failing writer and one
  permit a relay that waits for the permit is never told, and the transfer hangs
  (`SendPipeline`; the instances give failing writers enough permits).
- A drop accepted between the failed connection check and the reset of the
  pending drop is discarded silently (`Detach` in `GuiSendServer`).
- A cancelled local unpack may be reported as a damaged archive, because the
  decompressor closes the queue before the unpacker has looked at the flag
  (`Judge` in `ReceivePipeline`).
- With file comparison a failure behind the comparison reaches the main thread
  through a closed queue, and `orchestration.cpp:533` throws what it finds there:
  the report says "queue closed" and not the cause that PipelineState has kept.
- ZstdCompressor passes no `active_level` to its controller (`zstd.cpp:169`), so
  the level shown as "lvl" (`orchestration.cpp:80`) never changes.
- The level goes up when the queue in front is full whatever the one behind looks
  like; `Design.md:116` describes it otherwise, `Implementation.md:317` as it is.
- A directory gets its times when its entry is read (`tar.cpp:371`), and the files
  made in it afterwards change its time of last write again.
- `FileTraverser::traverse` throws for an empty list of roots, and for a
  cancellation, before its try block (`filesystem.cpp:262`) and leaves its queue
  open; after a cancellation a slot abandons it (`Traverse` in `FileComparison`).
- A file that is destroyed rather than disposed of gives its share of the read
  budget back while reads into its buffers are in flight, because `prefetch_guard`
  is declared after `reader` (`filesystem.hpp:64`); a prefetch that fails does the
  same. Both only when the transfer is ending (`OverlappedReader`).
- `Design.md:115` and `:238`, `Implementation.md:313` and `:378` say that `-l`
  fixes the level; `adaptive_enabled` (`zstd.cpp:163`) is computed and never used,
  so the controller changes a fixed level as well (`AdaptiveLevel`).
- After the end of the transport was sent, `check_connection` can still fail the
  transfer on the sender's side, with the receiver complete (`Report`, `Conclude`).

## 7. Not modelled

- Links and other special entries, which the unpacker skips; libarchive.
- BufferPool, a free list under one mutex: which buffer is handed out matters to
  nobody. TransferProgress: counters for display. The protocol's text and the
  options: pure functions, tested directly. Windows helpers, the windows of the
  GUI, and entry points.
- Lifetime of objects: what is destroyed while a coroutine, a slot of the cancel
  event or the system still uses it. The hazards name three places.
- Archives with more data behind the end mark than `tar_queue` holds (concatenated
  archives) stop the input thread for ever, since the unpacker does not drain the
  queue: the assumption on `Padding` excludes them.

## 8. Plan

Lifetime: an owner for each object that a coroutine or a slot refers to, and
"nothing is used after its owner is gone" for the ways out of
`listen_directory_task`.
