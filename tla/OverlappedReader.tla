-------------------------- MODULE OverlappedReader --------------------------
(***************************************************************************)
(* OverlappedFileReader (detail/io.cpp): a file read front to back with a  *)
(* ring of overlapped reads, and its two users:                            *)
(*                                                                         *)
(*   "packer"  an opened file: it waits for FilePrefetcher, which takes a  *)
(*             budget and starts the first reads, waits for the packer,    *)
(*             and is read chunk by chunk (TarPacker::add_entry); or it is *)
(*             lost with its queue                                         *)
(*   "source"  FileByteSource, the input of unpacking, which starts reads  *)
(*             in all slots at once and copies out whatever length it is   *)
(*             asked for                                                   *)
(*                                                                         *)
(* The system completes reads in any order. Sizes and offsets count units, *)
(* and the content of a file is the offset of each unit.                   *)
(***************************************************************************)
EXTENDS Naturals, Sequences, SequencesExt, FiniteSetsExt

CONSTANTS Depth,        (* kOverlappedFileReadQueueDepth                   *)
          MaxSlots,     (* tuning.reader_slots.max_slots                   *)
          SlotSize,     (* max_slot_bytes, and the chunks of a source      *)
          Asked,        (* the lengths a source is asked for               *)
          Scenarios     (* user, size of the file, and what may go wrong   *)

ASSUME ReaderAssumption ==
  /\ Depth \in Nat \ {0} /\ MaxSlots \in Nat \ {0} /\ SlotSize \in Nat \ {0}
  /\ Asked \subseteq Nat \ {0}
  /\ Scenarios \subseteq [user : {"packer", "source"}, size : Nat, cancel : BOOLEAN,
                          fault : {"none", "issue", "read", "short", "drop"}]

Slot == 0 .. Depth - 1

VARIABLES
  scenario,     (* fixed                                                   *)
  op,           (* op[s]: what the system does with the read of slot s     *)
  slot,         (* slot[s]: in_flight, buffer, offset, length              *)
  ring,         (* issueOffset, toIssue, toConsume, inFlight, offset       *)
  open,         (* the file handle                                         *)
  pc,           (* where the reader is on its way                          *)
  then,         (* where issue_next_read returns to                        *)
  issued,       (* issued_bytes                                            *)
  at,           (* the slot a read is issued to, or close() is at          *)
  chunk,        (* the chunk in hand                                       *)
  wanted,       (* what a source still has to copy in this call            *)
  copied,       (* copied_total                                            *)
  delivered,    (* what the user of the reader got                         *)
  guard,        (* budget the file holds                                   *)
  queue,        (* status_ of prefetched_queue                             *)
  cancel,       (* 0, 1 emitted, 2 cancel_requested set, 3 CancelIoEx done *)
  outcome       (* "none", or why it was closed                            *)

user == <<chunk, wanted, copied, delivered, guard>>
vars == <<scenario, op, slot, ring, open, pc, then, issued, at, user, queue, cancel, outcome>>

Free == [inFlight |-> FALSE, buffer |-> FALSE, offset |-> 0, length |-> 0]
Source == scenario.user = "source"
Emitted == cancel > 0
CancelRequested == cancel > 1
Smaller(a, b) == IF a < b THEN a ELSE b

(* reader_buffer_size, kFileByteSourceChunkSize.                           *)
ChunkSize == IF Source THEN SlotSize ELSE Smaller(scenario.size, SlotSize)

(* compute_prefetch_bytes, and what FileByteSource asks for.               *)
PrefetchBytes == IF Source THEN SlotSize * Depth ELSE Smaller(scenario.size, MaxSlots * SlotSize)

Init ==
  /\ scenario \in Scenarios
  /\ op = [s \in Slot |-> "none"] /\ slot = [s \in Slot |-> Free]
  /\ ring = [issueOffset |-> 0, toIssue |-> 0, toConsume |-> 0, inFlight |-> 0, offset |-> 0]
  /\ open = TRUE
  /\ pc = IF Source THEN "prime" ELSE "opened"
  /\ then = "prime" /\ issued = 0 /\ at = 0
  /\ chunk = <<>> /\ wanted = 0 /\ copied = 0 /\ delivered = <<>> /\ guard = 0
  /\ queue = "open"
  /\ cancel = 0 /\ outcome = "none"

(* Definitions named ..._Fault are seeded faults: what the definition that *)
(* follows would be if the code had a plausible bug. Nothing uses them.    *)

(* The reader is let go of by an exception or with the struct that holds   *)
(* it: the guard of a file, a later member or a local, goes before it.     *)
Throw(how) == pc' = "close" /\ at' = 0 /\ outcome' = how /\ guard' = 0

(* Dispose(): the guard goes after the reader, with CloseHandle.           *)
Dispose_Fault == Throw("disposed")
Dispose == pc' = "close" /\ at' = 0 /\ outcome' = "disposed" /\ UNCHANGED guard

(***************************************************************************)
(* FilePrefetcher::prefetch, and start_prefetch.                           *)
(***************************************************************************)
Prefetch ==
  /\ pc = "opened"
  /\ \/ Emitted /\ Throw("cancelled")
     \/ /\ ~Emitted
        /\ guard' = PrefetchBytes
        /\ pc' = IF scenario.size = 0 THEN "push" ELSE "prime"
        /\ UNCHANGED <<at, outcome>>
  /\ UNCHANGED <<scenario, op, slot, ring, open, then, issued, chunk, wanted, copied,
                 delivered, queue, cancel>>

AfterPrefetch == IF Source THEN "call" ELSE "push"

(* prime_prefetch_window: reads until the budget is used or the ring full. *)
PrefetchedEnough == issued >= PrefetchBytes

Prime ==
  /\ pc = "prime"
  /\ IF CancelRequested /\ issued = 0
     THEN Throw("cancelled") /\ UNCHANGED then
     ELSE /\ IF PrefetchedEnough \/ ring.inFlight >= Depth
             THEN pc' = AfterPrefetch /\ UNCHANGED then
             ELSE pc' = "issue" /\ then' = "prime"
          /\ UNCHANGED <<at, guard, outcome>>
  /\ UNCHANGED <<scenario, op, slot, ring, open, issued, chunk, wanted, copied,
                 delivered, queue, cancel>>

(***************************************************************************)
(* issue_next_read: a slot and its buffer, then ReadFile.                  *)
(***************************************************************************)
Length == Smaller(ChunkSize, scenario.size - ring.issueOffset)

(* The slots that are free, as distances from next_slot_to_issue.          *)
Probes == {p \in Slot : LET s == slot[(ring.toIssue + p) % Depth] IN ~s.inFlight /\ ~s.buffer}

NothingIssued_Fault == then
NothingIssued == IF then = "prime" THEN AfterPrefetch ELSE then

NextSlot_Fault(s) == s + 1
NextSlot(s) == (s + 1) % Depth

Issue ==
  /\ pc = "issue"
  /\ IF CancelRequested THEN Throw("cancelled") /\ UNCHANGED slot
     ELSE IF ring.issueOffset >= scenario.size \/ ring.inFlight >= Depth \/ Probes = {}
     THEN /\ pc' = NothingIssued
          /\ UNCHANGED <<slot, at, guard, outcome>>
     ELSE /\ at' = (ring.toIssue + Min(Probes)) % Depth
          /\ slot' = [slot EXCEPT ![at'] = [inFlight |-> FALSE, buffer |-> TRUE,
                                            offset |-> ring.issueOffset, length |-> Length]]
          /\ pc' = "readFile"
          /\ UNCHANGED <<guard, outcome>>
  /\ UNCHANGED <<scenario, op, ring, open, then, issued, chunk, wanted, copied,
                 delivered, queue, cancel>>

ReadFile ==
  /\ pc = "readFile"
  /\ \/ /\ op' = [op EXCEPT ![at] = "pending"]
        /\ slot' = [slot EXCEPT ![at].inFlight = TRUE]
        /\ ring' = [ring EXCEPT !.toIssue = NextSlot(at), !.issueOffset = @ + slot[at].length,
                                !.inFlight = @ + 1]
        /\ issued' = IF then = "prime" THEN issued + slot[at].length ELSE issued
        /\ pc' = then
        /\ UNCHANGED <<at, guard, outcome>>
     \/ /\ scenario.fault = "issue"
        /\ slot' = [slot EXCEPT ![at] = Free]
        /\ Throw("failed")
        /\ UNCHANGED <<op, ring, issued>>
  /\ UNCHANGED <<scenario, open, then, chunk, wanted, copied, delivered, queue, cancel>>

(* The system: a read ends, in any order, in full or not.                  *)
Complete ==
  /\ \E s \in Slot :
       /\ op[s] = "pending"
       /\ \/ op' = [op EXCEPT ![s] = "ok"]
          \/ scenario.fault \in {"read", "short"} /\ op' = [op EXCEPT ![s] = scenario.fault]
  /\ UNCHANGED <<scenario, slot, ring, open, pc, then, issued, at, user, queue, cancel, outcome>>

(***************************************************************************)
(* read_next_chunk.                                                        *)
(***************************************************************************)
Eof == ring.offset >= scenario.size

Read ==
  /\ pc = "read"
  /\ \/ CancelRequested /\ Throw("cancelled") /\ UNCHANGED <<then, chunk>>
     \/ /\ ~CancelRequested /\ Eof
        /\ chunk' = <<>> /\ pc' = "deliver"
        /\ UNCHANGED <<at, guard, outcome, then>>
     \/ /\ ~CancelRequested /\ ~Eof
        /\ IF ring.inFlight = 0 THEN pc' = "issue" /\ then' = "consume"
           ELSE pc' = "consume" /\ UNCHANGED then
        /\ UNCHANGED <<at, guard, outcome, chunk>>
  /\ UNCHANGED <<scenario, op, slot, ring, open, issued, wanted, copied, delivered,
                 queue, cancel>>

NextToConsume_Fault ==
  LET done == {s \in Slot : op[s] \notin {"none", "pending"}}
  IN  IF done = {} THEN ring.toConsume ELSE Min(done)
NextToConsume == ring.toConsume

(* What GetOverlappedResult has to say of a read that is not a success.    *)
Verdict(result) == IF result = "aborted" /\ CancelRequested THEN "cancelled" ELSE "failed"

(* The wait for the read of the slot, and what comes of it.                *)
Consume ==
  /\ pc = "consume"
  /\ IF ring.inFlight = 0
     THEN chunk' = <<>> /\ pc' = "deliver" /\ UNCHANGED <<op, slot, ring, then, at, guard, outcome>>
     ELSE LET s == NextToConsume
          IN  /\ op[s] # "pending"
              /\ op' = [op EXCEPT ![s] = "none"]
              /\ slot' = [slot EXCEPT ![s] = Free]
              /\ IF ~slot[s].inFlight \/ op[s] \in {"read", "aborted"}
                 THEN Throw(Verdict(op[s])) /\ UNCHANGED <<ring, then, chunk>>
                 ELSE LET taken == [ring EXCEPT !.toConsume = NextSlot(@), !.inFlight = @ - 1]
                          after == slot[s].offset + slot[s].length
                      IN  IF op[s] = "short"
                          THEN ring' = taken /\ Throw("failed") /\ UNCHANGED <<then, chunk>>
                          ELSE /\ ring' = [taken EXCEPT !.offset = after]
                               /\ chunk' = [k \in 1 .. slot[s].length |-> slot[s].offset + k - 1]
                               /\ pc' = IF after < scenario.size THEN "issue" ELSE "deliver"
                               /\ then' = "deliver"
                               /\ UNCHANGED <<at, guard, outcome>>
  /\ UNCHANGED <<scenario, open, issued, wanted, copied, delivered, queue, cancel>>

(***************************************************************************)
(* The file on its way to the packer. A push to a queue that has ended is  *)
(* refused, and the value destroyed; one to a full queue is parked.        *)
(***************************************************************************)
Push ==
  /\ pc = "push"
  /\ IF queue # "open" THEN Throw("destroyed")
     ELSE pc' \in {"parked", "queued"} /\ UNCHANGED <<at, guard, outcome>>

Promote == pc = "parked" /\ pc' = "queued" /\ UNCHANGED <<at, guard, outcome>>

(* A file that nobody took goes with the closed queue, when a transfer     *)
(* that failed unwinds.                                                    *)
Leave == pc = "queued" /\ queue = "closed" /\ Throw("destroyed")

InQueue ==
  /\ Push \/ Promote \/ Leave
  /\ UNCHANGED <<scenario, op, slot, ring, open, then, issued, chunk, wanted, copied, delivered,
                 queue, cancel>>

(* A stage that fails closes the queue: a parked file is disposed of, one  *)
(* in the queue stays there for the packer.                                *)
CloseQueue ==
  /\ scenario.fault = "drop" /\ queue = "open" /\ queue' = "closed"
  /\ IF pc = "parked" THEN Dispose ELSE UNCHANGED <<pc, at, guard, outcome>>

(* A cancellation abandons it, and disposes of both.                       *)
AbandonQueue ==
  /\ Emitted /\ queue # "abandoned" /\ queue' = "abandoned"
  /\ IF pc \in {"parked", "queued"} THEN Dispose ELSE UNCHANGED <<pc, at, guard, outcome>>

EndQueue ==
  /\ ~Source /\ pc # "closed" /\ (CloseQueue \/ AbandonQueue)
  /\ UNCHANGED <<scenario, op, slot, ring, open, then, issued, chunk, wanted, copied,
                 delivered, cancel>>

(* The file is lost before it has a budget; or the packer cannot write     *)
(* what it read.                                                           *)
Drop ==
  /\ \/ pc = "opened" /\ (Emitted \/ scenario.fault = "drop") /\ Dispose
     \/ pc = "entry" /\ scenario.fault = "drop" /\ Throw("stopped")
  /\ UNCHANGED <<scenario, op, slot, ring, open, then, issued, chunk, wanted, copied, delivered,
                 queue, cancel>>

(***************************************************************************)
(* TarPacker: the guard goes back at once, then chunk after chunk.         *)
(***************************************************************************)
Take ==
  /\ pc = "queued"
  /\ IF Emitted THEN Throw("cancelled")
     ELSE guard' = 0 /\ pc' = "entry" /\ UNCHANGED <<at, outcome>>
  /\ UNCHANGED <<scenario, op, slot, ring, open, then, issued, chunk, wanted, copied,
                 delivered, queue, cancel>>

AddEntry ==
  /\ pc = "entry"
  /\ IF Eof THEN Throw("done")
     ELSE IF Emitted THEN Throw("cancelled")
     ELSE pc' = "read" /\ UNCHANGED <<at, guard, outcome>>
  /\ UNCHANGED <<scenario, op, slot, ring, open, then, issued, chunk, wanted, copied,
                 delivered, queue, cancel>>

Deliver ==
  /\ pc = "deliver" /\ ~Source
  /\ IF chunk = <<>> THEN Throw("failed") /\ UNCHANGED delivered
     ELSE /\ delivered' = delivered \o chunk
          /\ pc' = "entry"
          /\ UNCHANGED <<at, guard, outcome>>
  /\ chunk' = <<>>
  /\ UNCHANGED <<scenario, op, slot, ring, open, then, issued, wanted, copied, queue, cancel>>

(***************************************************************************)
(* FileByteSource::read, called until it returns nothing.                  *)
(***************************************************************************)
Call ==
  /\ pc = "call"
  /\ \/ /\ wanted' \in Asked /\ copied' = 0
        /\ pc' = IF chunk = <<>> THEN "read" ELSE "copy"
        /\ UNCHANGED <<at, guard, outcome>>
     \/ scenario.fault = "drop" /\ Throw("stopped") /\ UNCHANGED <<wanted, copied>>
  /\ UNCHANGED <<scenario, op, slot, ring, open, then, issued, chunk, delivered, queue, cancel>>

Returns ==
  IF copied' = 0 THEN Throw("done") ELSE pc' = "call" /\ UNCHANGED <<at, guard, outcome>>

Copy ==
  /\ Source /\ pc \in {"deliver", "copy"}
  /\ LET n == Smaller(Len(chunk), wanted)
     IN  /\ delivered' = delivered \o SubSeq(chunk, 1, n)
         /\ chunk' = SubSeq(chunk, n + 1, Len(chunk))
         /\ copied' = copied + n
         /\ wanted' = wanted - n
         /\ IF n = 0 \/ wanted' = 0 THEN Returns
            ELSE pc' = "read" /\ UNCHANGED <<at, guard, outcome>>
  /\ UNCHANGED <<scenario, op, slot, ring, open, then, issued, queue, cancel>>

(***************************************************************************)
(* close(): slot by slot, CancelIoEx and the wait for the read; then the   *)
(* handle.                                                                 *)
(***************************************************************************)
AbortOrNot(ops, s) == {ops, [ops EXCEPT ![s] = IF @ = "pending" THEN "aborted" ELSE @]}

CloseSlot ==
  /\ pc = "close" /\ at \in Slot
  /\ IF slot[at].inFlight
     THEN op' \in AbortOrNot(op, at) /\ pc' = "closeWait" /\ UNCHANGED <<slot, at>>
     ELSE slot' = [slot EXCEPT ![at] = Free] /\ at' = at + 1 /\ UNCHANGED <<op, pc>>
  /\ UNCHANGED <<scenario, ring, open, then, issued, user, queue, cancel, outcome>>

MayRelease_Fault(s) == TRUE
MayRelease(s) == op[s] # "pending"

CloseWait ==
  /\ pc = "closeWait" /\ MayRelease(at)
  /\ slot' = [slot EXCEPT ![at] = Free]
  /\ at' = at + 1
  /\ pc' = "close"
  /\ UNCHANGED <<scenario, op, ring, open, then, issued, user, queue, cancel, outcome>>

CloseHandle ==
  /\ pc = "close" /\ at = Depth
  /\ open' = FALSE /\ guard' = 0 /\ pc' = "closed"
  /\ UNCHANGED <<scenario, op, slot, ring, then, issued, at, chunk, wanted, copied, delivered,
                 queue, cancel, outcome>>

(***************************************************************************)
(* Cancellation of a transfer: the flag of the event, that of the reader,  *)
(* and CancelIoEx, which aborts some of the reads in flight.               *)
(***************************************************************************)
Cancel ==
  /\ scenario.cancel /\ cancel = 0 /\ pc # "closed"
  /\ cancel' = 1
  /\ UNCHANGED <<scenario, op, slot, ring, open, pc, then, issued, at, user, queue, outcome>>

RequestCancel == cancel = 1 /\ cancel' = 2 /\ UNCHANGED op

CancelIo ==
  /\ cancel = 2 /\ cancel' = 3
  /\ IF open
     THEN \E done \in SUBSET {s \in Slot : op[s] = "pending"} :
            op' = [s \in Slot |-> IF s \in done THEN "aborted" ELSE op[s]]
     ELSE UNCHANGED op

CancelReader ==
  /\ RequestCancel \/ CancelIo
  /\ UNCHANGED <<scenario, slot, ring, open, pc, then, issued, at, user, queue, outcome>>

Finished == pc = "closed" /\ UNCHANGED vars

UserStep ==
  \/ Prefetch \/ Prime \/ Issue \/ ReadFile \/ Read \/ Consume
  \/ InQueue \/ Take \/ AddEntry \/ Deliver \/ Call \/ Copy
  \/ CloseSlot \/ CloseWait \/ CloseHandle

Next == UserStep \/ Complete \/ EndQueue \/ Drop \/ Cancel \/ CancelReader \/ Finished

(* Threads run, reads end, and emit() runs its slot.                       *)
Fairness == WF_vars(UserStep) /\ WF_vars(Complete) /\ WF_vars(CancelReader)

Spec == Init /\ [][Next]_vars
FairSpec == Spec /\ Fairness

(***************************************************************************)
(* Properties.                                                             *)
(***************************************************************************)
Working == pc \notin {"close", "closeWait", "closed"}

(* The j-th read in flight, counted from next_slot_to_consume.             *)
InRing(j) == slot[(ring.toConsume + j) % Depth]

(* Every variable has its type, and the ring its shape: the reads in       *)
(* flight are those from next_slot_to_consume on, one behind the other in  *)
(* the file, from offset to next_issue_offset.                             *)
TypeOK ==
  /\ scenario \in Scenarios
  /\ op \in [Slot -> {"none", "pending", "ok", "short", "read", "aborted"}]
  /\ slot \in [Slot -> [inFlight : BOOLEAN, buffer : BOOLEAN,
                        offset : 0 .. scenario.size, length : 0 .. SlotSize]]
  /\ ring \in [issueOffset : 0 .. scenario.size, toIssue : Slot, toConsume : Slot,
               inFlight : 0 .. Depth, offset : 0 .. scenario.size]
  /\ pc \in {"opened", "push", "parked", "queued", "prime", "issue", "readFile", "entry", "call",
            "read", "consume", "deliver", "copy", "close", "closeWait", "closed"}
  /\ then \in {"prime", "consume", "deliver"} /\ at \in 0 .. Depth
  /\ issued \in Nat /\ wanted \in Nat /\ copied \in Nat /\ guard \in Nat
  /\ open \in BOOLEAN /\ cancel \in 0 .. 3
  /\ outcome \in {"none", "done", "cancelled", "failed", "disposed", "destroyed", "stopped"}
  /\ queue \in {"open", "closed", "abandoned"}
  /\ Working =>
       /\ ring.toIssue = (ring.toConsume + ring.inFlight) % Depth
       /\ \A j \in 0 .. ring.inFlight - 1 :
            /\ InRing(j).inFlight
            /\ InRing(j).offset + InRing(j).length =
                 IF j = ring.inFlight - 1 THEN ring.issueOffset ELSE InRing(j + 1).offset
            /\ j = 0 => InRing(j).offset = ring.offset
       /\ ring.inFlight = 0 => ring.offset = ring.issueOffset
       /\ {s \in Slot : slot[s].inFlight} = {(ring.toConsume + j) % Depth : j \in 0 .. ring.inFlight - 1}

(* In whatever order the system completes the reads, the user gets the     *)
(* units of the file one after the other, and when it thinks that this was *)
(* the end, all of them; and it only hears of a failed read when the       *)
(* system failed one, not when a cancellation aborted it.                  *)
DeliveredInOrder ==
  /\ delivered = [k \in 1 .. Len(delivered) |-> k - 1]
  /\ outcome = "done" => Len(delivered) = scenario.size
  /\ outcome = "failed" => scenario.fault \in {"issue", "read", "short"}

(* The system never writes to a buffer that was given back, and never      *)
(* reads from a handle that was closed: whatever made the user let go.     *)
BuffersAreOwned == \A s \in Slot : op[s] = "pending" => slot[s].buffer /\ open

(* While a file waits for the packer, and while it is disposed of in the   *)
(* queue, the bytes the system reads ahead for it are covered by the       *)
(* budget it holds, and the budget is no more than one file may take. A    *)
(* file that is destroyed instead (a push that is refused, a file left in  *)
(* a closed queue) gives the budget back with reads in flight, as one does *)
(* whose prefetch fails. But then the queue has ended, and with it the     *)
(* transfer.                                                               *)
Lost == outcome = "disposed" \/ (outcome = "destroyed" /\ queue = "open")

Waiting == ~Source /\ (pc \in {"push", "parked", "queued"}
                       \/ (pc \in {"prime", "issue", "readFile"} /\ then = "prime")
                       \/ (pc \in {"close", "closeWait"} /\ Lost))

ReadAhead == FoldSet(LAMBDA s, sum : sum + slot[s].length, 0, {s \in Slot : slot[s].buffer})

BudgetCoversReads == Waiting => ReadAhead <= guard /\ guard <= MaxSlots * SlotSize

(* Every reader is closed in the end: nobody waits for a read that was not *)
(* issued, and close() waits for no read that does not end.                *)
ReadersEnd == <>(pc = "closed")

=============================================================================
