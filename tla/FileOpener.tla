----------------------------- MODULE FileOpener -----------------------------
(***************************************************************************)
(* FileOpener::open of filesystem.cpp: the coroutine that turns traversed  *)
(* entries into opened files. Regular files are opened by tasks on the     *)
(* thread pool, several at once, each under a permit of open_slots_ that   *)
(* the opened file keeps until it has been packed; results are emitted in  *)
(* traversal order. The coroutine runs on the same pool as the tasks, and  *)
(* emit_ready(true) blocks its thread in future.get().                     *)
(*                                                                         *)
(* Entries are numbered in traversal order, and handler Opener (0) of the  *)
(* pool is the coroutine itself, handler n the task that opens entry n.    *)
(* Every co_await posts the coroutine when its result is there, so the     *)
(* coroutine runs from one co_await to the next; the steps within a run    *)
(* are separate because the tasks run meanwhile. The two queues and the    *)
(* stages around the opener are reduced to what the opener sees of them: a *)
(* stage behind it goes on taking files here until it is cancelled (what a *)
(* failure there does to the permits is in SendPipeline).                  *)
(***************************************************************************)
EXTENDS Naturals, Sequences, FiniteSetsExt

CONSTANTS Entries,        (* bound: entries the traverser finds            *)
          Concurrency,    (* tuning_.file_open_concurrency                 *)
          OutCapacity,    (* capacity of out_opened                        *)
          InCapacity,     (* capacity of in_entries                        *)
          DownCapacity,   (* opened files the stages behind out_opened hold*)
          WorkerCounts    (* pool sizes to consider                        *)

ASSUME OpenerAssumption ==
  /\ Entries \in Nat
  /\ Concurrency \in Nat \ {0}
  /\ OutCapacity \in Nat \ {0}
  /\ InCapacity \in Nat \ {0}
  /\ DownCapacity \in Nat \ {0}
  /\ WorkerCounts \subseteq Nat \ {0}

(* Definitions named ..._Fault are seeded faults: what the definition that *)
(* follows would be if the code had a plausible bug. Nothing uses them.    *)

Opener == 0
Sequences_ == 1 .. Entries

VARIABLES
  workers,      (* threads of the pool, fixed                              *)
  regular,      (* the entries that are regular files, fixed               *)
  tasks,        (* handlers posted to the pool, in the order posted        *)
  running,      (* handlers that occupy a thread                           *)
  arrived,      (* entries pushed to in_entries                            *)
  taken,        (* entries popped from it                                  *)
  inStatus,     (* status of in_entries                                    *)
  inParked,     (* the coroutine is parked in its async_pop                *)
  at,           (* where the coroutine is, or resumes                      *)
  waiting,      (* wait_for_next of the current emit_ready                 *)
  ended,        (* the entry loop is over                                  *)
  pending,      (* keys of pending_results                                 *)
  future,       (* state of each entry's future                            *)
  ready,        (* keys of ready_results                                   *)
  next,         (* next_emit_sequence                                      *)
  out,          (* out_opened                                              *)
  outParked,    (* the coroutine is parked in its async_push               *)
  outStatus,    (* status of out_opened                                    *)
  slots,        (* permits available in open_slots_                        *)
  slotParked,   (* the coroutine is parked in open_slots_.acquire          *)
  guards,       (* entries whose open_guard is alive                       *)
  down,         (* opened files the next stages hold, oldest first         *)
  packed,       (* number of opened files the packer is through with       *)
  cancel        (* slots of the cancel event run so far, 4 when all are    *)

vars == <<workers, regular, tasks, running, arrived, taken, inStatus, inParked, at,
          waiting, ended, pending, future, ready, next, out, outParked, outStatus,
          slots, slotParked, guards, down, packed, cancel>>

fixed == <<workers, regular>>
input == <<arrived, inStatus>>
output == <<out, outParked, outStatus, down, packed>>
sems == <<slots, slotParked, guards>>
results == <<pending, future, ready, next>>

Cancelled == cancel > 0

HasResult(n) == future[n] \in {"ok", "failed"}

Init ==
  /\ workers \in WorkerCounts
  /\ regular \in SUBSET Sequences_
  /\ tasks = <<Opener>> /\ running = {}
  /\ arrived = 0 /\ taken = 0 /\ inStatus = "Open" /\ inParked = FALSE
  /\ at = "next" /\ waiting = FALSE /\ ended = FALSE
  /\ pending = {} /\ future = [n \in Sequences_ |-> "none"] /\ ready = {} /\ next = 1
  /\ out = <<>> /\ outParked = FALSE /\ outStatus = "Open"
  /\ slots = Concurrency /\ slotParked = FALSE /\ guards = {}
  /\ down = <<>> /\ packed = 0
  /\ cancel = 0

(***************************************************************************)
(* The pool: a thread that is free takes the oldest handler.               *)
(***************************************************************************)
Dispatch_Fault ==
  /\ tasks # <<>> /\ Cardinality(running) <= workers
  /\ running' = running \cup {Head(tasks)}
  /\ tasks' = Tail(tasks)
  /\ UNCHANGED <<fixed, input, taken, inParked, at, waiting, ended, results,
                 output, sems, cancel>>

Dispatch ==
  /\ tasks # <<>> /\ Cardinality(running) < workers
  /\ running' = running \cup {Head(tasks)}
  /\ tasks' = Tail(tasks)
  /\ UNCHANGED <<fixed, input, taken, inParked, at, waiting, ended, results,
                 output, sems, cancel>>

(* The coroutine leaves its thread; resumed says whether the awaited       *)
(* result is already there, which posts the coroutine at once.             *)
Suspend(resumed) ==
  /\ running' = running \ {Opener}
  /\ tasks' = IF resumed THEN Append(tasks, Opener) ELSE tasks

(* What an awaited operation that completes elsewhere posts.               *)
ResumeAt(place) ==
  /\ tasks' = Append(tasks, Opener)
  /\ at' = place

(***************************************************************************)
(* Guards. Returning a permit goes to the parked coroutine if there is one,*)
(* which then runs with it; freed is a set of entries.                     *)
(***************************************************************************)
Free_Fault(freed) ==
  LET n == Cardinality(freed) IN
  /\ slots' = slots + n
  /\ IF slotParked /\ n > 0
     THEN guards' = (guards \ freed) \cup {taken} /\ slotParked' = FALSE
     ELSE guards' = guards \ freed /\ UNCHANGED slotParked

Free(freed) ==
  LET n == Cardinality(freed) IN
  /\ IF slotParked /\ n > 0
     THEN /\ guards' = (guards \ freed) \cup {taken}
          /\ slotParked' = FALSE
          /\ slots' = slots + n - 1
     ELSE /\ guards' = guards \ freed
          /\ slots' = slots + n
          /\ UNCHANGED slotParked

(* Whether freeing these entries resumes the coroutine.                    *)
Resumes(freed) == slotParked /\ freed # {}

FreeAndPost(freed) ==
  /\ Free(freed)
  /\ IF Resumes(freed) THEN tasks' = Append(tasks, Opener) ELSE UNCHANGED tasks

(***************************************************************************)
(* The coroutine.                                                          *)
(***************************************************************************)
At(place) == Opener \in running /\ at = place

(* The catch block: in_entries' consumer is gone, out_opened is closed, and*)
(* unwinding destroys the futures and the results that are ready.          *)
Throw ==
  LET lost == {n \in pending : future[n] = "ok"} \cup ready IN
  /\ at' = "failed"
  /\ running' = running \ {Opener}
  /\ pending' = {} /\ ready' = {}
  /\ Free(lost \cap guards)
  /\ outStatus' = IF outStatus = "Open" THEN "Closed" ELSE outStatus
  /\ UNCHANGED <<tasks, inParked, waiting, ended, future, next, out, outParked, down,
                 packed>>

(* co_await in_entries.async_pop_await()                                   *)
NextEntry ==
  /\ At("next")
  /\ \/ /\ arrived > taken
        /\ taken' = taken + 1
        /\ Suspend(TRUE)
        /\ at' = "popped"
        /\ UNCHANGED inParked
     \/ /\ arrived = taken /\ inStatus # "Open"
        /\ Suspend(TRUE)
        /\ at' = IF inStatus = "Closed" THEN "ended" ELSE "error"
        /\ UNCHANGED <<taken, inParked>>
     \/ /\ arrived = taken /\ inStatus = "Open"
        /\ inParked' = TRUE
        /\ Suspend(FALSE)
        /\ UNCHANGED <<taken, at>>
  /\ UNCHANGED <<fixed, input, waiting, ended, results, output, sems, cancel>>

(* throw_if_cancelled after the pop.                                       *)
CheckEntry ==
  /\ At("popped")
  /\ \/ /\ ~Cancelled
        /\ at' = "checked"
        /\ UNCHANGED <<running, tasks, inParked, waiting, ended, results, output, sems>>
     \/ /\ Cancelled
        /\ Throw
  /\ UNCHANGED <<fixed, input, taken, cancel>>

(* An entry that is not a regular file is ready as it is; a regular one    *)
(* needs a permit first.                                                   *)
TakeEntry ==
  /\ At("checked")
  /\ \/ /\ taken \notin regular
        /\ ready' = ready \cup {taken}
        /\ at' = "emit" /\ waiting' = FALSE
        /\ UNCHANGED <<running, tasks, sems>>
     \/ /\ taken \in regular /\ cancel = 4
        /\ at' = "error"
        /\ Suspend(TRUE)
        /\ UNCHANGED <<ready, waiting, sems>>
     \/ /\ taken \in regular /\ cancel < 4 /\ slots > 0
        /\ slots' = slots - 1
        /\ guards' = guards \cup {taken}
        /\ at' = "slot"
        /\ Suspend(TRUE)
        /\ UNCHANGED <<ready, waiting, slotParked>>
     \/ /\ taken \in regular /\ cancel < 4 /\ slots = 0
        /\ slotParked' = TRUE
        /\ at' = "slot"
        /\ Suspend(FALSE)
        /\ UNCHANGED <<ready, waiting, slots, guards>>
  /\ UNCHANGED <<fixed, input, taken, inParked, ended, pending, future, next, output,
                 cancel>>

(* With the permit in hand, the task that opens the file is submitted.     *)
Submit ==
  /\ At("slot")
  /\ tasks' = Append(tasks, taken)
  /\ pending' = pending \cup {taken}
  /\ at' = "emit" /\ waiting' = FALSE
  /\ UNCHANGED <<fixed, running, input, taken, inParked, ended, future, ready, next,
                 output, sems, cancel>>

(* emit_ready, one turn of its loop. The next result in order is ready and *)
(* is pushed ...                                                           *)
EmitReady ==
  /\ At("emit") /\ next \in ready
  /\ ready' = ready \ {next}
  /\ next' = next + 1
  /\ \/ /\ outStatus = "Open" /\ Len(out) < OutCapacity
        /\ out' = Append(out, next)
        /\ Suspend(TRUE)
        /\ UNCHANGED <<at, outParked, sems>>
     \/ /\ outStatus = "Open" /\ Len(out) >= OutCapacity
        /\ outParked' = TRUE
        /\ Suspend(FALSE)
        /\ UNCHANGED <<at, out, sems>>
     \/ /\ outStatus # "Open"
        /\ at' = "error"
        /\ Suspend(TRUE)
        /\ Free({next} \cap guards)
        /\ UNCHANGED <<out, outParked>>
  /\ UNCHANGED <<fixed, input, taken, inParked, waiting, ended, pending, future,
                 outStatus, down, packed, cancel>>

(* ... or its future is, and is collected; a failed open is rethrown.      *)
(* Without a value yet, a waiting emit_ready sits in future.get(): no step *)
(* is possible and the thread stays occupied.                              *)
CollectFuture ==
  /\ At("emit") /\ next \notin ready /\ next \in pending
  /\ \/ /\ future[next] = "ok"
        /\ pending' = pending \ {next}
        /\ ready' = ready \cup {next}
        /\ UNCHANGED <<tasks, running, inParked, at, waiting, ended, future, next,
                       output, sems>>
     \/ /\ future[next] = "failed"
        /\ Throw
  /\ UNCHANGED <<fixed, input, taken, cancel>>

(* emit_ready returns, and so may the loop that calls it.                  *)
NothingToEmit ==
  /\ next \notin ready
  /\ next \in pending => ~waiting /\ ~HasResult(next)

TooManyPending_EarlyFault == Cardinality(pending) >= Concurrency - 1
TooManyPending == Cardinality(pending) >= Concurrency

EmitDone ==
  /\ At("emit") /\ NothingToEmit
  /\ IF ended
     THEN IF pending \cup ready # {}
          THEN waiting' = TRUE /\ UNCHANGED <<at, running, outStatus>>
          ELSE /\ at' = "finished"
               /\ running' = running \ {Opener}
               /\ outStatus' = IF outStatus = "Open" THEN "Closed" ELSE outStatus
               /\ UNCHANGED waiting
     ELSE /\ IF TooManyPending
             THEN waiting' = TRUE /\ UNCHANGED at
             ELSE at' = "next" /\ UNCHANGED waiting
          /\ UNCHANGED <<running, outStatus>>
  /\ UNCHANGED <<fixed, tasks, input, taken, inParked, ended, results, out, outParked,
                 down, packed, sems, cancel>>

(* in_entries reported its end: what is left is emitted, waiting for it.   *)
DrainRest ==
  /\ At("ended")
  /\ ended' = TRUE /\ at' = "emit" /\ waiting' = TRUE
  /\ UNCHANGED <<fixed, tasks, running, input, taken, inParked, results, output, sems,
                 cancel>>

(* An awaited operation reported an error.                                 *)
OperationFailed ==
  /\ At("error")
  /\ Throw
  /\ UNCHANGED <<fixed, input, taken, cancel>>

OpenerStep ==
  NextEntry \/ CheckEntry \/ TakeEntry \/ Submit \/ EmitReady
    \/ CollectFuture \/ EmitDone \/ DrainRest \/ OperationFailed

(***************************************************************************)
(* A task: open_regular_file. It throws on a Win32 error, or because of    *)
(* cancellation until its last check of the event, and then its guard goes *)
(* with it. A result whose future is gone is destroyed, guard included.    *)
(***************************************************************************)
OpenChecked(n) ==
  /\ n \in running /\ future[n] = "none" /\ ~Cancelled
  /\ future' = [future EXCEPT ![n] = "checked"]
  /\ UNCHANGED <<running, tasks, sems>>

OpenDone(n) ==
  /\ n \in running /\ future[n] = "checked"
  /\ future' = [future EXCEPT ![n] = "ok"]
  /\ running' = running \ {n}
  /\ FreeAndPost(IF n \in pending THEN {} ELSE {n})

OpenThrows(n) ==
  /\ n \in running /\ future[n] = "none"
  /\ future' = [future EXCEPT ![n] = "failed"]
  /\ running' = running \ {n}
  /\ FreeAndPost({n})

OpenTask(n) ==
  /\ OpenChecked(n) \/ OpenDone(n) \/ OpenThrows(n)
  /\ UNCHANGED <<fixed, input, taken, inParked, at, waiting, ended, pending, ready,
                 next, output, cancel>>

(***************************************************************************)
(* The stages around: the traverser pushes entries and closes in_entries;  *)
(* prefetcher and packer take opened files and drop them when packed.      *)
(***************************************************************************)
Arrive ==
  /\ inStatus = "Open" /\ arrived < Entries /\ arrived - taken < InCapacity
  /\ arrived' = arrived + 1
  /\ IF inParked
     THEN /\ inParked' = FALSE
          /\ taken' = taken + 1
          /\ ResumeAt("popped")
     ELSE UNCHANGED <<inParked, taken, tasks, at>>
  /\ UNCHANGED <<fixed, running, inStatus, waiting, ended, results, output, sems,
                 cancel>>

EndInput_Fault(how, place) == inStatus' = how /\ UNCHANGED <<inParked, tasks, at>>

EndInput(how, place) ==
  /\ inStatus' = how
  /\ IF inParked
     THEN inParked' = FALSE /\ ResumeAt(place)
     ELSE UNCHANGED <<inParked, tasks, at>>

(* The traverser is through, or failed half-way.                           *)
CloseInput ==
  /\ inStatus = "Open"
  /\ EndInput("Closed", "ended")
  /\ UNCHANGED <<fixed, running, arrived, taken, waiting, ended, results, output, sems,
                 cancel>>

(* The opened file that a parked async_push holds.                         *)
ParkedFile_Fault == next
ParkedFile == next - 1

TakeOpened ==
  /\ out # <<>> /\ Len(down) < DownCapacity
  /\ down' = Append(down, Head(out))
  /\ IF outParked
     THEN /\ out' = Append(Tail(out), ParkedFile)
          /\ outParked' = FALSE
          /\ tasks' = Append(tasks, Opener)
     ELSE /\ out' = Tail(out)
          /\ UNCHANGED <<outParked, tasks>>
  /\ UNCHANGED <<fixed, running, input, taken, inParked, at, waiting, ended, results,
                 outStatus, packed, sems, cancel>>

PackOne ==
  /\ down # <<>>
  /\ down' = Tail(down)
  /\ packed' = packed + 1
  /\ FreeAndPost({Head(down)} \cap guards)
  /\ UNCHANGED <<fixed, running, input, taken, inParked, at, waiting, ended, results,
                 out, outParked, outStatus, cancel>>

(***************************************************************************)
(* Cancellation: the flag, then the slots of the event in the order they   *)
(* were connected: in_entries.abandon, out_opened.abandon,                 *)
(* open_slots_.cancel.                                                     *)
(***************************************************************************)
CancelFlag ==
  /\ cancel = 0
  /\ cancel' = 1
  /\ UNCHANGED <<fixed, tasks, running, input, taken, inParked, at, waiting, ended,
                 results, output, sems>>

CancelInput ==
  /\ cancel = 1
  /\ cancel' = 2
  /\ EndInput("Abandoned", "error")
  /\ arrived' = taken
  /\ UNCHANGED <<fixed, running, taken, waiting, ended, results, output, sems>>

(* Disposing of the queued files gives back their permits.                 *)
CancelOutput ==
  LET queued == {out[i] : i \in DOMAIN out} \cup (IF outParked THEN {ParkedFile} ELSE {})
  IN
  /\ cancel = 2
  /\ cancel' = 3
  /\ outStatus' = "Abandoned"
  /\ out' = <<>>
  /\ Free(queued \cap guards)
  /\ IF outParked
     THEN outParked' = FALSE /\ ResumeAt("error")
     ELSE /\ IF Resumes(queued \cap guards)
             THEN tasks' = Append(tasks, Opener) ELSE UNCHANGED tasks
          /\ UNCHANGED <<outParked, at>>
  /\ UNCHANGED <<fixed, running, input, taken, inParked, waiting, ended, results, down,
                 packed>>

CancelSlots ==
  /\ cancel = 3
  /\ cancel' = 4
  /\ IF slotParked
     THEN slotParked' = FALSE /\ ResumeAt("error")
     ELSE UNCHANGED <<slotParked, tasks, at>>
  /\ UNCHANGED <<fixed, running, input, taken, inParked, waiting, ended, results,
                 output, slots, guards>>

(***************************************************************************)
Quiet == at \in {"finished", "failed"} /\ tasks = <<>> /\ running = {} /\ out = <<>> /\ down = <<>>

Finished == Quiet /\ UNCHANGED vars

CancelStep == CancelInput \/ CancelOutput \/ CancelSlots

Next ==
  \/ Dispatch
  \/ OpenerStep
  \/ \E n \in Sequences_ : OpenTask(n)
  \/ Arrive
  \/ CloseInput
  \/ TakeOpened
  \/ PackOne
  \/ CancelFlag
  \/ CancelStep
  \/ Finished

Spec == Init /\ [][Next]_vars

(* The pool runs its handlers, the stages around go on (the traverser ends *)
(* in the end), and emit() runs all its slots. Nobody has to cancel.       *)
Fairness ==
  /\ WF_vars(Dispatch) /\ WF_vars(OpenerStep)
  /\ \A n \in Sequences_ : WF_vars(OpenTask(n))
  /\ WF_vars(CloseInput) /\ WF_vars(TakeOpened) /\ WF_vars(PackOne)
  /\ WF_vars(CancelStep)

FairSpec == Spec /\ Fairness

(***************************************************************************)
(* Properties.                                                             *)
(***************************************************************************)
(* Every variable has its type; the output queue and open_slots_ keep      *)
(* within their bounds.                                                    *)
TypeOK ==
  /\ workers \in WorkerCounts /\ regular \in SUBSET Sequences_
  /\ tasks \in Seq(0 .. Entries) /\ running \in SUBSET (0 .. Entries)
  /\ Cardinality(running) <= workers
  /\ arrived \in 0 .. Entries /\ taken \in 0 .. arrived
  /\ inStatus \in {"Open", "Closed", "Abandoned"}
  /\ at \in {"next", "popped", "checked", "slot", "emit", "ended", "error", "finished", "failed"}
  /\ {inParked, waiting, ended, outParked, slotParked} \subseteq BOOLEAN
  /\ pending \in SUBSET regular /\ ready \in SUBSET Sequences_
  /\ future \in [Sequences_ -> {"none", "checked", "ok", "failed"}]
  /\ next \in 1 .. Entries + 1
  /\ out \in Seq(Sequences_) /\ Len(out) <= OutCapacity
  /\ outStatus \in {"Open", "Closed", "Abandoned"}
  /\ slots \in 0 .. Concurrency /\ guards \in SUBSET regular
  /\ down \in Seq(Sequences_) /\ packed \in 0 .. Entries
  /\ cancel \in 0 .. 4

(* However the concurrent opens finish, the packer gets the files in       *)
(* traversal order, each once and with none skipped.                       *)
EmittedInOrder ==
  LET emitted == down \o out IN \A i \in DOMAIN emitted : emitted[i] = packed + i

(* No open-file permit is lost or doubled, whichever of the opener, a task,*)
(* the packer or a cancelled queue lets go of the file last; and once      *)
(* everything is over, after a failure or a cancellation too, no file is   *)
(* still open.                                                             *)
PermitsConserved ==
  /\ slots + Cardinality(guards) = Concurrency
  /\ Quiet => guards = {}

BlockedInGet == At("emit") /\ next \notin ready /\ next \in pending /\ waiting /\ ~HasResult(next)

(* The opener never waits for itself. When it is parked for a permit, some *)
(* file is already past it, so a permit comes back without its help; and   *)
(* when it blocks its thread in future.get(), the task it waits for is     *)
(* running or has a thread to run on, even on a pool of one thread.        *)
WaitIsServed ==
  /\ slotParked => guards \cap (Range(down) \cup Range(out)) # {}
  /\ BlockedInGet => \/ next \in running
                     \/ next \in Range(tasks) /\ Cardinality(running) < workers

(* The opener always ends, and everything it opened is let go.             *)
OpenerEnds == <>Quiet

=============================================================================
