---------------------------- MODULE BoundedQueue ----------------------------
(***************************************************************************)
(* BoundedQueue<T> of types.hpp: the queue between two pipeline stages.    *)
(* Each side uses either the blocking interface (push, pop: a mutex and    *)
(* two condition variables) or the coroutine interface (async_push,        *)
(* async_pop: deques of parked handlers, completed by posting them to an   *)
(* executor). close() ends the stream, abandon() is what cancellation does.*)
(*                                                                         *)
(* One step is one critical section of sync_mutex_. What a thread does     *)
(* between two critical sections of one call is a step of its own: the     *)
(* blocking calls unlock, notify, and lock again in                        *)
(* schedule_resume_from_sync; close and abandon notify after unlocking. A  *)
(* handler taken off a deque is out of every other thread's reach, so      *)
(* completing it belongs to the step that took it; the executor runs it    *)
(* later (Resume).                                                         *)
(*                                                                         *)
(* An item is <<p, n>>, the n-th item of producer p; a parked push is its  *)
(* item.                                                                   *)
(***************************************************************************)
EXTENDS Naturals, Sequences, Functions

CONSTANTS Producers,   (* threads or coroutines that push                  *)
          Consumers,   (* threads or coroutines that pop                   *)
          Capacity,    (* capacity_                                        *)
          MaxItems,    (* bound: items a producer has to push              *)
          Wirings      (* the sets of actors that use the async interface, *)
                       (* one for each way the program wires a queue       *)

ASSUME QueueAssumption ==
  /\ Producers \cap Consumers = {}
  /\ Capacity \in Nat \ {0}
  /\ MaxItems \in Nat
  /\ Wirings \subseteq SUBSET (Producers \cup Consumers)

Actors == Producers \cup Consumers

Item == Producers \X (1 .. MaxItems)

VARIABLES
  async,           (* the wiring: the actors on the async interface, fixed *)
  status,          (* status_                                              *)
  queue,           (* queue_                                               *)
  pendingPushes,   (* pending_pushes_                                      *)
  pendingPops,     (* pending_pops_                                        *)
  notFull,         (* threads blocked in sync_not_full_.wait               *)
  notEmpty,        (* threads blocked in sync_not_empty_.wait              *)
  unnotified,      (* close/abandon calls that have yet to notify_all      *)
  pc,              (* where each actor is in its call                      *)
  outcome,         (* how a call that has no item to return ended          *)
  sent,            (* items each producer has handed over                  *)
  handed,          (* the item a posted pop handler carries, if any        *)
  received,        (* items each consumer has taken                        *)
  dropped,         (* items disposed of, or refused                        *)
  cut              (* history: a guard, not the producer, closed the queue *)

vars == <<async, status, queue, pendingPushes, pendingPops, notFull, notEmpty,
          unnotified, pc, outcome, sent, handed, received, dropped, cut>>

(* Definitions named ..._Fault are seeded faults: what the definition that *)
(* follows would be if the code had a plausible bug. Nothing uses them.    *)

(* There is room for one more item.                                        *)
Room_Fault == Len(queue) <= Capacity
Room == Len(queue) < Capacity

(* The queue no longer takes items.                                        *)
Refusing_Fault == status = "Abandoned"
Refusing == status # "Open"

(* There is nothing to pop: what decides whether a pop may report the end. *)
Drained_Fault == status # "Open" \/ queue = <<>>
Drained == queue = <<>>

(* What an actor learns when the queue no longer accepts or delivers.      *)
Ended == IF status = "Abandoned" THEN "abandoned" ELSE "closed"

Init ==
  /\ async \in Wirings
  /\ status = "Open"
  /\ queue = <<>>
  /\ pendingPushes = <<>>
  /\ pendingPops = <<>>
  /\ notFull = {}
  /\ notEmpty = {}
  /\ unnotified = {}
  /\ pc = [a \in Actors |-> "idle"]
  /\ outcome = [a \in Actors |-> "none"]
  /\ sent = [p \in Producers |-> 0]
  /\ handed = [c \in Consumers |-> <<>>]
  /\ received = [c \in Consumers |-> <<>>]
  /\ dropped = {}
  /\ cut = FALSE

(***************************************************************************)
(* The parts of the queue that a critical section rearranges, as one       *)
(* record; posted collects the actors whose handlers it completes, and     *)
(* wake says whether it notifies sync_not_empty_.                          *)
(***************************************************************************)
Parts == [queue |-> queue, pushes |-> pendingPushes, pops |-> pendingPops,
          handed |-> handed, posted |-> {}, wake |-> FALSE]

(* Give item to the oldest parked pop.                                     *)
CompletePop(s, item) ==
  [s EXCEPT !.pops = Tail(@),
            !.handed = [@ EXCEPT ![Head(s.pops)] = <<item>>],
            !.posted = @ \cup {Head(s.pops)}]

(* promote_one_locked: room was made, so the oldest parked push moves on,  *)
(* to a parked pop or into the queue.                                      *)
PromoteOne_Fault(s) == s

PromoteOne(s) ==
  IF status # "Open" \/ s.pushes = <<>> THEN s
  ELSE LET item == Head(s.pushes)
           freed == [s EXCEPT !.pushes = Tail(@), !.posted = @ \cup {item[1]}]
       IN  IF s.pops # <<>> THEN CompletePop(freed, item)
           ELSE IF Len(s.queue) < Capacity
                THEN [freed EXCEPT !.queue = Append(@, item), !.wake = TRUE]
                ELSE s

(* The first half of schedule_resume_from_sync: what a blocking push left  *)
(* in the queue goes to a parked pop.                                      *)
HandOff_SkipFault(s) == s

HandOff(s) ==
  IF s.queue # <<>> /\ s.pops # <<>>
  THEN CompletePop([s EXCEPT !.queue = Tail(@)], Head(s.queue))
  ELSE s

Rearrange(s) ==
  /\ queue' = s.queue
  /\ pendingPushes' = s.pushes
  /\ pendingPops' = s.pops
  /\ handed' = s.handed

(* notify_one on a condition variable with these waiters.                  *)
NotifyOne(waiters, rest) ==
  \/ waiters = {} /\ rest = waiters
  \/ \E a \in waiters : rest = waiters \ {a}

WakeIf(wake) == IF wake THEN NotifyOne(notEmpty, notEmpty') ELSE notEmpty' = notEmpty

(* Handlers of these actors are posted with these outcomes.                *)
Post(actors, how) ==
  /\ pc' = [a \in Actors |-> IF a \in actors THEN "posted" ELSE pc[a]]
  /\ outcome' = [a \in Actors |-> IF a \in actors THEN how ELSE outcome[a]]

(***************************************************************************)
(* Producers.                                                              *)
(***************************************************************************)
Refused(p) ==
  /\ dropped' = dropped \cup {<<p, sent[p] + 1>>}
  /\ pc' = [pc EXCEPT ![p] = "done"]
  /\ outcome' = [outcome EXCEPT ![p] = Ended]

(* async_push: to a parked pop, else into the queue, else parked.          *)
AsyncPush(p) ==
  LET item == <<p, sent[p] + 1>> IN
  /\ p \in async /\ pc[p] = "idle" /\ sent[p] < MaxItems
  /\ \/ /\ Refusing
        /\ Refused(p)
        /\ UNCHANGED <<queue, pendingPushes, pendingPops, notEmpty, sent, handed>>
     \/ /\ ~Refusing
        /\ sent' = [sent EXCEPT ![p] = @ + 1]
        /\ \/ /\ pendingPops # <<>>
              /\ Rearrange(CompletePop(Parts, item))
              /\ Post({p, Head(pendingPops)}, "ok")
              /\ UNCHANGED notEmpty
           \/ /\ pendingPops = <<>> /\ Room
              /\ Rearrange([Parts EXCEPT !.queue = Append(@, item)])
              /\ NotifyOne(notEmpty, notEmpty')
              /\ Post({p}, "ok")
           \/ /\ pendingPops = <<>> /\ ~Room
              /\ Rearrange([Parts EXCEPT !.pushes = Append(@, item)])
              /\ pc' = [pc EXCEPT ![p] = "parked"]
              /\ UNCHANGED <<notEmpty, outcome>>
        /\ UNCHANGED dropped
  /\ UNCHANGED <<async, cut, status, notFull, unnotified, received>>

(* push, up to the unlock: the wait's predicate decides under the lock     *)
(* whether to block, to throw or to append. A woken thread comes back here.*)
SyncPush(p) ==
  LET item == <<p, sent[p] + 1>> IN
  /\ p \notin async /\ pc[p] = "idle" /\ sent[p] < MaxItems /\ p \notin notFull
  /\ \/ /\ ~Refusing /\ ~Room
        /\ notFull' = notFull \cup {p}
        /\ UNCHANGED <<queue, pc, outcome, sent, dropped>>
     \/ /\ Refusing
        /\ Refused(p)
        /\ UNCHANGED <<queue, sent, notFull>>
     \/ /\ ~Refusing /\ Room
        /\ queue' = Append(queue, item)
        /\ sent' = [sent EXCEPT ![p] = @ + 1]
        /\ pc' = [pc EXCEPT ![p] = "notify"]
        /\ UNCHANGED <<notFull, outcome, dropped>>
  /\ UNCHANGED <<async, cut, status, pendingPushes, pendingPops, notEmpty, unnotified,
                 handed, received>>

(***************************************************************************)
(* Consumers.                                                              *)
(***************************************************************************)

(* async_pop: the oldest item, then room for a parked push and a blocked   *)
(* one; else the end of the stream; else parked.                           *)
AsyncPop(c) ==
  /\ c \in async /\ pc[c] = "idle"
  /\ \/ /\ ~Drained
        /\ LET popped == [Parts EXCEPT !.queue = Tail(@),
                                       !.handed = [@ EXCEPT ![c] = <<Head(queue)>>],
                                       !.posted = {c}]
               s == PromoteOne(popped)
           IN  /\ Rearrange(s)
               /\ Post(s.posted, "ok")
               /\ WakeIf(s.wake)
        /\ NotifyOne(notFull, notFull')
     \/ /\ Drained /\ status # "Open"
        /\ Post({c}, Ended)
        /\ UNCHANGED <<queue, pendingPushes, pendingPops, handed, notFull, notEmpty>>
     \/ /\ Drained /\ status = "Open"
        /\ pendingPops' = Append(pendingPops, c)
        /\ pc' = [pc EXCEPT ![c] = "parked"]
        /\ UNCHANGED <<queue, pendingPushes, handed, notFull, notEmpty, outcome>>
  /\ UNCHANGED <<async, cut, status, unnotified, sent, received, dropped>>

(* pop, up to the unlock.                                                  *)
SyncPop(c) ==
  /\ c \notin async /\ pc[c] = "idle" /\ c \notin notEmpty
  /\ \/ /\ status = "Open" /\ Drained
        /\ notEmpty' = notEmpty \cup {c}
        /\ UNCHANGED <<queue, received, pc, outcome>>
     \/ /\ status # "Open" /\ Drained
        /\ pc' = [pc EXCEPT ![c] = "done"]
        /\ outcome' = [outcome EXCEPT ![c] = Ended]
        /\ UNCHANGED <<queue, notEmpty, received>>
     \/ /\ ~Drained
        /\ queue' = Tail(queue)
        /\ received' = [received EXCEPT ![c] = Append(@, Head(queue))]
        /\ pc' = [pc EXCEPT ![c] = "notify"]
        /\ UNCHANGED <<notEmpty, outcome>>
  /\ UNCHANGED <<async, cut, status, pendingPushes, pendingPops, notFull, unnotified,
                 sent, handed, dropped>>

(***************************************************************************)
(* The tail of a blocking call, after its unlock.                          *)
(***************************************************************************)
SyncNotify(a) ==
  /\ pc[a] = "notify"
  /\ pc' = [pc EXCEPT ![a] = "resume"]
  /\ \/ a \in Producers /\ NotifyOne(notEmpty, notEmpty') /\ UNCHANGED notFull
     \/ a \in Consumers /\ NotifyOne(notFull, notFull') /\ UNCHANGED notEmpty
  /\ UNCHANGED <<async, cut, status, queue, pendingPushes, pendingPops, unnotified,
                 outcome, sent, handed, received, dropped>>

(* schedule_resume_from_sync.                                              *)
ScheduleResume(a) ==
  LET s == PromoteOne(HandOff(Parts)) IN
  /\ pc[a] = "resume"
  /\ Rearrange(s)
  /\ pc' = [b \in Actors |-> IF b \in s.posted THEN "posted"
                             ELSE IF b = a THEN "idle" ELSE pc[b]]
  /\ outcome' = [b \in Actors |-> IF b \in s.posted THEN "ok" ELSE outcome[b]]
  /\ WakeIf(s.wake)
  /\ UNCHANGED <<async, cut, status, notFull, unnotified, sent, received, dropped>>

(* The executor runs a posted handler: the coroutine takes its result.     *)
Resume(a) ==
  /\ pc[a] = "posted"
  /\ pc' = [pc EXCEPT ![a] = IF outcome[a] = "ok" THEN "idle" ELSE "done"]
  /\ IF a \in Consumers
     THEN /\ received' = [received EXCEPT ![a] = @ \o handed[a]]
          /\ handed' = [handed EXCEPT ![a] = <<>>]
     ELSE UNCHANGED <<received, handed>>
  /\ UNCHANGED <<async, cut, status, queue, pendingPushes, pendingPops, notFull,
                 notEmpty, unnotified, outcome, sent, dropped>>

(* A condition variable may wake a thread that nobody notified.            *)
SpuriousWake(a) ==
  /\ \/ a \in notFull  /\ notFull' = notFull \ {a}   /\ UNCHANGED notEmpty
     \/ a \in notEmpty /\ notEmpty' = notEmpty \ {a} /\ UNCHANGED notFull
  /\ UNCHANGED <<async, cut, status, queue, pendingPushes, pendingPops, unnotified,
                 pc, outcome, sent, handed, received, dropped>>

(***************************************************************************)
(* Ending the stream.                                                      *)
(***************************************************************************)
Parked == Range(pendingPops) \cup {item[1] : item \in Range(pendingPushes)}

(* close under the lock: parked pushes are refused, their items disposed   *)
(* of; parked pops see the end; queued items stay.                         *)
CloseOpen(pcs) ==
  /\ status' = "Closed"
  /\ pc' = [a \in Actors |-> IF a \in Parked THEN "posted" ELSE pcs[a]]
  /\ outcome' = [a \in Actors |-> IF a \in Parked THEN "closed" ELSE outcome[a]]
  /\ dropped' = dropped \cup Range(pendingPushes)
  /\ pendingPushes' = <<>>
  /\ pendingPops' = <<>>
  /\ unnotified' = unnotified \cup {"close"}

(* The pipeline guard closes every queue when it unwinds.                  *)
GuardClose ==
  /\ status = "Open"
  /\ CloseOpen(pc)
  /\ cut' = TRUE
  /\ UNCHANGED <<async, queue, notFull, notEmpty, sent, handed, received>>

(* A producer closes the queue after its last item.                        *)
ProducerClose(p) ==
  LET finished == [pc EXCEPT ![p] = "done"] IN
  /\ pc[p] = "idle" /\ sent[p] = MaxItems
  /\ \/ /\ status = "Open"
        /\ CloseOpen(finished)
     \/ /\ status # "Open"
        /\ pc' = finished
        /\ UNCHANGED <<status, pendingPushes, pendingPops, unnotified, outcome, dropped>>
  /\ UNCHANGED <<async, cut, queue, notFull, notEmpty, sent, handed, received>>

(* abandon, from the cancel event: everything in the queue is disposed of. *)
Abandon ==
  /\ status # "Abandoned"
  /\ status' = "Abandoned"
  /\ Post(Parked, "abandoned")
  /\ dropped' = dropped \cup Range(queue) \cup Range(pendingPushes)
  /\ queue' = <<>>
  /\ pendingPushes' = <<>>
  /\ pendingPops' = <<>>
  /\ unnotified' = unnotified \cup {"abandon"}
  /\ UNCHANGED <<async, cut, notFull, notEmpty, sent, handed, received>>

(* notify_all on both condition variables, after the unlock.               *)
NotifyAll(call) ==
  /\ call \in unnotified
  /\ unnotified' = unnotified \ {call}
  /\ notFull' = {}
  /\ notEmpty' = {}
  /\ UNCHANGED <<async, cut, status, queue, pendingPushes, pendingPops, pc, outcome,
                 sent, handed, received, dropped>>

(***************************************************************************)
(* The specification.                                                      *)
(***************************************************************************)
AllDone == \A a \in Actors : pc[a] = "done"

(* Every actor has returned; nothing is left to do.                        *)
Finished == AllDone /\ unnotified = {} /\ UNCHANGED vars

ProducerStep(p) ==
  AsyncPush(p) \/ SyncPush(p) \/ ProducerClose(p) \/ SyncNotify(p)
    \/ ScheduleResume(p) \/ Resume(p)

ConsumerStep(c) ==
  AsyncPop(c) \/ SyncPop(c) \/ SyncNotify(c) \/ ScheduleResume(c) \/ Resume(c)

Next ==
  \/ \E p \in Producers : ProducerStep(p)
  \/ \E c \in Consumers : ConsumerStep(c)
  \/ \E a \in Actors : SpuriousWake(a)
  \/ GuardClose
  \/ Abandon
  \/ \E call \in {"close", "abandon"} : NotifyAll(call)
  \/ Finished

Spec == Init /\ [][Next]_vars

(* A running thread keeps running and the executor runs what is posted to  *)
(* it. Nobody is obliged to cancel, to unwind, or to be woken by chance.   *)
Fairness ==
  /\ \A p \in Producers : WF_vars(ProducerStep(p))
  /\ \A c \in Consumers : WF_vars(ConsumerStep(c))
  /\ \A call \in {"close", "abandon"} : WF_vars(NotifyAll(call))

FairSpec == Spec /\ Fairness

(***************************************************************************)
(* Properties.                                                             *)
(***************************************************************************)
Statuses == {"Open", "Closed", "Abandoned"}
Places == {"idle", "notify", "resume", "parked", "posted", "done"}
Outcomes == {"none", "ok", "closed", "abandoned"}

(* Every variable has its type, and the queue never holds more than        *)
(* capacity_ items.                                                        *)
TypeOK ==
  /\ async \in SUBSET Actors
  /\ status \in Statuses
  /\ queue \in Seq(Item) /\ Len(queue) <= Capacity
  /\ pendingPushes \in Seq(Item)
  /\ pendingPops \in Seq(Consumers)
  /\ notFull \in SUBSET Producers
  /\ notEmpty \in SUBSET Consumers
  /\ unnotified \in SUBSET {"close", "abandon"}
  /\ pc \in [Actors -> Places]
  /\ outcome \in [Actors -> Outcomes]
  /\ sent \in [Producers -> 0 .. MaxItems]
  /\ handed \in [Consumers -> Seq(Item)]
  /\ received \in [Consumers -> Seq(Item)]
  /\ dropped \in SUBSET Item
  /\ cut \in BOOLEAN

(* A queue that ended keeps nobody parked, and one that was abandoned      *)
(* holds no items: a late push cannot slip past close() or abandon() and   *)
(* strand a coroutine or leak a chunk nobody will dispose of.              *)
EndedIsSettled ==
  /\ status # "Open" => pendingPushes = <<>> /\ pendingPops = <<>>
  /\ status = "Abandoned" => queue = <<>>

(* No lost wakeup. When no blocking call is between its unlock and its     *)
(* schedule_resume_from_sync and no notify_all is due, whoever is blocked  *)
(* or parked to push faces a full open queue, and whoever waits to pop an  *)
(* empty open one.                                                         *)
Settled == unnotified = {} /\ \A a \in Actors : pc[a] \notin {"notify", "resume"}

NoStrandedWaiter ==
  Settled =>
    /\ notFull # {} \/ pendingPushes # <<>> => status = "Open" /\ Len(queue) = Capacity
    /\ notEmpty # {} \/ pendingPops # <<>> => status = "Open" /\ queue = <<>>

(* Blocked and parked actors, sync or async, are always let go in the end: *)
(* each runs to its own end although nobody has to cancel.                 *)
EveryoneFinishes == <>AllDone

(* The queue implements the abstract channel, whatever mix of interfaces   *)
(* is used: items keep their order and none is lost or repeated; close()   *)
(* and abandon() refuse an item exactly when they tell its producer; no    *)
(* consumer is told the end with items left, but for the one a blocking    *)
(* push was handing over when somebody else closed the queue.              *)
Over == {"closed", "abandoned"}

Abstract == INSTANCE Channel WITH
  transit <- queue,
  offered <- pendingPushes,
  delivered <- [c \in Consumers |-> received[c] \o handed[c]],
  refused <- {p \in Producers : outcome[p] \in Over},
  ended <- {c \in Consumers : pc[c] = "done"}

ImplementsChannel == Abstract!Spec

=============================================================================
