---------------------------- MODULE SemaphoreCor ----------------------------
(***************************************************************************)
(* SemaphoreCor of infra.hpp and infra.cpp: the counting semaphore behind  *)
(* the open-file slots, the directory slots and the byte budgets. A request*)
(* is for a number of permits. Requests that cannot be granted at once are *)
(* parked in a deque and granted strictly in order. Permits travel in a    *)
(* Guard, which gives them back when it is reset or destroyed. cancel()    *)
(* fails whoever is parked and whoever asks later; guards stay valid.      *)
(*                                                                         *)
(* state->mutex is a variable here, because release's loop over the deque  *)
(* (drain_ready_waiters_locked) is several steps of one critical section.  *)
(* A request taken off the deque is out of reach of other threads, so      *)
(* completing it (posting its handler) belongs to the step that took it;   *)
(* the executor delivers the result later (Deliver).                       *)
(***************************************************************************)
EXTENDS Naturals, Sequences, FiniteSetsExt

CONSTANTS Clients,    (* coroutines that acquire and release               *)
          Initial,    (* initial_count                                     *)
          Requests    (* the sizes of request a client may make            *)

ASSUME SemaphoreAssumption ==
  /\ Initial \in Nat
  /\ Requests \subseteq Nat

VARIABLES
  available,   (* State::available                                         *)
  cancelled,   (* State::cancelled                                         *)
  waiters,     (* State::waiters: the parked clients, oldest first         *)
  draining,    (* release holds the mutex and is walking the deque         *)
  pc,          (* where each client is                                     *)
  permits      (* what it asked for, or what its guard holds               *)

vars == <<available, cancelled, waiters, draining, pc, permits>>

(* A client with permits out of the semaphore: its guard is in a posted    *)
(* handler, or in its hands.                                               *)
Holders == {c \in Clients : pc[c] \in {"granted", "holding"}}

Parked == Range(waiters)

(* Definitions named ..._Fault are seeded faults: what the definition that *)
(* follows would be if the code had a plausible bug. Nothing uses them.    *)

Init ==
  /\ available = Initial
  /\ cancelled = FALSE
  /\ waiters = <<>>
  /\ draining = FALSE
  /\ pc = [c \in Clients |-> "idle"]
  /\ permits = [c \in Clients |-> 0]

(***************************************************************************)
(* async_acquire: one critical section, one of four outcomes.              *)
(***************************************************************************)
AcquireStart(c, n) == ~draining /\ pc[c] = "idle" /\ n \in Requests

AcquireCancelled(c, n) ==
  /\ AcquireStart(c, n)
  /\ cancelled
  /\ pc' = [pc EXCEPT ![c] = "failed"]
  /\ UNCHANGED <<available, cancelled, waiters, draining, permits>>

(* Zero permits are granted whoever waits, and their guard gives back none.*)
AcquireNothing(c, n) ==
  /\ AcquireStart(c, n)
  /\ ~cancelled /\ n = 0
  /\ pc' = [pc EXCEPT ![c] = "granted"]
  /\ permits' = [permits EXCEPT ![c] = 0]
  /\ UNCHANGED <<available, cancelled, waiters, draining>>

MayGrant_Fault(n) == available >= n
MayGrant(n) == waiters = <<>> /\ available >= n

AcquireNow(c, n) ==
  /\ AcquireStart(c, n)
  /\ ~cancelled /\ n # 0 /\ MayGrant(n)
  /\ available' = available - n
  /\ pc' = [pc EXCEPT ![c] = "granted"]
  /\ permits' = [permits EXCEPT ![c] = n]
  /\ UNCHANGED <<cancelled, waiters, draining>>

AcquireLater(c, n) ==
  /\ AcquireStart(c, n)
  /\ ~cancelled /\ n # 0 /\ ~MayGrant(n)
  /\ waiters' = Append(waiters, c)
  /\ pc' = [pc EXCEPT ![c] = "parked"]
  /\ permits' = [permits EXCEPT ![c] = n]
  /\ UNCHANGED <<available, cancelled, draining>>

Acquire(c, n) ==
  \/ AcquireCancelled(c, n)
  \/ AcquireNothing(c, n)
  \/ AcquireNow(c, n)
  \/ AcquireLater(c, n)

(* The executor runs the posted handler: the guard is the client's now, or *)
(* the CancelledError is thrown in it.                                     *)
Deliver(c) ==
  \/ /\ pc[c] = "granted"
     /\ pc' = [pc EXCEPT ![c] = "holding"]
     /\ UNCHANGED <<available, cancelled, waiters, draining, permits>>
  \/ /\ pc[c] = "failed"
     /\ pc' = [pc EXCEPT ![c] = "done"]
     /\ UNCHANGED <<available, cancelled, waiters, draining, permits>>

(***************************************************************************)
(* Guard::reset and release. A guard of no permits does not even lock.     *)
(***************************************************************************)
ReleaseNothing(c) ==
  /\ pc[c] = "holding" /\ permits[c] = 0
  /\ pc' = [pc EXCEPT ![c] = "idle"]
  /\ UNCHANGED <<available, cancelled, waiters, draining, permits>>

Release(c) ==
  /\ ~draining
  /\ pc[c] = "holding" /\ permits[c] # 0
  /\ available' = available + permits[c]
  /\ draining' = TRUE
  /\ pc' = [pc EXCEPT ![c] = "idle"]
  /\ permits' = [permits EXCEPT ![c] = 0]
  /\ UNCHANGED <<cancelled, waiters>>

(* drain_ready_waiters_locked, one turn of its loop: grant the oldest      *)
(* request if it fits ...                                                  *)
HeadFits_Fault == waiters # <<>>
HeadFits == waiters # <<>> /\ permits[Head(waiters)] <= available

DrainOne_OnceFault ==
  /\ draining /\ ~cancelled /\ HeadFits
  /\ available' = available - permits[Head(waiters)]
  /\ waiters' = Tail(waiters)
  /\ pc' = [pc EXCEPT ![Head(waiters)] = "granted"]
  /\ draining' = FALSE
  /\ UNCHANGED <<cancelled, permits>>

DrainOne_FreeFault ==
  /\ draining /\ ~cancelled /\ HeadFits
  /\ waiters' = Tail(waiters)
  /\ pc' = [pc EXCEPT ![Head(waiters)] = "granted"]
  /\ UNCHANGED <<available, cancelled, draining, permits>>

DrainOne ==
  /\ draining /\ ~cancelled /\ HeadFits
  /\ available' = available - permits[Head(waiters)]
  /\ waiters' = Tail(waiters)
  /\ pc' = [pc EXCEPT ![Head(waiters)] = "granted"]
  /\ UNCHANGED <<cancelled, draining, permits>>

(* ... and stop at the first that does not, unlocking.                     *)
DrainStop ==
  /\ draining
  /\ cancelled \/ ~HeadFits
  /\ draining' = FALSE
  /\ UNCHANGED <<available, cancelled, waiters, pc, permits>>

(***************************************************************************)
(* cancel: the deque is emptied and everyone in it fails.                  *)
(***************************************************************************)
Cancel_Fault ==
  /\ ~draining /\ ~cancelled
  /\ cancelled' = TRUE
  /\ waiters' = <<>>
  /\ UNCHANGED <<available, draining, pc, permits>>

Cancel ==
  /\ ~draining /\ ~cancelled
  /\ cancelled' = TRUE
  /\ waiters' = <<>>
  /\ pc' = [c \in Clients |-> IF c \in Parked THEN "failed" ELSE pc[c]]
  /\ permits' = [c \in Clients |-> IF c \in Parked THEN 0 ELSE permits[c]]
  /\ UNCHANGED <<available, draining>>

(* After a cancel every client ends up having failed.                      *)
Finished == (\A c \in Clients : pc[c] = "done") /\ ~draining /\ UNCHANGED vars

Next ==
  \/ \E c \in Clients, n \in Requests : Acquire(c, n)
  \/ \E c \in Clients : Deliver(c) \/ ReleaseNothing(c) \/ Release(c)
  \/ DrainOne
  \/ DrainStop
  \/ Cancel
  \/ Finished

Spec == Init /\ [][Next]_vars

(* A thread that holds the mutex goes on; the executor runs what is posted;*)
(* a guard is not held for ever. A client need never acquire, and nobody   *)
(* need cancel. Release needs the mutex, which other clients take between  *)
(* its chances: a mutex is fair enough to be strongly fair to a releaser.  *)
Fairness ==
  /\ WF_vars(DrainOne \/ DrainStop)
  /\ \A c \in Clients : WF_vars(Deliver(c)) /\ WF_vars(ReleaseNothing(c)) /\ SF_vars(Release(c))

FairSpec == Spec /\ Fairness

(***************************************************************************)
(* Properties.                                                             *)
(***************************************************************************)
Places == {"idle", "parked", "granted", "holding", "failed", "done"}

(* Every variable has its type; above all, available is a size_t that is   *)
(* never taken below zero.                                                 *)
TypeOK ==
  /\ available \in Nat
  /\ cancelled \in BOOLEAN
  /\ waiters \in Seq(Clients)
  /\ draining \in BOOLEAN
  /\ pc \in [Clients -> Places]
  /\ permits \in [Clients -> Nat]

(* The deque holds exactly the parked clients, each once: nobody is parked *)
(* without a request that a release or a cancel would complete, and no     *)
(* request is completed twice.                                             *)
DequeIsParked ==
  /\ \A c \in Clients : pc[c] = "parked" <=> c \in Parked
  /\ \A i, j \in DOMAIN waiters : waiters[i] = waiters[j] => i = j

(* No lost wakeup: outside release, the oldest parked request is one that  *)
(* the available permits really cannot satisfy.                            *)
HeadIsBlocked ==
  waiters # <<>> /\ ~draining => permits[Head(waiters)] > available

(* After cancel nobody is parked, and nobody will be.                      *)
CancelledIsEmpty == cancelled => waiters = <<>>

Held == MapThenSumSet(LAMBDA c : permits[c], Holders)

(* Permits are conserved across grants, releases, drains and cancellation: *)
(* what the guards hold and what is available add up to the initial count. *)
Conservation == available + Held = Initial

(* Every parked request is granted or fails in the end, large ones among   *)
(* a stream of small ones included, provided none exceeds the initial      *)
(* count (the command line rejects a read budget below 64 MiB and a file   *)
(* asks for 12 MiB at most).                                               *)
ParkedIsServed == \A c \in Clients : pc[c] = "parked" ~> pc[c] # "parked"

=============================================================================
