------------------------- MODULE BoundedQueueProofs -------------------------
(***************************************************************************)
(* Proofs about BoundedQueue.                                              *)
(*                                                                         *)
(* For any number of producers and consumers, any capacity and any wiring: *)
(* its variables keep their types, the queue its capacity, and a queue     *)
(* that ended strands nobody. TypeOK and EndedIsSettled together are       *)
(* inductive. The rearrangements of the queue are functions on one record, *)
(* Parts, so that what each does to the type and the bound is a lemma of   *)
(* its own, cited by the actions.                                          *)
(*                                                                         *)
(* For one producer and one consumer, which is what each queue of the      *)
(* program has: no wakeup is lost, and the queue implements the abstract   *)
(* channel. Both rest on a second inductive invariant, Duo.                *)
(***************************************************************************)
EXTENDS BoundedQueue, SequenceTheorems, TLAPS

IInv == TypeOK /\ EndedIsSettled

(* The type of Parts, and the part of the invariant that is about it.      *)
PartsType ==
  [queue : Seq(Item), pushes : Seq(Item), pops : Seq(Consumers),
   handed : [Consumers -> Seq(Item)], posted : SUBSET Actors, wake : BOOLEAN]

GoodParts(s) ==
  /\ s \in PartsType
  /\ Len(s.queue) <= Capacity
  /\ status # "Open" => s.pushes = <<>> /\ s.pops = <<>>
  /\ status = "Abandoned" => s.queue = <<>>

(* The invariant says of the record Parts what the lemmas on the           *)
(* rearrangements of the queue start from.                                 *)
LEMMA PartsGood ==
  ASSUME IInv
  PROVE  GoodParts(Parts)
BY DEF IInv, TypeOK, EndedIsSettled, GoodParts, PartsType, Parts

(* Completing a parked pop takes it off the deque, and touches nothing in  *)
(* the queue.                                                              *)
LEMMA CompletePopGood ==
  ASSUME NEW s \in PartsType, NEW item \in Item, s.pops # <<>>
  PROVE  LET t == CompletePop(s, item) IN
         /\ t \in PartsType
         /\ t.queue = s.queue /\ t.pushes = s.pushes /\ t.pops = Tail(s.pops)
<1> DEFINE t == CompletePop(s, item)
           c == Head(s.pops)
<1>1. c \in Consumers /\ Tail(s.pops) \in Seq(Consumers) /\ c \in Actors
  BY DEF PartsType, Actors
<1>2. <<item>> \in Seq(Item)
  OBVIOUS
<1>3. [s.handed EXCEPT ![c] = <<item>>] \in [Consumers -> Seq(Item)]
  BY <1>1, <1>2 DEF PartsType
<1>4. s.posted \cup {c} \in SUBSET Actors
  BY <1>1 DEF PartsType
<1> DEFINE h == [s.handed EXCEPT ![c] = <<item>>]
           q == Tail(s.pops)
           d == s.posted \cup {c}
<1>5. t = [s EXCEPT !.pops = q, !.handed = h, !.posted = d]
  BY Zenon DEF CompletePop
<1>6. h \in [Consumers -> Seq(Item)] /\ q \in Seq(Consumers) /\ d \in SUBSET Actors
  BY <1>1, <1>3, <1>4
<1> HIDE DEF h, q, d, t, c
<1>7. t \in PartsType /\ t.queue = s.queue /\ t.pushes = s.pushes /\ t.pops = q
  BY <1>5, <1>6 DEF PartsType
<1>8. QED
  BY <1>7 DEF t, q

(* Handing the head of the queue to a parked pop keeps the record good.     *)
LEMMA HandOffGood ==
  ASSUME NEW s, GoodParts(s)
  PROVE  GoodParts(HandOff(s))
<1>1. CASE s.queue # <<>> /\ s.pops # <<>>
  <2> DEFINE q == Tail(s.queue)
             u == [s EXCEPT !.queue = q]
  <2>0. s \in PartsType /\ s.queue \in Seq(Item) /\ Len(s.queue) <= Capacity
    BY DEF GoodParts, PartsType
  <2>2. Head(s.queue) \in Item /\ q \in Seq(Item) /\ Len(q) <= Capacity
    BY <1>1, <2>0, QueueAssumption
  <2> HIDE DEF q
  <2>1. u \in PartsType /\ u.queue = q /\ u.pushes = s.pushes /\ u.pops = s.pops
    BY <2>0, <2>2 DEF PartsType
  <2>3. HandOff(s) = CompletePop(u, Head(s.queue))
    BY <1>1 DEF HandOff, q
  <2>5. status = "Open"
    BY <1>1 DEF GoodParts
  <2>6. QED
    BY <1>1, <2>1, <2>2, <2>3, <2>5, CompletePopGood DEF GoodParts
<1>2. CASE ~(s.queue # <<>> /\ s.pops # <<>>)
  BY <1>2 DEF HandOff
<1>3. QED
  BY <1>1, <1>2

(* So does one turn of the promotion loop: an item to a parked pop, or a   *)
(* parked push into the room there is.                                     *)
LEMMA PromoteOneGood ==
  ASSUME NEW s, GoodParts(s)
  PROVE  GoodParts(PromoteOne(s))
<1>1. CASE status # "Open" \/ s.pushes = <<>>
  BY <1>1 DEF PromoteOne
<1>2. CASE ~(status # "Open" \/ s.pushes = <<>>)
  <2> DEFINE item == Head(s.pushes)
             freed == [s EXCEPT !.pushes = Tail(@), !.posted = @ \cup {item[1]}]
  <2>1. item \in Item /\ item[1] \in Actors /\ Tail(s.pushes) \in Seq(Item)
    BY <1>2 DEF GoodParts, PartsType, Item, Actors
  <2>2. /\ freed \in PartsType /\ freed.queue = s.queue
        /\ freed.pops = s.pops
    BY <2>1 DEF GoodParts, PartsType
  <2>3. CASE s.pops # <<>>
    BY <1>2, <2>1, <2>2, <2>3, CompletePopGood DEF PromoteOne, GoodParts
  <2>4. CASE s.pops = <<>> /\ Len(s.queue) < Capacity
    <3> DEFINE v == [freed EXCEPT !.queue = Append(@, item), !.wake = TRUE]
    <3>1. Append(s.queue, item) \in Seq(Item) /\ Len(Append(s.queue, item)) <= Capacity
      BY <2>1, <2>4, QueueAssumption DEF GoodParts, PartsType
    <3>2. v \in PartsType /\ v.queue = Append(s.queue, item)
      BY <2>2, <3>1 DEF PartsType
    <3>3. PromoteOne(s) = v
      BY <1>2, <2>4 DEF PromoteOne
    <3>4. QED
      BY <1>2, <3>1, <3>2, <3>3 DEF GoodParts
  <2>5. CASE s.pops = <<>> /\ ~(Len(s.queue) < Capacity)
    BY <1>2, <2>5 DEF PromoteOne
  <2>6. QED
    BY <2>3, <2>4, <2>5
<1>3. QED
  BY <1>1, <1>2

(* An action that rearranges the queue and leaves its status alone.        *)
QueueGood ==
  /\ queue \in Seq(Item) /\ Len(queue) <= Capacity
  /\ pendingPushes \in Seq(Item)
  /\ pendingPops \in Seq(Consumers)
  /\ handed \in [Consumers -> Seq(Item)]
  /\ EndedIsSettled

(* A step that installs a good record as the next state keeps the part of  *)
(* the invariant that is about the queue.                                  *)
LEMMA RearrangeGood ==
  ASSUME NEW s, GoodParts(s), Rearrange(s), status' = status
  PROVE  QueueGood'
BY DEF GoodParts, PartsType, Rearrange, QueueGood, EndedIsSettled

(* What is notified leaves the set of waiters.                             *)
LEMMA NotifyShrinks ==
  ASSUME NEW S, NEW waiters \in SUBSET S, NEW rest, NotifyOne(waiters, rest)
  PROVE  rest \in SUBSET S
BY DEF NotifyOne

(* Posting a resumption keeps the places and outcomes within their types.  *)
LEMMA PostGood ==
  ASSUME TypeOK, NEW actors, NEW how \in Outcomes, Post(actors, how)
  PROVE  pc' \in [Actors -> Places] /\ outcome' \in [Actors -> Outcomes]
BY DEF TypeOK, Post, Places

(* The next item of a producer that has not reached its bound.             *)
LEMMA NextItem ==
  ASSUME TypeOK, NEW p \in Producers, sent[p] < MaxItems
  PROVE  <<p, sent[p] + 1>> \in Item /\ sent[p] + 1 \in 0 .. MaxItems
<1>1. sent[p] \in 0 .. MaxItems
  BY DEF TypeOK
<1>2. sent[p] + 1 \in 1 .. MaxItems /\ sent[p] + 1 \in 0 .. MaxItems
  BY <1>1, QueueAssumption
<1>3. QED
  BY <1>2 DEF Item

(* Sending one more item keeps the count of items sent within its bound.   *)
LEMMA SentGrows ==
  ASSUME TypeOK, NEW p \in Producers, sent[p] < MaxItems,
         sent' = [sent EXCEPT ![p] = sent[p] + 1]
  PROVE  sent' \in [Producers -> 0 .. MaxItems]
<1>1. sent[p] + 1 \in 0 .. MaxItems
  BY NextItem
<1>2. QED
  BY <1>1 DEF TypeOK

(* A new queue satisfies the invariant.                                    *)
LEMMA InitGood == Init => IInv
<1> SUFFICES ASSUME Init PROVE IInv
  OBVIOUS
<1> USE QueueAssumption DEF Init
<1>1. TypeOK
  <2>1. /\ <<>> \in Seq(Item) /\ <<>> \in Seq(Consumers)
        /\ Len(<<>>) = 0
    OBVIOUS
  <2>2. /\ handed \in [Consumers -> Seq(Item)]
        /\ received \in [Consumers -> Seq(Item)]
    BY <2>1
  <2>3. async \in SUBSET Actors
    BY DEF Actors
  <2>4. sent \in [Producers -> 0 .. MaxItems]
    OBVIOUS
  <2>5. pc \in [Actors -> Places] /\ outcome \in [Actors -> Outcomes]
    BY DEF Places, Outcomes
  <2>6. /\ queue \in Seq(Item) /\ Len(queue) <= Capacity
        /\ pendingPushes \in Seq(Item) /\ pendingPops \in Seq(Consumers)
    BY <2>1
  <2>7. /\ status \in Statuses /\ cut \in BOOLEAN /\ dropped \in SUBSET Item
        /\ notFull \in SUBSET Producers /\ notEmpty \in SUBSET Consumers
        /\ unnotified \in SUBSET {"close", "abandon"}
    BY DEF Statuses
  <2>8. QED
    BY <2>2, <2>3, <2>4, <2>5, <2>6, <2>7 DEF TypeOK
<1>2. EndedIsSettled
  BY DEF EndedIsSettled, Statuses
<1>3. QED
  BY <1>1, <1>2 DEF IInv

(* Every action preserves the invariant.                                   *)
LEMMA StepGood == IInv /\ [Next]_vars => IInv'
<1> SUFFICES ASSUME IInv, [Next]_vars PROVE IInv'
  OBVIOUS
<1> USE QueueAssumption DEF Statuses, Places, Outcomes
<1>a. \A p \in Producers : p \in Actors
  BY DEF Actors
<1>b. \A c \in Consumers : c \in Actors
  BY DEF Actors
<1>t. TypeOK /\ EndedIsSettled /\ GoodParts(Parts)
  BY PartsGood DEF IInv
<1>1. ASSUME NEW p \in Producers, AsyncPush(p) PROVE IInv'
  <2> DEFINE item == <<p, sent[p] + 1>>
  <2>0. item \in Item /\ sent[p] + 1 \in 0 .. MaxItems
    BY <1>1, <1>t, NextItem DEF AsyncPush
  <2>s. ~Refusing => sent' \in [Producers -> 0 .. MaxItems]
    <3>1. ~Refusing => sent' = [sent EXCEPT ![p] = sent[p] + 1]
      BY <1>1 DEF AsyncPush
    <3>2. QED
      BY <1>1, <1>t, <3>1, SentGrows DEF AsyncPush
  <2>1. CASE Refusing
    BY <1>1, <1>t, <1>a, <2>0, <2>1
    DEF AsyncPush, Refused, Ended, Refusing, IInv, TypeOK, EndedIsSettled
  <2>2. CASE ~Refusing /\ pendingPops # <<>>
    <3>1. Parts \in PartsType /\ Parts.pops = pendingPops
      BY <1>t DEF GoodParts, Parts
    <3>2. GoodParts(CompletePop(Parts, item))
      BY <1>t, <2>0, <2>2, <3>1, CompletePopGood DEF GoodParts, Refusing
    <3>3. QueueGood'
      BY <1>1, <2>2, <3>2, RearrangeGood DEF AsyncPush
    <3>4. pc' \in [Actors -> Places] /\ outcome' \in [Actors -> Outcomes]
      BY <1>1, <1>t, <2>2, PostGood DEF AsyncPush
    <3>5. sent' \in [Producers -> 0 .. MaxItems]
      BY <2>s, <2>2
    <3> HIDE DEF item
    <3>6. QED
      BY <1>1, <1>t, <2>2, <3>3, <3>4, <3>5 DEF AsyncPush, QueueGood, IInv, TypeOK
  <2>3. CASE ~Refusing /\ pendingPops = <<>> /\ Room
    <3> DEFINE q == Append(queue, item)
    <3>a. q \in Seq(Item) /\ Len(q) <= Capacity
      BY <1>t, <2>0, <2>3 DEF TypeOK, Room
    <3>b. [Parts EXCEPT !.queue = Append(@, item)] = [Parts EXCEPT !.queue = q]
      BY DEF Parts
    <3>c. GoodParts([Parts EXCEPT !.queue = q])
      <4> HIDE DEF q
      <4>1. QED
        BY <1>t, <2>3, <3>a DEF GoodParts, PartsType, Refusing
    <3>1. GoodParts([Parts EXCEPT !.queue = Append(@, item)])
      BY <3>b, <3>c
    <3>2. QueueGood'
      BY <1>1, <2>3, <3>1, RearrangeGood DEF AsyncPush
    <3>3. notEmpty' \in SUBSET Consumers
      BY <1>1, <1>t, <2>3, NotifyShrinks DEF AsyncPush, TypeOK
    <3>4. pc' \in [Actors -> Places] /\ outcome' \in [Actors -> Outcomes]
      BY <1>1, <1>t, <2>3, PostGood DEF AsyncPush
    <3>5. sent' \in [Producers -> 0 .. MaxItems]
      BY <2>s, <2>3
    <3>6. QED
      BY <1>1, <1>t, <2>3, <3>2, <3>3, <3>4, <3>5 DEF AsyncPush, QueueGood, IInv, TypeOK
  <2>4. CASE ~Refusing /\ pendingPops = <<>> /\ ~Room
    <3> DEFINE q == Append(pendingPushes, item)
    <3>a. q \in Seq(Item)
      BY <1>t, <2>0 DEF TypeOK
    <3>b. [Parts EXCEPT !.pushes = Append(@, item)] = [Parts EXCEPT !.pushes = q]
      BY DEF Parts
    <3>c. GoodParts([Parts EXCEPT !.pushes = q])
      <4> HIDE DEF q
      <4>1. QED
        BY <1>t, <2>4, <3>a DEF GoodParts, PartsType, Refusing
    <3>1. GoodParts([Parts EXCEPT !.pushes = Append(@, item)])
      BY <3>b, <3>c
    <3>2. QueueGood'
      BY <1>1, <2>4, <3>1, RearrangeGood DEF AsyncPush
    <3>4. pc' \in [Actors -> Places] /\ outcome' \in [Actors -> Outcomes]
      BY <1>1, <1>t, <1>a, <2>4 DEF AsyncPush, TypeOK
    <3>5. sent' \in [Producers -> 0 .. MaxItems]
      BY <2>s, <2>4
    <3>6. QED
      BY <1>1, <1>t, <2>4, <3>2, <3>4, <3>5 DEF AsyncPush, QueueGood, IInv, TypeOK
  <2>5. QED
    BY <2>1, <2>2, <2>3, <2>4
<1>2. ASSUME NEW p \in Producers, SyncPush(p) PROVE IInv'
  <2> DEFINE item == <<p, sent[p] + 1>>
  <2>0. item \in Item /\ sent[p] + 1 \in 0 .. MaxItems
    BY <1>2, <1>t, NextItem DEF SyncPush
  <2>1. CASE ~Refusing /\ ~Room
    BY <1>2, <1>t, <2>1 DEF SyncPush, IInv, TypeOK, EndedIsSettled
  <2>2. CASE Refusing
    BY <1>2, <1>t, <1>a, <2>0, <2>2
    DEF SyncPush, Refused, Ended, Refusing, IInv, TypeOK, EndedIsSettled
  <2>3. CASE ~Refusing /\ Room
    <3>1. Append(queue, item) \in Seq(Item) /\ Len(Append(queue, item)) <= Capacity
      BY <1>t, <2>0, <2>3 DEF TypeOK, Room
    <3>2. queue' = Append(queue, item) /\ pc' = [pc EXCEPT ![p] = "notify"]
          /\ sent' = [sent EXCEPT ![p] = @ + 1]
          /\ UNCHANGED <<notFull, outcome, dropped>>
      BY <1>2, <2>3 DEF SyncPush
    <3>3. queue' \in Seq(Item) /\ Len(queue') <= Capacity
      BY <3>1, <3>2
    <3>4. pc' \in [Actors -> Places] /\ sent' \in [Producers -> 0 .. MaxItems]
      BY <1>t, <1>a, <2>0, <3>2 DEF TypeOK
    <3>5. status # "Abandoned"
      BY <2>3 DEF Refusing
    <3> HIDE DEF item
    <3>6. QED
      BY <1>2, <1>t, <3>2, <3>3, <3>4, <3>5 DEF SyncPush, IInv, TypeOK, EndedIsSettled
  <2>4. QED
    BY <2>1, <2>2, <2>3
<1>3. ASSUME NEW p \in Producers, ProducerClose(p) PROVE IInv'
  <2>1. Range(pendingPushes) \in SUBSET Item
    BY <1>t DEF TypeOK, Range
  <2>2. CASE status = "Open"
    <3>1. CloseOpen([pc EXCEPT ![p] = "done"])
      BY <1>3, <2>2 DEF ProducerClose
    <3>2. pc' \in [Actors -> Places] /\ outcome' \in [Actors -> Outcomes]
      BY <1>t, <3>1 DEF CloseOpen, TypeOK
    <3>3. QED
      BY <1>3, <1>t, <2>1, <3>1, <3>2
      DEF ProducerClose, CloseOpen, IInv, TypeOK, EndedIsSettled
  <2>3. CASE status # "Open"
    BY <1>3, <1>t, <1>a, <2>3 DEF ProducerClose, IInv, TypeOK, EndedIsSettled
  <2>4. QED
    BY <2>2, <2>3
<1>4. ASSUME NEW a \in Actors, SyncNotify(a) PROVE IInv'
  <2>1. notEmpty' \in SUBSET Consumers /\ notFull' \in SUBSET Producers
    BY <1>4, <1>t, NotifyShrinks DEF SyncNotify, TypeOK
  <2>2. QED
    BY <1>4, <1>t, <2>1 DEF SyncNotify, IInv, TypeOK, EndedIsSettled
<1>5. ASSUME NEW a \in Actors, ScheduleResume(a) PROVE IInv'
  <2> DEFINE s == PromoteOne(HandOff(Parts))
  <2>1. GoodParts(s)
    BY <1>t, HandOffGood, PromoteOneGood
  <2>2. QueueGood'
    BY <1>5, <2>1, RearrangeGood DEF ScheduleResume
  <2>3. notEmpty' \in SUBSET Consumers
    BY <1>5, <1>t, NotifyShrinks DEF ScheduleResume, WakeIf, TypeOK
  <2>4. /\ pc' \in [Actors -> Places]
        /\ outcome' \in [Actors -> Outcomes]
    BY <1>5, <1>t DEF ScheduleResume, TypeOK
  <2>5. QED
    BY <1>5, <1>t, <2>2, <2>3, <2>4 DEF ScheduleResume, QueueGood, IInv, TypeOK
<1>6. ASSUME NEW a \in Actors, Resume(a) PROVE IInv'
  <2>1. pc' \in [Actors -> Places]
    BY <1>6, <1>t DEF Resume, TypeOK
  <2>2. /\ received' \in [Consumers -> Seq(Item)]
        /\ handed' \in [Consumers -> Seq(Item)]
    <3>1. CASE a \in Consumers
      <4>1. received[a] \o handed[a] \in Seq(Item) /\ <<>> \in Seq(Item)
        BY <1>t, <3>1 DEF TypeOK
      <4>2. /\ received' = [received EXCEPT ![a] = received[a] \o handed[a]]
            /\ handed' = [handed EXCEPT ![a] = <<>>]
        BY <1>6, <3>1 DEF Resume
      <4>3. QED
        BY <1>t, <4>1, <4>2 DEF TypeOK
    <3>2. CASE a \notin Consumers
      BY <1>6, <1>t, <3>2 DEF Resume, TypeOK
    <3>3. QED
      BY <3>1, <3>2
  <2>3. QED
    BY <1>6, <1>t, <2>1, <2>2 DEF Resume, IInv, TypeOK, EndedIsSettled
<1>7. ASSUME NEW c \in Consumers, AsyncPop(c) PROVE IInv'
  <2>1. CASE ~Drained
    <3> DEFINE popped == [Parts EXCEPT !.queue = Tail(@),
                                       !.handed = [@ EXCEPT ![c] = <<Head(queue)>>],
                                       !.posted = {c}]
    <3>1. queue # <<>>
      BY <2>1 DEF Drained
    <3>2. Head(queue) \in Item /\ Tail(queue) \in Seq(Item) /\ Len(Tail(queue)) <= Capacity
      BY <1>t, <3>1 DEF TypeOK
    <3>3. [handed EXCEPT ![c] = <<Head(queue)>>] \in [Consumers -> Seq(Item)]
      BY <1>t, <3>2 DEF TypeOK
    <3> DEFINE q == Tail(queue)
               h == [handed EXCEPT ![c] = <<Head(queue)>>]
    <3>p. Parts.queue = queue /\ Parts.handed = handed
      BY DEF Parts
    <3>a. popped = [Parts EXCEPT !.queue = q, !.handed = h, !.posted = {c}]
      BY <3>p, Zenon
    <3>4. GoodParts(popped)
      <4>1. {c} \in SUBSET Actors
        BY <1>b
      <4>2. q \in Seq(Item) /\ Len(q) <= Capacity /\ h \in [Consumers -> Seq(Item)]
        BY <3>2, <3>3
      <4> HIDE DEF q, h, popped
      <4>3. QED
        BY <1>t, <3>1, <3>a, <3>p, <4>1, <4>2 DEF GoodParts, PartsType
    <3>5. GoodParts(PromoteOne(popped))
      BY <3>4, PromoteOneGood
    <3>6. QueueGood'
      BY <1>7, <2>1, <3>5, RearrangeGood DEF AsyncPop, Drained
    <3>7. notEmpty' \in SUBSET Consumers /\ notFull' \in SUBSET Producers
      BY <1>7, <1>t, <2>1, NotifyShrinks DEF AsyncPop, WakeIf, TypeOK
    <3>8. QED
      BY <1>7, <1>t, <2>1, <3>6, <3>7 DEF AsyncPop, Post, QueueGood, IInv, TypeOK
  <2>2. CASE Drained /\ status # "Open"
    BY <1>7, <1>t, <2>2 DEF AsyncPop, Post, Ended, IInv, TypeOK, EndedIsSettled
  <2>3. CASE Drained /\ status = "Open"
    <3>1. /\ pendingPops' = Append(pendingPops, c)
          /\ pc' = [pc EXCEPT ![c] = "parked"]
          /\ UNCHANGED <<queue, pendingPushes, handed, notFull, notEmpty, outcome>>
      BY <1>7, <2>3 DEF AsyncPop
    <3>2. pendingPops' \in Seq(Consumers) /\ pc' \in [Actors -> Places]
      BY <1>t, <1>b, <3>1 DEF TypeOK
    <3>3. QED
      BY <1>7, <1>t, <2>3, <3>1, <3>2 DEF AsyncPop, IInv, TypeOK, EndedIsSettled
  <2>4. QED
    BY <2>1, <2>2, <2>3
<1>8. ASSUME NEW c \in Consumers, SyncPop(c) PROVE IInv'
  <2>1. CASE Drained
    BY <1>8, <1>t, <2>1 DEF SyncPop, Ended, IInv, TypeOK, EndedIsSettled
  <2>2. CASE ~Drained
    <3>1. Head(queue) \in Item /\ Tail(queue) \in Seq(Item) /\ Len(Tail(queue)) <= Capacity
      BY <1>t, <2>2 DEF TypeOK, Drained
    <3>2. status # "Abandoned"
      BY <1>t, <2>2 DEF Drained, EndedIsSettled
    <3>3. /\ queue' = Tail(queue)
          /\ received' = [received EXCEPT ![c] = Append(@, Head(queue))]
          /\ pc' = [pc EXCEPT ![c] = "notify"]
          /\ UNCHANGED <<notEmpty, outcome>>
      BY <1>8, <2>2 DEF SyncPop
    <3>4. queue' \in Seq(Item) /\ Len(queue') <= Capacity
      BY <3>1, <3>3
    <3>5. Append(received[c], Head(queue)) \in Seq(Item)
      BY <1>t, <3>1 DEF TypeOK
    <3>6. received' \in [Consumers -> Seq(Item)] /\ pc' \in [Actors -> Places]
      BY <1>t, <1>b, <3>3, <3>5 DEF TypeOK
    <3>7. QED
      BY <1>8, <1>t, <3>2, <3>3, <3>4, <3>6 DEF SyncPop, IInv, TypeOK, EndedIsSettled
  <2>3. QED
    BY <2>1, <2>2
<1>9. ASSUME NEW a \in Actors, SpuriousWake(a) PROVE IInv'
  BY <1>9, <1>t DEF SpuriousWake, IInv, TypeOK, EndedIsSettled
<1>10. ASSUME GuardClose PROVE IInv'
  <2>1. Range(pendingPushes) \in SUBSET Item
    BY <1>t DEF TypeOK, Range
  <2>2. QED
    BY <1>10, <1>t, <2>1 DEF GuardClose, CloseOpen, IInv, TypeOK, EndedIsSettled
<1>11. ASSUME Abandon PROVE IInv'
  <2>1. Range(pendingPushes) \in SUBSET Item /\ Range(queue) \in SUBSET Item
    BY <1>t DEF TypeOK, Range
  <2>2. QED
    BY <1>11, <1>t, <2>1 DEF Abandon, Post, IInv, TypeOK, EndedIsSettled
<1>12. ASSUME NEW call \in {"close", "abandon"}, NotifyAll(call) PROVE IInv'
  BY <1>12, <1>t DEF NotifyAll, IInv, TypeOK, EndedIsSettled
<1>13. CASE UNCHANGED vars
  BY <1>13, <1>t DEF vars, IInv, TypeOK, EndedIsSettled
<1>14. CASE Finished
  BY <1>13, <1>14 DEF Finished
<1>15. QED
  BY <1>a, <1>b, <1>1, <1>2, <1>3, <1>4, <1>5, <1>6, <1>7, <1>8, <1>9, <1>10, <1>11,
     <1>12, <1>13, <1>14
  DEF Next, ProducerStep, ConsumerStep

(* The invariant holds in every state.                                     *)
LEMMA Inductive == Spec => []IInv
BY InitGood, StepGood, PTL DEF Spec

(* Type correctness: in every behaviour every variable keeps its type and  *)
(* the queue never holds more than capacity_ items, whatever the mix of    *)
(* blocking and coroutine callers.                                         *)
THEOREM TypeCorrect == Spec => []TypeOK
<1>1. IInv => TypeOK
  BY DEF IInv
<1>2. QED
  BY Inductive, <1>1, PTL

(* close() and abandon() leave nobody parked, and abandon() leaves no item *)
(* behind, however they interleave with the pushes and pops in flight.     *)
THEOREM EndedSettled == Spec => []EndedIsSettled
<1>1. IInv => EndedIsSettled
  BY DEF IInv
<1>2. QED
  BY Inductive, <1>1, PTL

(***************************************************************************)
(* One producer and one consumer, as on every queue of the program. Each   *)
(* of them is at places of its own interface, the deques hold at most the  *)
(* one of them that is parked (Sides), whoever waits either waits rightly  *)
(* or is about to be let go (Waits), and nobody is told of an end that is  *)
(* not there (Ends).                                                       *)
(***************************************************************************)
Side(a) == IF a \in async THEN {"idle", "parked", "posted", "done"}
                          ELSE {"idle", "notify", "resume", "done"}

Sides(p, c) ==
  /\ pc[p] \in Side(p) /\ pc[c] \in Side(c)
  /\ pendingPushes = IF pc[p] = "parked" THEN <<<<p, sent[p]>>>> ELSE <<>>
  /\ pendingPops = IF pc[c] = "parked" THEN <<c>> ELSE <<>>
  /\ handed[c] # <<>> => pc[c] = "posted"
  /\ notFull # {} => p \notin async /\ pc[p] = "idle" /\ sent[p] < MaxItems
  /\ notEmpty # {} => c \notin async /\ pc[c] = "idle"

Waits(p, c) ==
  /\ notFull # {} =>
       unnotified # {} \/ pc[c] = "notify" \/ (status = "Open" /\ Len(queue) = Capacity)
  /\ pendingPushes # <<>> => Len(queue) = Capacity \/ pc[c] \in {"notify", "resume"}
  /\ notEmpty # {} =>
       unnotified # {} \/ pc[p] = "notify" \/ (status = "Open" /\ queue = <<>>)
  /\ pendingPops # <<>> => queue = <<>> \/ pc[p] \in {"notify", "resume"}

Ends(p, c) ==
  /\ outcome[p] \in Over => pc[p] \in {"posted", "done"} /\ status # "Open"
  /\ outcome[c] \in Over => pc[c] \in {"posted", "done"} /\ status # "Open"
  /\ pc[c] = "posted" => outcome[c] # "none"
  /\ pc[c] = "done" => outcome[c] \in Over
  /\ pendingPops # <<>> => Len(queue) <= 1
  /\ outcome[c] \in Over => queue = <<>> \/ (cut /\ status = "Closed" /\ Len(queue) <= 1)

Duo(p, c) == IInv /\ Sides(p, c) /\ Waits(p, c) /\ Ends(p, c)

(* The two are different actors, and there are no others.                  *)
LEMMA DuoActors ==
  ASSUME NEW p, NEW c, Producers = {p}, Consumers = {c}
  PROVE  /\ p # c /\ Actors = {p, c}
         /\ p \in Producers /\ c \in Consumers /\ p \in Actors /\ c \in Actors
         /\ p \notin Consumers /\ c \notin Producers /\ Capacity \in Nat \ {0}
BY QueueAssumption DEF Actors

(* A queue without room is full.                                           *)
LEMMA FullIsCapacity ==
  ASSUME TypeOK, ~Room
  PROVE  Len(queue) = Capacity
<1>1. Len(queue) \in Nat /\ Len(queue) <= Capacity /\ Capacity \in Nat
  BY QueueAssumption DEF TypeOK
<1>2. QED
  BY <1>1 DEF Room

(* Notifying leaves nobody waiting where only one could.                   *)
LEMMA NotifyLeavesNone ==
  ASSUME NEW a, NEW waiters \in SUBSET {a}, NEW rest, NotifyOne(waiters, rest)
  PROVE  rest = {}
BY DEF NotifyOne

(* What completing a parked pop does to each part of the queue.            *)
LEMMA CompletePopParts ==
  ASSUME NEW s \in PartsType, NEW item
  PROVE  LET t == CompletePop(s, item) IN
         /\ t.queue = s.queue /\ t.pushes = s.pushes /\ t.pops = Tail(s.pops)
         /\ t.handed = [s.handed EXCEPT ![Head(s.pops)] = <<item>>]
         /\ t.posted = s.posted \cup {Head(s.pops)} /\ t.wake = s.wake
BY DEF CompletePop, PartsType

(* What promote_one_locked does when nobody waits to pop.                  *)
LEMMA PromoteOneParts ==
  ASSUME NEW s \in PartsType, s.pops = <<>>
  PROVE  LET t == PromoteOne(s) IN
         \/ /\ status = "Open" /\ s.pushes # <<>> /\ Len(s.queue) < Capacity
            /\ t.queue = Append(s.queue, Head(s.pushes)) /\ t.pushes = Tail(s.pushes)
            /\ t.pops = <<>> /\ t.handed = s.handed
            /\ t.posted = s.posted \cup {Head(s.pushes)[1]} /\ t.wake = TRUE
         \/ /\ status # "Open" \/ s.pushes = <<>> \/ ~(Len(s.queue) < Capacity)
            /\ t = s
BY DEF PromoteOne, PartsType

(* Facts about sequences of at most one element.                           *)
LEMMA ShortSeqs ==
  ASSUME NEW S, NEW x \in S, NEW q \in Seq(S)
  PROVE  /\ Head(<<x>>) = x /\ Tail(<<x>>) = <<>> /\ <<x>> # <<>> /\ Len(<<x>>) = 1
         /\ q \o <<>> = q /\ <<>> \o q = q /\ <<>> \o <<x>> = <<x>>
         /\ Append(q, x) = q \o <<x>> /\ Append(<<>>, x) = <<x>>
         /\ q # <<>> <=> Len(q) > 0
OBVIOUS

(* The two-actor invariant holds at the start.                             *)
LEMMA InitDuo ==
  ASSUME NEW p, NEW c, Producers = {p}, Consumers = {c}, Init
  PROVE  Duo(p, c)
<1>1. IInv
  BY InitGood
<1>2. Sides(p, c) /\ Waits(p, c) /\ Ends(p, c)
  BY DuoActors DEF Init, Sides, Side, Waits, Ends, Over
<1>3. QED
  BY <1>1, <1>2 DEF Duo

(* async_push keeps the two-actor invariant.                               *)
LEMMA AsyncPushDuo ==
  ASSUME NEW p, NEW c, Producers = {p}, Consumers = {c}, Duo(p, c), AsyncPush(p)
  PROVE  Sides(p, c)' /\ Waits(p, c)'
<1> DEFINE item == <<p, sent[p] + 1>>
<1>1. /\ TypeOK /\ Sides(p, c) /\ Waits(p, c) /\ EndedIsSettled
      /\ p # c /\ p \in Actors /\ c \in Actors /\ Actors = {p, c}
      /\ p \in async /\ pc[p] = "idle"
      /\ UNCHANGED <<async, cut, status, notFull, unnotified, received>>
  BY DuoActors DEF Duo, IInv, AsyncPush
<1>2. pendingPushes = <<>> /\ notFull = {}
  BY <1>1 DEF Sides
<1>3. CASE Refusing
  <2>1. /\ pc'[p] = "done" /\ pc'[c] = pc[c] /\ pendingPushes' = <<>>
        /\ UNCHANGED <<queue, pendingPops, notEmpty, sent, handed>>
    BY <1>1, <1>2, <1>3 DEF AsyncPush, Refused, TypeOK
  <2>2. QED
    BY <1>1, <1>2, <2>1 DEF Sides, Waits, Side
<1>4. CASE ~Refusing /\ pendingPops # <<>>
  <2>1. pc[c] = "parked" /\ pendingPops = <<c>> /\ notEmpty = {} /\ Tail(<<c>>) = <<>>
        /\ Head(<<c>>) = c /\ c \in async
    BY <1>1, <1>4 DEF Sides, Side
  <2>2. /\ Rearrange(CompletePop(Parts, item)) /\ Post({p, Head(pendingPops)}, "ok")
        /\ UNCHANGED notEmpty
    BY <1>4 DEF AsyncPush
  <2>3. pc'[p] = "posted" /\ pc'[c] = "posted"
    BY <1>1, <2>1, <2>2 DEF Post
  <2>4. pendingPushes' = <<>> /\ pendingPops' = <<>>
    <3>1. Parts \in PartsType /\ Parts.pushes = pendingPushes /\ Parts.pops = pendingPops
      BY PartsGood DEF GoodParts, Parts, Duo
    <3>2. /\ CompletePop(Parts, item).pushes = Parts.pushes
          /\ CompletePop(Parts, item).pops = Tail(Parts.pops)
      BY <3>1, CompletePopParts
    <3>3. QED
      BY <1>2, <2>1, <2>2, <3>1, <3>2 DEF Rearrange
  <2>5. QED
    BY <1>1, <1>2, <2>1, <2>2, <2>3, <2>4 DEF Sides, Waits, Side
<1>5. CASE ~Refusing /\ pendingPops = <<>> /\ Room
  <2>1. /\ Rearrange([Parts EXCEPT !.queue = Append(@, item)])
        /\ NotifyOne(notEmpty, notEmpty') /\ Post({p}, "ok")
    BY <1>5 DEF AsyncPush
  <2>2. notEmpty' = {}
    BY <1>1, <2>1, NotifyLeavesNone DEF TypeOK
  <2>3. pc'[p] = "posted" /\ pc'[c] = pc[c]
    BY <1>1, <2>1 DEF Post
  <2>4. pendingPushes' = <<>> /\ pendingPops' = <<>> /\ handed' = handed
    BY <1>2, <1>5, <2>1 DEF Rearrange, Parts
  <2>5. QED
    BY <1>1, <1>2, <1>5, <2>2, <2>3, <2>4 DEF Sides, Waits, Side
<1>6. CASE ~Refusing /\ pendingPops = <<>> /\ ~Room
  <2>1. /\ Rearrange([Parts EXCEPT !.pushes = Append(@, item)])
        /\ pc' = [pc EXCEPT ![p] = "parked"] /\ sent' = [sent EXCEPT ![p] = @ + 1]
        /\ UNCHANGED notEmpty
    BY <1>6 DEF AsyncPush
  <2>2. pc'[p] = "parked" /\ pc'[c] = pc[c] /\ sent'[p] = sent[p] + 1
    BY <1>1, <2>1, DuoActors DEF TypeOK
  <2>3. /\ pendingPushes' = <<<<p, sent'[p]>>>> /\ pendingPops' = <<>>
        /\ handed' = handed /\ queue' = queue
    BY <1>2, <1>6, <2>1, <2>2 DEF Rearrange, Parts
  <2>4. Len(queue) = Capacity
    BY <1>6, FullIsCapacity DEF Duo, IInv
  <2>5. QED
    BY <1>1, <1>2, <1>6, <2>1, <2>2, <2>3, <2>4 DEF Sides, Waits, Side
<1>7. QED
  BY <1>3, <1>4, <1>5, <1>6

(* push up to its unlock keeps the two-actor invariant.                    *)
LEMMA SyncPushDuo ==
  ASSUME NEW p, NEW c, Producers = {p}, Consumers = {c}, Duo(p, c), SyncPush(p)
  PROVE  Sides(p, c)' /\ Waits(p, c)'
<1>1. /\ TypeOK /\ Sides(p, c) /\ Waits(p, c) /\ EndedIsSettled
      /\ p # c /\ p \in Actors /\ c \in Actors /\ Actors = {p, c}
      /\ p \notin async /\ pc[p] = "idle" /\ notFull = {}
      /\ UNCHANGED <<async, cut, status, pendingPushes, pendingPops, notEmpty, unnotified,
                     handed, received>>
  <2>1. notFull = {}
    BY DEF Duo, IInv, SyncPush, TypeOK
  <2>2. QED
    BY <2>1, DuoActors DEF Duo, IInv, SyncPush
<1>2. pendingPushes = <<>>
  BY <1>1 DEF Sides
<1>3. CASE ~Refusing /\ ~Room
  <2>1. notFull' = notFull \cup {p} /\ UNCHANGED <<queue, pc, outcome, sent, dropped>>
    BY <1>3 DEF SyncPush
  <2>2. Len(queue) = Capacity /\ status = "Open"
    BY <1>1, <1>3, FullIsCapacity DEF Refusing
  <2>3. sent[p] < MaxItems
    BY DEF SyncPush
  <2>4. QED
    BY <1>1, <1>2, <2>1, <2>2, <2>3 DEF Sides, Waits, Side
<1>4. CASE Refusing
  <2>1. /\ pc'[p] = "done" /\ pc'[c] = pc[c]
        /\ UNCHANGED <<queue, sent, notFull>>
    BY <1>1, <1>4 DEF SyncPush, Refused, TypeOK
  <2>2. QED
    BY <1>1, <1>2, <2>1 DEF Sides, Waits, Side
<1>5. CASE ~Refusing /\ Room
  <2>1. pc'[p] = "notify" /\ pc'[c] = pc[c] /\ UNCHANGED notFull
    BY <1>1, <1>5 DEF SyncPush, TypeOK
  <2>2. QED
    BY <1>1, <1>2, <2>1 DEF Sides, Waits, Side
<1>6. QED
  BY <1>3, <1>4, <1>5

(* close and abandon: whoever is parked is posted, and notify_all is due.  *)
LEMMA CloseDuo ==
  ASSUME NEW p, NEW c, Producers = {p}, Consumers = {c}, Duo(p, c),
         GuardClose \/ ProducerClose(p) \/ Abandon
  PROVE  Sides(p, c)' /\ Waits(p, c)'
<1>1. /\ TypeOK /\ Sides(p, c) /\ Waits(p, c) /\ EndedIsSettled
      /\ p # c /\ p \in Actors /\ c \in Actors /\ Actors = {p, c}
  BY DuoActors DEF Duo, IInv
<1>2. Parked = {a \in {p, c} : pc[a] = "parked"}
  <2>1. Range(pendingPops) = IF pc[c] = "parked" THEN {c} ELSE {}
    BY <1>1 DEF Sides, Range
  <2>2. Range(pendingPushes) = IF pc[p] = "parked" THEN {<<p, sent[p]>>} ELSE {}
    BY <1>1 DEF Sides, Range
  <2>3. {item[1] : item \in Range(pendingPushes)} = IF pc[p] = "parked" THEN {p} ELSE {}
    <3>1. \A i : {item[1] : item \in {i}} = {i[1]}
      OBVIOUS
    <3>2. {item[1] : item \in {}} = {}
      OBVIOUS
    <3>3. <<p, sent[p]>>[1] = p
      OBVIOUS
    <3>4. CASE pc[p] = "parked"
      <4>1. {item[1] : item \in Range(pendingPushes)} = {<<p, sent[p]>>[1]}
        BY <2>2, <3>1, <3>4
      <4>2. QED
        BY <3>3, <3>4, <4>1
    <3>5. CASE pc[p] # "parked"
      BY <2>2, <3>2, <3>5
    <3>6. QED
      BY <3>4, <3>5
  <2>4. QED
    BY <2>1, <2>3 DEF Parked
<1>3. ASSUME NEW pcs, CloseOpen(pcs), pcs[p] \in {pc[p], "done"}, pcs[c] = pc[c],
             pcs[p] # pc[p] => pc[p] = "idle" /\ notFull = {},
             UNCHANGED <<async, notFull, notEmpty, sent, handed>>
      PROVE  Sides(p, c)' /\ Waits(p, c)'
  <2>1. /\ pc'[p] = (IF pc[p] = "parked" THEN "posted" ELSE pcs[p])
        /\ pc'[c] = (IF pc[c] = "parked" THEN "posted" ELSE pcs[c])
        /\ pendingPushes' = <<>> /\ pendingPops' = <<>> /\ unnotified' # {}
    BY <1>1, <1>2, <1>3 DEF CloseOpen
  <2>2. QED
    BY <1>1, <1>3, <2>1 DEF Sides, Waits, Side
<1>4. CASE GuardClose
  BY <1>3, <1>4 DEF GuardClose
<1>5. CASE ProducerClose(p)
  <2>1. /\ pc[p] = "idle" /\ sent[p] = MaxItems
        /\ UNCHANGED <<async, queue, notFull, notEmpty, sent, handed>>
        /\ \/ CloseOpen([pc EXCEPT ![p] = "done"])
           \/ /\ status # "Open" /\ pc' = [pc EXCEPT ![p] = "done"]
              /\ UNCHANGED <<status, pendingPushes, pendingPops, unnotified>>
    BY <1>5 DEF ProducerClose
  <2>2. [pc EXCEPT ![p] = "done"][p] = "done" /\ [pc EXCEPT ![p] = "done"][c] = pc[c]
    BY <1>1 DEF TypeOK
  <2>3. notFull = {}
    BY <1>1, <2>1, QueueAssumption DEF Sides
  <2>4. CASE CloseOpen([pc EXCEPT ![p] = "done"])
    BY <1>3, <2>1, <2>2, <2>3, <2>4
  <2>5. CASE /\ status # "Open" /\ pc' = [pc EXCEPT ![p] = "done"]
             /\ UNCHANGED <<status, pendingPushes, pendingPops, unnotified>>
    BY <1>1, <2>1, <2>2, <2>3, <2>5 DEF Sides, Waits, Side
  <2>6. QED
    BY <2>1, <2>4, <2>5
<1>6. CASE Abandon
  <2>1. /\ pc'[p] = (IF pc[p] = "parked" THEN "posted" ELSE pc[p])
        /\ pc'[c] = (IF pc[c] = "parked" THEN "posted" ELSE pc[c])
        /\ pendingPushes' = <<>> /\ pendingPops' = <<>> /\ unnotified' # {}
        /\ UNCHANGED <<async, notFull, notEmpty, sent, handed>>
    BY <1>1, <1>2, <1>6 DEF Abandon, Post
  <2>2. QED
    BY <1>1, <2>1 DEF Sides, Waits, Side
<1>7. QED
  BY <1>4, <1>5, <1>6

(* pop up to its unlock keeps the two-actor invariant.                     *)
LEMMA SyncPopDuo ==
  ASSUME NEW p, NEW c, Producers = {p}, Consumers = {c}, Duo(p, c), SyncPop(c)
  PROVE  Sides(p, c)' /\ Waits(p, c)'
<1>1. /\ TypeOK /\ Sides(p, c) /\ Waits(p, c) /\ EndedIsSettled
      /\ p # c /\ p \in Actors /\ c \in Actors /\ Actors = {p, c}
      /\ c \notin async /\ pc[c] = "idle" /\ notEmpty = {}
      /\ UNCHANGED <<async, cut, status, pendingPushes, pendingPops, notFull, unnotified, sent,
                     handed, dropped>>
  <2>1. notEmpty = {}
    BY DEF Duo, IInv, SyncPop, TypeOK
  <2>2. QED
    BY <2>1, DuoActors DEF Duo, IInv, SyncPop
<1>2. pendingPops = <<>>
  BY <1>1 DEF Sides
<1>3. CASE status = "Open" /\ Drained
  <2>1. notEmpty' = notEmpty \cup {c} /\ UNCHANGED <<queue, received, pc, outcome>>
    BY <1>3 DEF SyncPop, Drained
  <2>2. QED
    BY <1>1, <1>2, <1>3, <2>1 DEF Sides, Waits, Side, Drained
<1>4. CASE status # "Open" /\ Drained
  <2>1. pc'[c] = "done" /\ pc'[p] = pc[p] /\ UNCHANGED <<queue, notEmpty>>
    BY <1>1, <1>4 DEF SyncPop, TypeOK
  <2>2. notFull # {} => unnotified # {}
    BY <1>1, <1>4 DEF Waits
  <2>3. pendingPushes = <<>>
    BY <1>1, <1>4 DEF EndedIsSettled
  <2>4. QED
    BY <1>1, <1>2, <2>1, <2>2, <2>3 DEF Sides, Waits, Side
<1>5. CASE ~Drained
  <2>1. pc'[c] = "notify" /\ pc'[p] = pc[p] /\ UNCHANGED notEmpty
    BY <1>1, <1>5 DEF SyncPop, TypeOK
  <2>2. QED
    BY <1>1, <1>2, <2>1 DEF Sides, Waits, Side
<1>6. QED
  BY <1>3, <1>4, <1>5

(* What a coroutine pop of an item does to the parts of the queue.         *)
LEMMA AsyncPopParts ==
  ASSUME NEW p, NEW c, Producers = {p}, Consumers = {c}, Duo(p, c), AsyncPop(c), queue # <<>>
  PROVE  /\ pendingPops = <<>> /\ pendingPops' = <<>> /\ pendingPushes' = <<>>
         /\ handed' = [handed EXCEPT ![c] = <<Head(queue)>>]
         /\ notFull' = {} /\ notEmpty' = {} /\ pc'[c] = "posted"
         /\ UNCHANGED <<async, status, unnotified, sent, received>>
         /\ \/ /\ pendingPushes = <<>> /\ queue' = Tail(queue) /\ pc'[p] = pc[p]
               /\ outcome'[p] = outcome[p]
            \/ /\ pendingPushes = <<<<p, sent[p]>>>> /\ pc'[p] = "posted"
               /\ queue' = Append(Tail(queue), <<p, sent[p]>>)
<1>1. /\ TypeOK /\ Sides(p, c) /\ Waits(p, c) /\ EndedIsSettled
      /\ p # c /\ p \in Actors /\ c \in Actors /\ Actors = {p, c}
      /\ c \in async /\ pc[c] = "idle" /\ notEmpty = {}
      /\ UNCHANGED <<async, status, unnotified, sent, received>>
  <2>1. c \in async /\ pc[c] = "idle"
    BY DEF AsyncPop
  <2>2. notEmpty = {}
    BY <2>1 DEF Duo, Sides
  <2>3. QED
    BY <2>1, <2>2, DuoActors DEF Duo, IInv, AsyncPop
<1>2. pendingPops = <<>>
  BY <1>1 DEF Sides
<1> DEFINE q == Tail(queue)
           h == [handed EXCEPT ![c] = <<Head(queue)>>]
           popped == [Parts EXCEPT !.queue = q, !.handed = h, !.posted = {c}]
           s == PromoteOne(popped)
<1>3. /\ Rearrange(s) /\ Post(s.posted, "ok") /\ WakeIf(s.wake)
      /\ NotifyOne(notFull, notFull')
  <2>1. [Parts EXCEPT !.queue = Tail(@), !.handed = [@ EXCEPT ![c] = <<Head(queue)>>],
                      !.posted = {c}] = popped
    <3>1. Parts.queue = queue /\ Parts.handed = handed
      BY DEF Parts
    <3>2. QED
      BY <3>1, Zenon
  <2>2. QED
    BY <2>1 DEF AsyncPop, Drained
<1>4. /\ Head(queue) \in Item /\ q \in Seq(Item) /\ Len(q) = Len(queue) - 1
      /\ Len(queue) \in Nat /\ Len(queue) <= Capacity /\ Capacity \in Nat
      /\ h \in [Consumers -> Seq(Item)]
  <2>1. /\ Head(queue) \in Item /\ q \in Seq(Item) /\ Len(q) = Len(queue) - 1
        /\ Len(queue) \in Nat /\ Len(queue) <= Capacity
    BY <1>1 DEF TypeOK
  <2>2. h \in [Consumers -> Seq(Item)]
    BY <1>1, <2>1 DEF TypeOK
  <2>3. QED
    BY <2>1, <2>2, QueueAssumption
<1>5. /\ popped \in PartsType /\ popped.pops = <<>> /\ popped.queue = q
      /\ popped.pushes = pendingPushes /\ popped.handed = h /\ popped.posted = {c}
      /\ popped.wake = FALSE
  <2>1. Parts \in PartsType /\ Parts.pops = <<>> /\ Parts.pushes = pendingPushes /\ Parts.wake = FALSE
    BY <1>2, PartsGood DEF GoodParts, Parts, Duo
  <2>2. {c} \in SUBSET Actors
    BY <1>1
  <2> HIDE DEF q, h
  <2>3. QED
    BY <1>4, <2>1, <2>2 DEF PartsType
<1>6. notFull' = {}
  BY <1>1, <1>3, NotifyLeavesNone DEF TypeOK
<1>7. notEmpty' = {}
  <2>1. notEmpty \in SUBSET {c}
    BY <1>1
  <2>2. QED
    BY <1>1, <1>3, <2>1, NotifyLeavesNone DEF WakeIf
<1> HIDE DEF popped, q, h
<1>8. CASE /\ status = "Open" /\ popped.pushes # <<>> /\ Len(popped.queue) < Capacity
           /\ s.queue = Append(popped.queue, Head(popped.pushes)) /\ s.pushes = Tail(popped.pushes)
           /\ s.pops = <<>> /\ s.handed = popped.handed
           /\ s.posted = popped.posted \cup {Head(popped.pushes)[1]} /\ s.wake = TRUE
  <2>1. pendingPushes = <<<<p, sent[p]>>>> /\ Head(pendingPushes) = <<p, sent[p]>>
        /\ Tail(pendingPushes) = <<>> /\ <<p, sent[p]>>[1] = p
    BY <1>1, <1>5, <1>8 DEF Sides
  <2>2. pc'[p] = "posted" /\ pc'[c] = "posted"
    BY <1>1, <1>3, <1>5, <1>8, <2>1 DEF Post
  <2>3. QED
    BY <1>1, <1>2, <1>3, <1>5, <1>6, <1>7, <1>8, <2>1, <2>2 DEF Rearrange, q, h
<1>9. CASE /\ status # "Open" \/ popped.pushes = <<>> \/ ~(Len(popped.queue) < Capacity)
           /\ s = popped
  <2>1. pendingPushes = <<>>
    BY <1>1, <1>4, <1>5, <1>9 DEF EndedIsSettled
  <2>2. pc'[p] = pc[p] /\ pc'[c] = "posted" /\ outcome'[p] = outcome[p]
    BY <1>1, <1>3, <1>5, <1>9 DEF Post
  <2>3. QED
    BY <1>1, <1>2, <1>3, <1>5, <1>6, <1>7, <1>9, <2>1, <2>2 DEF Rearrange, q, h
<1>10. QED
  BY <1>5, <1>8, <1>9, PromoteOneParts

(* async_pop keeps the two-actor invariant.                                *)
LEMMA AsyncPopDuo ==
  ASSUME NEW p, NEW c, Producers = {p}, Consumers = {c}, Duo(p, c), AsyncPop(c)
  PROVE  Sides(p, c)' /\ Waits(p, c)'
<1>1. /\ TypeOK /\ Sides(p, c) /\ Waits(p, c) /\ EndedIsSettled
      /\ p # c /\ p \in Actors /\ c \in Actors /\ Actors = {p, c}
      /\ c \in async /\ pc[c] = "idle" /\ notEmpty = {} /\ pendingPops = <<>>
  <2>1. c \in async /\ pc[c] = "idle"
    BY DEF AsyncPop
  <2>2. notEmpty = {} /\ pendingPops = <<>>
    BY <2>1 DEF Duo, Sides
  <2>3. QED
    BY <2>1, <2>2, DuoActors DEF Duo, IInv
<1>2. CASE queue # <<>>
  <2>1. /\ pendingPops' = <<>> /\ pendingPushes' = <<>> /\ notFull' = {} /\ notEmpty' = {}
        /\ pc'[c] = "posted"
        /\ UNCHANGED <<async, status, unnotified, sent>>
        /\ \/ pendingPushes = <<>> /\ pc'[p] = pc[p]
           \/ pendingPushes = <<<<p, sent[p]>>>> /\ pc'[p] = "posted"
    BY <1>2, AsyncPopParts
  <2>2. QED
    BY <1>1, <2>1 DEF Sides, Waits, Side
<1>3. CASE queue = <<>> /\ status # "Open"
  <2>1. /\ pc'[c] = "posted" /\ pc'[p] = pc[p]
        /\ UNCHANGED <<async, status, unnotified, sent, queue, pendingPushes, pendingPops, handed,
                       notFull, notEmpty>>
    BY <1>1, <1>3 DEF AsyncPop, Drained, Post
  <2>2. pendingPushes = <<>>
    BY <1>1, <1>3 DEF EndedIsSettled
  <2>3. QED
    BY <1>1, <1>3, <2>1, <2>2 DEF Sides, Waits, Side
<1>4. CASE queue = <<>> /\ status = "Open"
  <2>1. /\ pc'[c] = "parked" /\ pc'[p] = pc[p] /\ pendingPops' = Append(pendingPops, c)
        /\ UNCHANGED <<async, status, unnotified, sent, queue, pendingPushes, handed, notFull,
                       notEmpty>>
    BY <1>1, <1>4 DEF AsyncPop, Drained, TypeOK
  <2>2. pendingPops' = <<c>>
    BY <1>1, <2>1
  <2>3. QED
    BY <1>1, <1>4, <2>1, <2>2 DEF Sides, Waits, Side
<1>5. QED
  BY <1>2, <1>3, <1>4

(* So does the notify after a blocking call.                               *)
LEMMA SyncNotifyDuo ==
  ASSUME NEW p, NEW c, Producers = {p}, Consumers = {c}, Duo(p, c), NEW a \in Actors, SyncNotify(a)
  PROVE  Sides(p, c)' /\ Waits(p, c)'
<1>1. /\ TypeOK /\ Sides(p, c) /\ Waits(p, c) /\ EndedIsSettled
      /\ p # c /\ p \in Actors /\ c \in Actors /\ a \in {p, c}
      /\ p \notin Consumers /\ c \notin Producers
      /\ pc[a] = "notify" /\ pc' = [pc EXCEPT ![a] = "resume"]
      /\ UNCHANGED <<async, status, queue, pendingPushes, pendingPops, unnotified, sent, handed>>
  BY DuoActors DEF Duo, IInv, SyncNotify
<1>2. CASE a = p
  <2>1. notEmpty' = {} /\ UNCHANGED notFull
    BY <1>1, <1>2, NotifyLeavesNone DEF SyncNotify, TypeOK
  <2>2. pc'[p] = "resume" /\ pc'[c] = pc[c]
    BY <1>1, <1>2 DEF TypeOK
  <2>3. QED
    BY <1>1, <1>2, <2>1, <2>2 DEF Sides, Waits, Side
<1>3. CASE a = c
  <2>1. notFull' = {} /\ UNCHANGED notEmpty
    BY <1>1, <1>3, NotifyLeavesNone DEF SyncNotify, TypeOK
  <2>2. pc'[c] = "resume" /\ pc'[p] = pc[p]
    BY <1>1, <1>3 DEF TypeOK
  <2>3. QED
    BY <1>1, <1>3, <2>1, <2>2 DEF Sides, Waits, Side
<1>4. QED
  BY <1>1, <1>2, <1>3

(* schedule_resume_from_sync does one of three things: after a push, what  *)
(* was pushed goes to the parked pop; after a pop, the parked push moves   *)
(* into the queue; or nothing is to be done.                               *)
LEMMA ScheduleParts ==
  ASSUME NEW p, NEW c, Producers = {p}, Consumers = {c}, Duo(p, c), NEW a \in Actors,
         ScheduleResume(a)
  PROVE  /\ UNCHANGED <<async, status, unnotified, notFull, sent, received>>
         /\ \/ /\ a = p /\ pendingPops = <<c>> /\ queue # <<>> /\ status = "Open"
               /\ pendingPushes = <<>> /\ pendingPushes' = <<>> /\ pendingPops' = <<>>
               /\ queue' = Tail(queue) /\ handed' = [handed EXCEPT ![c] = <<Head(queue)>>]
               /\ pc'[p] = "idle" /\ pc'[c] = "posted" /\ notEmpty' = notEmpty
            \/ /\ a = c /\ pendingPushes = <<<<p, sent[p]>>>> /\ pendingPops = <<>>
               /\ pendingPushes' = <<>> /\ pendingPops' = <<>>
               /\ status = "Open" /\ Len(queue) < Capacity
               /\ queue' = Append(queue, <<p, sent[p]>>) /\ handed' = handed
               /\ pc'[c] = "idle" /\ pc'[p] = "posted" /\ notEmpty' = {}
            \/ /\ a = p => pendingPops = <<>> \/ queue = <<>>
               /\ a = c => pendingPushes = <<>> \/ Len(queue) = Capacity
               /\ UNCHANGED <<queue, pendingPushes, pendingPops, handed, notEmpty>>
               /\ pc'[a] = "idle" /\ \A b \in Actors : b # a => pc'[b] = pc[b]
               /\ \A b \in Actors : outcome'[b] = outcome[b]
<1>1. /\ TypeOK /\ Sides(p, c) /\ Waits(p, c) /\ EndedIsSettled
      /\ p # c /\ Actors = {p, c} /\ pc[a] = "resume" /\ a \in {p, c}
      /\ UNCHANGED <<async, status, unnotified, notFull, sent, received>>
  BY DuoActors DEF Duo, IInv, ScheduleResume
<1> DEFINE h == HandOff(Parts)
           s == PromoteOne(h)
<1>2. /\ Rearrange(s) /\ WakeIf(s.wake)
      /\ pc' = [b \in Actors |-> IF b \in s.posted THEN "posted"
                                 ELSE IF b = a THEN "idle" ELSE pc[b]]
      /\ outcome' = [b \in Actors |-> IF b \in s.posted THEN "ok" ELSE outcome[b]]
  BY DEF ScheduleResume
<1>3. /\ Parts \in PartsType /\ Parts.queue = queue /\ Parts.pushes = pendingPushes
      /\ Parts.pops = pendingPops /\ Parts.handed = handed /\ Parts.posted = {}
      /\ Parts.wake = FALSE
  BY PartsGood DEF GoodParts, Parts, Duo
<1>4. a = p => pendingPushes = <<>> /\ (pendingPops = <<>> \/ pendingPops = <<c>>)
  BY <1>1 DEF Sides
<1>5. a = c => pendingPops = <<>> /\ notEmpty = {} /\ c \notin async
               /\ (pendingPushes = <<>> \/ pendingPushes = <<<<p, sent[p]>>>>)
  BY <1>1 DEF Sides, Side
<1>6. CASE a = p /\ pendingPops # <<>> /\ queue # <<>>
  <2> DEFINE u == [Parts EXCEPT !.queue = Tail(@)]
             q == Tail(queue)
  <2>0. Head(queue) \in Item /\ q \in Seq(Item)
    BY <1>1, <1>6 DEF TypeOK
  <2>1. pendingPops = <<c>> /\ Tail(pendingPops) = <<>> /\ Head(pendingPops) = c /\ pendingPushes = <<>>
    <3>1. pendingPops = <<c>> /\ pendingPushes = <<>>
      BY <1>4, <1>6
    <3>2. Tail(<<c>>) = <<>> /\ Head(<<c>>) = c
      OBVIOUS
    <3>3. QED
      BY ONLY <3>1, <3>2
  <2>2. /\ u \in PartsType /\ u.queue = q /\ u.pushes = <<>> /\ u.pops = pendingPops
        /\ u.handed = handed /\ u.posted = {} /\ u.wake = FALSE
    <3>1. u = [Parts EXCEPT !.queue = q]
      BY <1>3
    <3> HIDE DEF q, u
    <3>2. QED
      BY <1>3, <2>0, <2>1, <3>1 DEF PartsType
  <2>3. h = CompletePop(u, Head(queue))
    BY <1>3, <1>6 DEF HandOff
  <2> HIDE DEF u, q
  <2>4. /\ h.queue = q /\ h.pushes = <<>> /\ h.pops = <<>>
        /\ h.handed = [handed EXCEPT ![c] = <<Head(queue)>>] /\ h.posted = {c} /\ h.wake = FALSE
    <3> DEFINE x == Head(queue)
    <3>1. LET t == CompletePop(u, x) IN
          /\ t.queue = u.queue /\ t.pushes = u.pushes /\ t.pops = Tail(u.pops)
          /\ t.handed = [u.handed EXCEPT ![Head(u.pops)] = <<x>>]
          /\ t.posted = u.posted \cup {Head(u.pops)} /\ t.wake = u.wake
      BY <2>2, CompletePopParts
    <3> HIDE DEF h, x
    <3>2. h = CompletePop(u, x)
      BY <2>3 DEF x
    <3>3. /\ h.queue = q /\ h.pushes = <<>> /\ h.pops = <<>>
          /\ h.handed = [handed EXCEPT ![c] = <<x>>] /\ h.posted = {c} /\ h.wake = FALSE
      BY <2>1, <2>2, <3>1, <3>2
    <3>4. QED
      BY <3>3 DEF x
  <2>5. s = h
    BY <2>4 DEF PromoteOne
  <2>6. /\ queue' = q /\ pendingPushes' = <<>> /\ pendingPops' = <<>>
        /\ handed' = [handed EXCEPT ![c] = <<Head(queue)>>] /\ notEmpty' = notEmpty
    BY <1>2, <2>4, <2>5 DEF Rearrange, WakeIf
  <2>7. pc'[p] = "idle" /\ pc'[c] = "posted"
    BY <1>1, <1>2, <1>6, <2>4, <2>5
  <2>8. status = "Open"
    BY <1>1, <1>6 DEF EndedIsSettled
  <2>9. QED
    BY <1>1, <1>6, <2>1, <2>6, <2>7, <2>8 DEF q
<1>7. CASE ~(pendingPops # <<>> /\ queue # <<>>)
  <2>1. h = Parts
    BY <1>3, <1>7 DEF HandOff
  <2>2. CASE a = p
    <3>1. s = Parts
      BY <1>3, <1>4, <2>1, <2>2 DEF PromoteOne
    <3>2. QED
      BY <1>1, <1>2, <1>3, <1>7, <2>2, <3>1 DEF Rearrange, WakeIf
  <2>3. CASE a = c
    <3>1. CASE /\ status = "Open" /\ pendingPushes # <<>> /\ Len(queue) < Capacity
               /\ s.queue = Append(queue, Head(pendingPushes)) /\ s.pushes = Tail(pendingPushes)
               /\ s.pops = <<>> /\ s.handed = handed
               /\ s.posted = {} \cup {Head(pendingPushes)[1]} /\ s.wake = TRUE
      <4>1. /\ pendingPushes = <<<<p, sent[p]>>>> /\ Head(pendingPushes) = <<p, sent[p]>>
            /\ Tail(pendingPushes) = <<>> /\ <<p, sent[p]>>[1] = p
        <5> DEFINE x == <<p, sent[p]>>
        <5>1. pendingPushes = <<x>>
          BY <1>5, <2>3, <3>1
        <5>2. x[1] = p
          OBVIOUS
        <5> HIDE DEF x
        <5>3. Head(<<x>>) = x /\ Tail(<<x>>) = <<>>
          OBVIOUS
        <5>4. QED
          BY <5>1, <5>2, <5>3 DEF x
      <4>2. notEmpty' = {}
        BY <1>2, <1>5, <2>3, <3>1, NotifyLeavesNone DEF WakeIf
      <4>3. pc'[c] = "idle" /\ pc'[p] = "posted"
        BY <1>1, <1>2, <2>3, <3>1, <4>1
      <4>4. QED
        BY <1>1, <1>2, <1>5, <2>3, <3>1, <4>1, <4>2, <4>3 DEF Rearrange
    <3>2. CASE /\ status # "Open" \/ pendingPushes = <<>> \/ ~(Len(queue) < Capacity)
               /\ s = Parts
      <4>1. pendingPushes = <<>> \/ Len(queue) = Capacity
        BY <1>1, <3>2, FullIsCapacity DEF EndedIsSettled, Room
      <4>2. QED
        BY <1>1, <1>2, <1>3, <2>3, <3>2, <4>1 DEF Rearrange, WakeIf
    <3>3. QED
      BY <1>3, <1>5, <2>1, <2>3, <3>1, <3>2, PromoteOneParts
  <2>4. QED
    BY <1>1, <2>2, <2>3
<1>8. QED
  BY <1>1, <1>5, <1>6, <1>7

(* schedule_resume_from_sync keeps the two-actor invariant.                *)
LEMMA ScheduleDuo ==
  ASSUME NEW p, NEW c, Producers = {p}, Consumers = {c}, Duo(p, c), NEW a \in Actors,
         ScheduleResume(a)
  PROVE  Sides(p, c)' /\ Waits(p, c)'
<1>1. /\ TypeOK /\ Sides(p, c) /\ Waits(p, c) /\ EndedIsSettled
      /\ p # c /\ Actors = {p, c} /\ pc[a] = "resume" /\ a \in {p, c}
      /\ UNCHANGED <<async, status, unnotified, notFull, sent>>
  BY DuoActors DEF Duo, IInv, ScheduleResume
<1>2. CASE /\ a = p /\ pendingPops = <<c>> /\ queue # <<>> /\ status = "Open"
           /\ pendingPushes = <<>> /\ pendingPushes' = <<>> /\ pendingPops' = <<>>
           /\ pc'[p] = "idle" /\ pc'[c] = "posted" /\ notEmpty' = notEmpty
  <2>1. pendingPops # <<>>
    BY <1>2
  <2>2. notFull = {} /\ notEmpty = {} /\ c \in async /\ p \notin async
    BY <1>1, <1>2, <2>1 DEF Sides, Side
  <2>3. QED
    BY <1>1, <1>2, <2>2 DEF Sides, Waits, Side
<1>3. CASE /\ a = c /\ pendingPushes = <<<<p, sent[p]>>>> /\ pendingPops = <<>>
           /\ pendingPushes' = <<>> /\ pendingPops' = <<>> /\ handed' = handed
           /\ pc'[c] = "idle" /\ pc'[p] = "posted" /\ notEmpty' = {}
  BY <1>1, <1>3 DEF Sides, Waits, Side
<1>4. CASE /\ a = p => pendingPops = <<>> \/ queue = <<>>
           /\ a = c => pendingPushes = <<>> \/ Len(queue) = Capacity
           /\ UNCHANGED <<queue, pendingPushes, pendingPops, handed, notEmpty>>
           /\ pc'[a] = "idle" /\ \A b \in Actors : b # a => pc'[b] = pc[b]
  BY <1>1, <1>4 DEF Sides, Waits, Side
<1>5. QED
  BY <1>2, <1>3, <1>4, ScheduleParts

(* So does a posted handler that the executor runs.                        *)
LEMMA ResumeDuo ==
  ASSUME NEW p, NEW c, Producers = {p}, Consumers = {c}, Duo(p, c), NEW a \in Actors, Resume(a)
  PROVE  Sides(p, c)' /\ Waits(p, c)'
<1>1. /\ TypeOK /\ Sides(p, c) /\ Waits(p, c) /\ p # c /\ a \in {p, c} /\ Actors = {p, c}
      /\ pc[a] = "posted" /\ pc'[a] \in {"idle", "done"}
      /\ \A b \in Actors : b # a => pc'[b] = pc[b]
      /\ UNCHANGED <<async, status, queue, pendingPushes, pendingPops, notFull, notEmpty,
                     unnotified, sent>>
  BY DuoActors DEF Duo, IInv, Resume, TypeOK
<1>2. handed'[c] = IF a = c THEN <<>> ELSE handed[c]
  BY <1>1, DuoActors DEF Resume, TypeOK
<1>3. QED
  BY <1>1, <1>2 DEF Sides, Waits, Side

(* So do spurious wakeups, notify_all and stuttering.                      *)
LEMMA WakeDuo ==
  ASSUME NEW p, NEW c, Producers = {p}, Consumers = {c}, Duo(p, c),
         \/ \E a \in Actors : SpuriousWake(a)
         \/ \E call \in {"close", "abandon"} : NotifyAll(call)
         \/ UNCHANGED vars
  PROVE  Sides(p, c)' /\ Waits(p, c)'
<1>1. /\ TypeOK /\ Sides(p, c) /\ Waits(p, c)
      /\ UNCHANGED <<async, status, queue, pendingPushes, pendingPops, pc, sent, handed>>
  BY DEF Duo, IInv, SpuriousWake, NotifyAll, vars
<1>2. notFull \in SUBSET {p} /\ notEmpty \in SUBSET {c}
  BY <1>1 DEF TypeOK
<1>3. /\ notFull' # {} => notFull # {} /\ unnotified' = unnotified
      /\ notEmpty' # {} => notEmpty # {} /\ unnotified' = unnotified
  BY <1>2 DEF SpuriousWake, NotifyAll, vars
<1>4. QED
  BY <1>1, <1>3 DEF Sides, Waits, Side

(* Whoever is told that the queue ended is told by a queue that ended, and *)
(* a consumer only when nothing is left for it but what the push it was    *)
(* parked for has just put in.                                             *)
LEMMA PushEnds ==
  ASSUME NEW p, NEW c, Producers = {p}, Consumers = {c}, Duo(p, c), AsyncPush(p) \/ SyncPush(p)
  PROVE  Ends(p, c)'
<1>1. /\ TypeOK /\ Waits(p, c) /\ Ends(p, c) /\ p # c /\ Actors = {p, c}
      /\ pc[p] = "idle" /\ UNCHANGED <<status, cut>>
  BY DuoActors DEF Duo, IInv, AsyncPush, SyncPush
<1>2. CASE Refusing
  <2>1. Refused(p) /\ UNCHANGED <<queue, pendingPops>>
    BY <1>2 DEF AsyncPush, SyncPush
  <2>2. /\ pc'[p] = "done" /\ pc'[c] = pc[c] /\ outcome'[c] = outcome[c]
        /\ outcome'[p] \in Over
    BY <1>1, <2>1 DEF Refused, Ended, Over, TypeOK
  <2>3. QED
    BY <1>1, <1>2, <2>1, <2>2 DEF Ends, Refusing
<1>3. CASE ~Refusing /\ AsyncPush(p)
  <2>1. status = "Open" /\ outcome[p] \notin Over /\ outcome[c] \notin Over
    BY <1>1, <1>3 DEF Ends, Refusing
  <2>2. CASE pendingPops # <<>>
    <3>1. Post({p, Head(pendingPops)}, "ok") /\ Rearrange(CompletePop(Parts, <<p, sent[p] + 1>>))
      BY <1>3, <2>2 DEF AsyncPush
    <3>2. pendingPops = <<c>> /\ Head(<<c>>) = c /\ Tail(<<c>>) = <<>>
      BY <2>2 DEF Duo, Sides
    <3>3. pendingPops' = <<>>
      <4>1. Parts \in PartsType /\ Parts.pops = pendingPops
        BY PartsGood DEF GoodParts, Parts, Duo
      <4>2. CompletePop(Parts, <<p, sent[p] + 1>>).pops = Tail(Parts.pops)
        BY <4>1, CompletePopParts
      <4>3. QED
        BY <3>1, <3>2, <4>1, <4>2 DEF Rearrange
    <3>4. pc'[c] = "posted" /\ outcome'[c] = "ok" /\ outcome'[p] = "ok"
      BY <1>1, <3>1, <3>2 DEF Post
    <3>5. QED
      BY <3>3, <3>4 DEF Ends, Over
  <2>3. CASE pendingPops = <<>>
    <3>1. /\ pc'[c] = pc[c] /\ outcome'[c] = outcome[c] /\ outcome'[p] \in {"ok", outcome[p]}
          /\ pendingPops' = <<>>
      BY <1>1, <1>3, <2>3 DEF AsyncPush, Post, Rearrange, Parts, TypeOK
    <3>2. QED
      BY <1>1, <2>1, <3>1 DEF Ends, Over
  <2>4. QED
    BY <2>2, <2>3
<1>4. CASE ~Refusing /\ SyncPush(p)
  <2>1. status = "Open" /\ outcome[p] \notin Over /\ outcome[c] \notin Over
    BY <1>1, <1>4 DEF Ends, Refusing
  <2>2. /\ pc'[c] = pc[c] /\ UNCHANGED <<outcome, pendingPops>>
        /\ queue' = queue \/ queue' = Append(queue, <<p, sent[p] + 1>>)
    BY <1>1, <1>4 DEF SyncPush, TypeOK
  <2>3. pendingPops # <<>> => Len(queue') <= 1
    <3>1. ASSUME pendingPops # <<>> PROVE queue = <<>>
      BY <1>1, <3>1 DEF Waits
    <3>2. Len(Append(<<>>, <<p, sent[p] + 1>>)) = 1 /\ Len(<<>>) = 0
      OBVIOUS
    <3>3. QED
      BY <2>2, <3>1, <3>2
  <2>4. QED
    BY <1>1, <2>1, <2>2, <2>3 DEF Ends
<1>5. QED
  BY <1>2, <1>3, <1>4

LEMMA CloseEnds ==
  ASSUME NEW p, NEW c, Producers = {p}, Consumers = {c}, Duo(p, c),
         GuardClose \/ ProducerClose(p) \/ Abandon
  PROVE  Ends(p, c)'
<1>1. /\ TypeOK /\ Sides(p, c) /\ Waits(p, c) /\ Ends(p, c) /\ p # c /\ Actors = {p, c}
      /\ p \in Actors /\ c \in Actors
  BY DuoActors DEF Duo, IInv
<1>2. c \in Parked => pendingPops # <<>>
  <2>1. c \in Parked => c \in Range(pendingPops) \/ \E item \in Range(pendingPushes) : c = item[1]
    BY DEF Parked
  <2>2. \A item \in Range(pendingPushes) : item[1] = p
    <3>1. \A item \in Range(pendingPushes) : item = <<p, sent[p]>>
      BY <1>1 DEF Sides, Range
    <3>2. <<p, sent[p]>>[1] = p
      OBVIOUS
    <3>3. QED
      BY <3>1, <3>2
  <2>3. Range(<<>>) = {}
    BY DEF Range
  <2>4. QED
    BY <1>1, <2>1, <2>2, <2>3
<1>3. ASSUME NEW pcs, CloseOpen(pcs), status = "Open", pcs[p] \in {pc[p], "done"}, pcs[c] = pc[c],
             queue' = queue, cut' \/ queue = <<>> \/ c \notin Parked
      PROVE  Ends(p, c)'
  <2>1. /\ pc'[p] = (IF p \in Parked THEN "posted" ELSE pcs[p])
        /\ pc'[c] = (IF c \in Parked THEN "posted" ELSE pcs[c])
        /\ outcome'[p] = (IF p \in Parked THEN "closed" ELSE outcome[p])
        /\ outcome'[c] = (IF c \in Parked THEN "closed" ELSE outcome[c])
        /\ pendingPops' = <<>> /\ status' = "Closed"
    BY <1>1, <1>3 DEF CloseOpen
  <2>2. outcome[p] \notin Over /\ outcome[c] \notin Over
    BY <1>1, <1>3 DEF Ends
  <2>3. c \in Parked => Len(queue) <= 1
    BY <1>1, <1>2 DEF Ends
  <2>4. QED
    BY <1>1, <1>3, <2>1, <2>2, <2>3 DEF Ends, Over
<1>4. CASE GuardClose
  BY <1>3, <1>4 DEF GuardClose
<1>5. CASE ProducerClose(p)
  <2> DEFINE finished == [pc EXCEPT ![p] = "done"]
  <2>1. finished[p] = "done" /\ finished[c] = pc[c]
    BY <1>1 DEF TypeOK
  <2>2. pc[p] = "idle" /\ UNCHANGED <<queue, cut>>
    BY <1>5 DEF ProducerClose
  <2>3. c \in Parked => queue = <<>>
    BY <1>1, <1>2, <2>2 DEF Waits
  <2>4. CASE status = "Open" /\ CloseOpen(finished)
    BY <1>3, <2>1, <2>2, <2>3, <2>4
  <2>5. CASE status # "Open" /\ pc' = finished /\ UNCHANGED <<status, pendingPops, outcome>>
    BY <1>1, <2>1, <2>2, <2>5 DEF Ends
  <2>6. QED
    BY <1>5, <2>4, <2>5 DEF ProducerClose
<1>6. CASE Abandon
  <2>1. /\ pc'[p] = (IF p \in Parked THEN "posted" ELSE pc[p])
        /\ pc'[c] = (IF c \in Parked THEN "posted" ELSE pc[c])
        /\ outcome'[p] = (IF p \in Parked THEN "abandoned" ELSE outcome[p])
        /\ outcome'[c] = (IF c \in Parked THEN "abandoned" ELSE outcome[c])
        /\ pendingPops' = <<>> /\ status' = "Abandoned" /\ queue' = <<>>
    BY <1>1, <1>6 DEF Abandon, Post
  <2>2. QED
    BY <1>1, <2>1 DEF Ends, Over
<1>7. QED
  BY <1>4, <1>5, <1>6

LEMMA PopEnds ==
  ASSUME NEW p, NEW c, Producers = {p}, Consumers = {c}, Duo(p, c), AsyncPop(c) \/ SyncPop(c)
  PROVE  Ends(p, c)'
<1>1. /\ TypeOK /\ Sides(p, c) /\ Ends(p, c) /\ EndedIsSettled /\ p # c /\ Actors = {p, c}
      /\ pc[c] = "idle" /\ pendingPops = <<>> /\ outcome[c] \notin Over
      /\ UNCHANGED <<status, cut>>
  <2>1. pc[c] = "idle"
    BY DEF AsyncPop, SyncPop
  <2>2. pendingPops = <<>> /\ outcome[c] \notin Over
    BY <2>1 DEF Duo, Sides, Ends
  <2>3. QED
    BY <2>1, <2>2, DuoActors DEF Duo, IInv, AsyncPop, SyncPop
<1>2. CASE SyncPop(c)
  <2>1. /\ pc'[p] = pc[p] /\ outcome'[p] = outcome[p] /\ pendingPops' = <<>>
        /\ \/ pc'[c] \in {"idle", "notify"} /\ outcome'[c] = outcome[c]
           \/ /\ pc'[c] = "done" /\ status # "Open" /\ outcome'[c] = Ended
              /\ queue' = <<>>
    BY <1>1, <1>2 DEF SyncPop, Drained, TypeOK
  <2>2. QED
    BY <1>1, <2>1 DEF Ends, Over, Ended
<1>3. CASE AsyncPop(c) /\ queue # <<>>
  <2>1. /\ pendingPops' = <<>> /\ pc'[c] = "posted"
        /\ pc'[p] = pc[p] \/ pc'[p] = "posted"
    BY <1>3, AsyncPopParts
  <2>2. \E t : Post(t, "ok")
    BY <1>3 DEF AsyncPop, Drained
  <2>3. /\ outcome'[p] \in {"ok", outcome[p]} /\ outcome'[c] \in {"ok", outcome[c]}
        /\ outcome'[c] = outcome[c] => pc'[c] = pc[c] \/ outcome[c] = "ok"
    BY <1>1, <2>2 DEF Post
  <2>4. QED
    BY <1>1, <2>1, <2>3 DEF Ends, Over
<1>4. CASE AsyncPop(c) /\ queue = <<>>
  <2>1. CASE status # "Open"
    <3>1. Post({c}, Ended) /\ UNCHANGED <<queue, pendingPops>>
      BY <1>1, <1>4, <2>1 DEF AsyncPop, Drained
    <3>2. pc'[p] = pc[p] /\ outcome'[p] = outcome[p] /\ pc'[c] = "posted" /\ outcome'[c] = Ended
      BY <1>1, <3>1 DEF Post
    <3>3. QED
      BY <1>1, <1>4, <2>1, <3>1, <3>2 DEF Ends, Over, Ended
  <2>2. CASE status = "Open"
    <3>1. pc'[p] = pc[p] /\ pc'[c] = "parked" /\ UNCHANGED <<queue, outcome>>
      BY <1>1, <1>4, <2>2 DEF AsyncPop, Drained, TypeOK
    <3>2. Len(queue) <= 1
      BY <1>4
    <3>3. QED
      BY <1>1, <3>1, <3>2 DEF Ends
  <2>3. QED
    BY <2>1, <2>2
<1>5. QED
  BY <1>2, <1>3, <1>4

LEMMA TailEnds ==
  ASSUME NEW p, NEW c, Producers = {p}, Consumers = {c}, Duo(p, c), NEW a \in Actors,
         SyncNotify(a) \/ ScheduleResume(a) \/ Resume(a)
  PROVE  Ends(p, c)'
<1>1. /\ TypeOK /\ Sides(p, c) /\ Ends(p, c) /\ p # c /\ Actors = {p, c} /\ a \in {p, c}
      /\ UNCHANGED <<status, cut>>
  BY DuoActors DEF Duo, IInv, SyncNotify, ScheduleResume, Resume
<1>2. CASE SyncNotify(a)
  <2>1. /\ pc[a] = "notify" /\ pc'[a] = "resume" /\ \A b \in Actors : b # a => pc'[b] = pc[b]
        /\ UNCHANGED <<outcome, queue, pendingPops>>
    BY <1>1, <1>2 DEF SyncNotify, TypeOK
  <2>2. QED
    BY <1>1, <2>1 DEF Ends
<1>3. CASE ScheduleResume(a)
  <2>1. /\ pc[a] = "resume"
        /\ \A b \in Actors : \/ pc'[b] = "posted" /\ outcome'[b] = "ok"
                             \/ /\ outcome'[b] = outcome[b]
                                /\ pc'[b] = IF b = a THEN "idle" ELSE pc[b]
    BY <1>1, <1>3 DEF ScheduleResume
  <2>2. \/ status = "Open" /\ pendingPops' = <<>>
        \/ UNCHANGED <<queue, pendingPops>>
    BY <1>3, ScheduleParts
  <2>3. outcome[a] \notin Over
    BY <1>1, <2>1 DEF Ends
  <2>4. QED
    BY <1>1, <2>1, <2>2, <2>3 DEF Ends, Over
<1>4. CASE Resume(a)
  <2>1. /\ pc[a] = "posted" /\ pc'[a] = (IF outcome[a] = "ok" THEN "idle" ELSE "done")
        /\ \A b \in Actors : b # a => pc'[b] = pc[b]
        /\ UNCHANGED <<outcome, queue, pendingPops>>
    BY <1>1, <1>4 DEF Resume, TypeOK
  <2>2. outcome[c] \in Outcomes
    BY <1>1 DEF TypeOK
  <2>3. QED
    BY <1>1, <2>1, <2>2 DEF Ends, Over, Outcomes
<1>5. QED
  BY <1>2, <1>3, <1>4

(* Every step keeps the two-actor invariant.                               *)
LEMMA StepDuo ==
  ASSUME NEW p, NEW c, Producers = {p}, Consumers = {c}, Duo(p, c), [Next]_vars
  PROVE  Duo(p, c)'
<1>1. IInv'
  BY StepGood DEF Duo
<1>2. p \in Actors /\ c \in Actors
  BY DuoActors
<1>3. Sides(p, c)' /\ Waits(p, c)' /\ Ends(p, c)'
  <2>1. ASSUME ProducerStep(p) PROVE Sides(p, c)' /\ Waits(p, c)' /\ Ends(p, c)'
    BY <1>2, <2>1, AsyncPushDuo, SyncPushDuo, CloseDuo, SyncNotifyDuo, ScheduleDuo, ResumeDuo,
       PushEnds, CloseEnds, TailEnds
       DEF ProducerStep
  <2>2. ASSUME ConsumerStep(c) PROVE Sides(p, c)' /\ Waits(p, c)' /\ Ends(p, c)'
    BY <1>2, <2>2, AsyncPopDuo, SyncPopDuo, SyncNotifyDuo, ScheduleDuo, ResumeDuo,
       PopEnds, TailEnds
       DEF ConsumerStep
  <2>3. CASE GuardClose \/ Abandon
    BY <2>3, CloseDuo, CloseEnds
  <2>4. CASE \/ \E a \in Actors : SpuriousWake(a)
             \/ \E call \in {"close", "abandon"} : NotifyAll(call)
             \/ UNCHANGED vars
    <3>1. Sides(p, c)' /\ Waits(p, c)'
      BY <2>4, WakeDuo
    <3>2. UNCHANGED <<status, cut, queue, pendingPops, pc, outcome>>
      BY <2>4 DEF SpuriousWake, NotifyAll, vars
    <3>3. Ends(p, c)'
      BY <3>2 DEF Duo, Ends
    <3>4. QED
      BY <3>1, <3>3
  <2>5. QED
    BY <2>1, <2>2, <2>3, <2>4 DEF Next, Finished
<1>4. QED
  BY <1>1, <1>3 DEF Duo

(* On a queue of one producer and one consumer no wakeup is lost: once the *)
(* blocking calls are through and notify_all is done, whoever is blocked   *)
(* or parked to push faces a full open queue, and whoever waits to pop an  *)
(* empty open one, for any capacity and in all four wirings.               *)
THEOREM NoWaiterStranded ==
  ASSUME NEW p, NEW c, Producers = {p}, Consumers = {c}
  PROVE  Spec => []NoStrandedWaiter
<1>1. Init => Duo(p, c)
  BY InitDuo
<1>2. Duo(p, c) /\ [Next]_vars => Duo(p, c)'
  BY StepDuo
<1>3. Duo(p, c) => NoStrandedWaiter
  BY DuoActors DEF Duo, IInv, Waits, NoStrandedWaiter, Settled, EndedIsSettled
<1>4. QED
  BY <1>1, <1>2, <1>3, PTL DEF Spec

(***************************************************************************)
(* The refinement. Seen through the abstract channel, what is in transit   *)
(* is the queue, what is offered are the parked pushes, what is delivered  *)
(* is what the consumer took and what a posted handler is carrying to it;  *)
(* a producer is refused when its call is completed with an error, and a   *)
(* consumer has seen the end when it is done.                              *)
(***************************************************************************)

(* Appending and concatenating one item are the same.                      *)
LEMMA AppendFacts ==
  ASSUME NEW S, NEW x \in S, NEW q \in Seq(S)
  PROVE  Append(q, x) \o <<>> = Append(q \o <<>>, x) /\ q \o <<x>> = Append(q \o <<>>, x)
OBVIOUS

(* The producers of what is offered.                                       *)
LEMMA OfferedSenders ==
  ASSUME NEW x
  PROVE  Abstract!Senders(<<>>) = {} /\ Abstract!Senders(<<x>>) = {x[1]}
<1>1. DOMAIN <<>> = {} /\ DOMAIN <<x>> = {1} /\ <<x>>[1] = x
  OBVIOUS
<1>2. QED
  BY <1>1 DEF Abstract!Senders

(* What the step tells an actor: who is refused and who has seen the end.  *)
SameRefused(p) == outcome'[p] \in Over <=> outcome[p] \in Over
SameEnded(c) == pc'[c] = "done" <=> pc[c] = "done"
SameDelivered(c) == received'[c] \o handed'[c] = received[c] \o handed[c]

LEMMA SameView ==
  ASSUME NEW p, NEW c, Producers = {p}, Consumers = {c}
  PROVE  /\ SameRefused(p) =>
              {x \in Producers : outcome'[x] \in Over} = {x \in Producers : outcome[x] \in Over}
         /\ SameEnded(c) => {x \in Consumers : pc'[x] = "done"} = {x \in Consumers : pc[x] = "done"}
         /\ SameDelivered(c) =>
              [x \in Consumers |-> received'[x] \o handed'[x]]
                = [x \in Consumers |-> received[x] \o handed[x]]
<1>1. SameRefused(p) =>
        {x \in Producers : outcome'[x] \in Over} = {x \in Producers : outcome[x] \in Over}
  BY DEF SameRefused
<1>2. SameEnded(c) =>
        {x \in Consumers : pc'[x] = "done"} = {x \in Consumers : pc[x] = "done"}
  BY DEF SameEnded
<1>3. SameDelivered(c) =>
        [x \in Consumers |-> received'[x] \o handed'[x]]
          = [x \in Consumers |-> received[x] \o handed[x]]
  BY DEF SameDelivered
<1>4. QED
  BY <1>1, <1>2, <1>3

(* A step that leaves the channel's view alone.                            *)
LEMMA ViewKept ==
  ASSUME NEW p, NEW c, Producers = {p}, Consumers = {c},
         UNCHANGED <<status, cut, sent, queue, pendingPushes>>,
         SameRefused(p), SameEnded(c), SameDelivered(c)
  PROVE  UNCHANGED Abstract!vars
BY SameView DEF Abstract!vars

(* A step that moves the oldest item of the queue to the consumer, and     *)
(* perhaps the parked push into its place.                                 *)
LEMMA ViewDelivers ==
  ASSUME NEW p, NEW c, Producers = {p}, Consumers = {c}, UNCHANGED <<status, cut, sent>>,
         queue # <<>>, status # "Abandoned", pc[c] # "done",
         SameRefused(p), SameEnded(c),
         received'[c] \o handed'[c] = Append(received[c] \o handed[c], Head(queue)),
         \/ queue' = Tail(queue) /\ pendingPushes' = pendingPushes
         \/ /\ status = "Open" /\ pendingPushes # <<>>
            /\ queue' = Append(Tail(queue), Head(pendingPushes))
            /\ pendingPushes' = Tail(pendingPushes)
  PROVE  Abstract!Next
<1> DEFINE d == [x \in Consumers |-> received[x] \o handed[x]]
<1>1. d' = [d EXCEPT ![c] = Append(@, Head(queue))]
  OBVIOUS
<1>2. Abstract!Deliver(c)
  BY <1>1, SameView DEF Abstract!Deliver
<1>3. QED
  BY <1>2 DEF Abstract!Next

(* A step that puts the producer's next item at the end of the queue, or   *)
(* parks it when the queue is full.                                        *)
LEMMA ViewSends ==
  ASSUME NEW p, NEW c, Producers = {p}, Consumers = {c}, status = "Open",
         UNCHANGED <<status, cut>>, pendingPushes = <<>>,
         sent' = [sent EXCEPT ![p] = @ + 1],
         SameRefused(p), SameEnded(c), SameDelivered(c),
         \/ /\ Len(queue) < Capacity
            /\ queue' = Append(queue, <<p, sent[p] + 1>>) /\ pendingPushes' = pendingPushes
         \/ /\ Len(queue) = Capacity
            /\ pendingPushes' = Append(pendingPushes, <<p, sent[p] + 1>>) /\ queue' = queue
  PROVE  Abstract!Next
<1>1. p \notin Abstract!Senders(pendingPushes)
  BY OfferedSenders
<1>2. Abstract!Send(p) \/ Abstract!Offer(p)
  BY <1>1, SameView DEF Abstract!Send, Abstract!Offer, Abstract!NextItem
<1>3. QED
  BY <1>2 DEF Abstract!Next

(* A push refused by a queue that ended.                                   *)
LEMMA ViewRefuses ==
  ASSUME NEW p, NEW c, Producers = {p}, Consumers = {c}, Duo(p, c), status # "Open",
         Refused(p), UNCHANGED <<status, cut, sent, queue, pendingPushes, handed, received>>
  PROVE  Abstract!Next
<1>1. TypeOK /\ EndedIsSettled /\ p # c /\ p \in Actors /\ c \in Actors
  BY DuoActors DEF Duo, IInv
<1>2. outcome'[p] \in Over /\ SameEnded(c) /\ SameDelivered(c)
  BY <1>1 DEF Refused, Ended, Over, TypeOK, SameEnded, SameDelivered
<1>3. {x \in Producers : outcome'[x] \in Over} = {x \in Producers : outcome[x] \in Over} \cup {p}
  BY <1>2
<1>4. p \notin Abstract!Senders(pendingPushes)
  BY <1>1, OfferedSenders DEF EndedIsSettled
<1>5. Abstract!Refuse(p)
  BY <1>2, <1>3, <1>4, SameView DEF Abstract!Refuse
<1>6. QED
  BY <1>5 DEF Abstract!Next

(* A consumer that sees the end.                                           *)
LEMMA ViewEnds ==
  ASSUME NEW p, NEW c, Producers = {p}, Consumers = {c}, TypeOK, status # "Open",
         queue = <<>> \/ (cut /\ status = "Closed" /\ Len(queue) <= 1),
         pc'[c] = "done", SameRefused(p), SameDelivered(c),
         UNCHANGED <<status, cut, sent, queue, pendingPushes>>
  PROVE  Abstract!Next
<1>1. {x \in Consumers : pc'[x] = "done"} = {x \in Consumers : pc[x] = "done"} \cup {c}
  OBVIOUS
<1>2. Len(queue) <= 1 => \A i, j \in DOMAIN queue : i = j
  BY DEF TypeOK
<1>3. Abstract!End(c)
  BY <1>1, <1>2, SameView DEF Abstract!End
<1>4. QED
  BY <1>3 DEF Abstract!Next

(* async_push is Pass, Send, Offer or Refuse.                              *)
LEMMA AsyncPushMaps ==
  ASSUME NEW p, NEW c, Producers = {p}, Consumers = {c}, Duo(p, c), AsyncPush(p)
  PROVE  Abstract!Next
<1> DEFINE item == <<p, sent[p] + 1>>
           d == [x \in Consumers |-> received[x] \o handed[x]]
<1>1. /\ TypeOK /\ Sides(p, c) /\ Waits(p, c) /\ Ends(p, c) /\ p # c /\ Actors = {p, c}
      /\ pc[p] = "idle" /\ UNCHANGED <<status, cut, received>>
  BY DuoActors DEF Duo, IInv, AsyncPush
<1>2. pendingPushes = <<>> /\ queue \in Seq(Item)
  BY <1>1 DEF Sides, TypeOK
<1>3. item \in Item /\ (~Refusing => status = "Open" /\ sent' = [sent EXCEPT ![p] = @ + 1])
  <2>1. sent[p] < MaxItems
    BY DEF AsyncPush
  <2>2. item \in Item
    BY <1>1, <2>1, NextItem, DuoActors
  <2>3. QED
    BY <2>2 DEF AsyncPush, Refusing
<1>4. CASE Refusing
  <2>1. Refused(p) /\ UNCHANGED <<status, cut, sent, queue, pendingPushes, handed, received>>
    BY <1>1, <1>4 DEF AsyncPush
  <2>2. QED
    BY <1>4, <2>1, ViewRefuses DEF Refusing
<1>5. CASE ~Refusing /\ pendingPops # <<>>
  <2>1. pc[c] = "parked" /\ pendingPops = <<c>> /\ handed[c] = <<>> /\ queue = <<>>
    <3>1. pc[c] = "parked"
      BY <1>1, <1>5 DEF Sides
    <3>2. QED
      BY <1>1, <1>5, <3>1 DEF Sides, Waits
  <2>2. /\ queue' = queue /\ pendingPushes' = pendingPushes
        /\ handed' = [handed EXCEPT ![Head(pendingPops)] = <<item>>]
    <3>1. Rearrange(CompletePop(Parts, item))
      BY <1>5 DEF AsyncPush
    <3>2. /\ Parts \in PartsType /\ Parts.pushes = pendingPushes /\ Parts.pops = pendingPops
          /\ Parts.queue = queue /\ Parts.handed = handed
      BY PartsGood DEF GoodParts, Parts, Duo
    <3> HIDE DEF item
    <3>3. QED
      BY <3>1, <3>2, CompletePopParts DEF Rearrange
  <2>3. Head(pendingPops) = c
    BY <2>1
  <2>4. received[c] \in Seq(Item) /\ handed'[c] = <<item>>
    BY <1>1, <2>2, <2>3, DuoActors DEF TypeOK
  <2>5. received[c] \o <<item>> = Append(received[c] \o handed[c], item)
    <3> HIDE DEF item
    <3>1. QED
      BY <1>3, <2>1, <2>4
  <2>6. d' = [d EXCEPT ![c] = Append(@, item)]
    BY <1>1, <2>4, <2>5
  <2>7. SameRefused(p) /\ SameEnded(c) /\ pc[c] # "done"
    <3>1. Post({p, Head(pendingPops)}, "ok")
      BY <1>5 DEF AsyncPush
    <3>2. outcome'[p] = "ok" /\ pc'[c] = "posted"
      BY <1>1, <2>3, <3>1 DEF Post
    <3>3. outcome[p] \notin Over
      BY <1>1 DEF Ends
    <3>4. QED
      BY <2>1, <3>2, <3>3 DEF SameRefused, SameEnded, Over
  <2>8. Abstract!Pass(p, c)
    BY <1>1, <1>2, <1>3, <1>5, <2>1, <2>2, <2>6, <2>7, SameView
       DEF Abstract!Pass, Abstract!NextItem
  <2>9. QED
    BY <2>8, DuoActors DEF Abstract!Next
<1>6. CASE ~Refusing /\ pendingPops = <<>>
  <2>1. /\ handed' = handed /\ pc'[c] = pc[c] /\ outcome'[p] \in {outcome[p], "ok"}
        /\ \/ Room /\ queue' = Append(queue, item) /\ pendingPushes' = pendingPushes
           \/ ~Room /\ queue' = queue /\ pendingPushes' = Append(pendingPushes, item)
    BY <1>1, <1>6 DEF AsyncPush, Rearrange, Parts, Post, TypeOK
  <2>2. SameRefused(p) /\ SameEnded(c) /\ SameDelivered(c)
    BY <1>1, <2>1 DEF SameRefused, SameEnded, SameDelivered, Over, Ends
  <2>3. Room => Len(queue) < Capacity
    BY DEF Room
  <2>4. QED
    BY <1>1, <1>2, <1>3, <1>6, <2>1, <2>2, <2>3, FullIsCapacity, ViewSends
<1>7. QED
  BY <1>4, <1>5, <1>6

(* push is Send or Refuse, or (it blocks) no step of the channel.          *)
LEMMA SyncPushMaps ==
  ASSUME NEW p, NEW c, Producers = {p}, Consumers = {c}, Duo(p, c), SyncPush(p)
  PROVE  [Abstract!Next]_(Abstract!vars)
<1>1. /\ TypeOK /\ Sides(p, c) /\ p # c /\ p \in Actors /\ c \in Actors /\ pc[p] = "idle"
      /\ UNCHANGED <<status, cut, pendingPushes, handed, received>>
  BY DuoActors DEF Duo, IInv, SyncPush
<1>2. pendingPushes = <<>> /\ SameDelivered(c)
  BY <1>1 DEF Sides, SameDelivered
<1>3. CASE UNCHANGED <<queue, pc, outcome, sent>>
  <2>1. SameRefused(p) /\ SameEnded(c)
    BY <1>3 DEF SameRefused, SameEnded
  <2>2. QED
    BY <1>1, <1>2, <1>3, <2>1, ViewKept
<1>4. CASE Refusing /\ Refused(p) /\ UNCHANGED <<queue, sent>>
  BY <1>1, <1>4, ViewRefuses DEF Refusing
<1>5. CASE /\ ~Refusing /\ Room /\ queue' = Append(queue, <<p, sent[p] + 1>>)
           /\ sent' = [sent EXCEPT ![p] = @ + 1]
           /\ pc' = [pc EXCEPT ![p] = "notify"] /\ UNCHANGED outcome
  <2>1. SameRefused(p) /\ SameEnded(c)
    BY <1>1, <1>5 DEF SameRefused, SameEnded, TypeOK
  <2>2. QED
    BY <1>1, <1>2, <1>5, <2>1, ViewSends DEF Room, Refusing
<1>6. QED
  BY <1>3, <1>4, <1>5 DEF SyncPush

(* What ends the stream is Close, Abandon, or (the producer of a queue     *)
(* that ended already) no step of the channel.                             *)
LEMMA EndMaps ==
  ASSUME NEW p, NEW c, Producers = {p}, Consumers = {c}, Duo(p, c),
         GuardClose \/ ProducerClose(p) \/ Abandon
  PROVE  [Abstract!Next]_(Abstract!vars)
<1>1. /\ TypeOK /\ Sides(p, c) /\ Ends(p, c) /\ p # c /\ p \in Actors /\ c \in Actors
      /\ UNCHANGED <<sent, handed, received>>
  BY DuoActors DEF Duo, IInv, GuardClose, ProducerClose, Abandon
<1>2. SameDelivered(c)
  BY <1>1 DEF SameDelivered
<1>3. /\ p \in Parked <=> pc[p] = "parked"
      /\ c \in Parked <=> pc[c] = "parked"
      /\ Abstract!Senders(pendingPushes) = IF pc[p] = "parked" THEN {p} ELSE {}
  <2>1. Range(pendingPops) = IF pc[c] = "parked" THEN {c} ELSE {}
    BY <1>1 DEF Sides, Range
  <2>2. Abstract!Senders(pendingPushes) = IF pc[p] = "parked" THEN {p} ELSE {}
    <3> DEFINE x == <<p, sent[p]>>
    <3>1. Abstract!Senders(<<>>) = {} /\ Abstract!Senders(<<x>>) = {x[1]}
      BY OfferedSenders
    <3>2. pendingPushes = IF pc[p] = "parked" THEN <<x>> ELSE <<>>
      BY <1>1 DEF Sides
    <3>3. x[1] = p
      OBVIOUS
    <3> HIDE DEF x
    <3>4. QED
      BY <3>1, <3>2, <3>3
  <2>3. Parked = Range(pendingPops) \cup Abstract!Senders(pendingPushes)
    BY DEF Parked, Abstract!Senders, Range
  <2>4. QED
    BY <1>1, <2>1, <2>2, <2>3
<1>4. ASSUME NEW how \in Over, outcome'[p] = (IF p \in Parked THEN how ELSE outcome[p]),
             pendingPushes' = <<>>
      PROVE  Abstract!RefuseOffered
  <2>1. {x \in Producers : outcome'[x] \in Over}
          = {x \in Producers : outcome[x] \in Over} \cup Abstract!Senders(pendingPushes)
    BY <1>3, <1>4
  <2>2. QED
    BY <1>4, <2>1 DEF Abstract!RefuseOffered
<1>5. ASSUME NEW pcs, CloseOpen(pcs), status = "Open", pcs[c] = pc[c], queue' = queue,
             cut' \in BOOLEAN
      PROVE  Abstract!Next
  <2>1. /\ outcome'[p] = (IF p \in Parked THEN "closed" ELSE outcome[p])
        /\ pc'[c] = (IF c \in Parked THEN "posted" ELSE pcs[c])
        /\ pendingPushes' = <<>> /\ status' = "Closed"
    BY <1>1, <1>5 DEF CloseOpen
  <2>2. Abstract!RefuseOffered
    BY <1>4, <2>1 DEF Over
  <2>3. SameEnded(c)
    BY <1>3, <1>5, <2>1 DEF SameEnded
  <2>4. Abstract!Close
    BY <1>1, <1>2, <1>5, <2>1, <2>2, <2>3, SameView DEF Abstract!Close
  <2>5. QED
    BY <2>4 DEF Abstract!Next
<1>6. CASE GuardClose
  BY <1>5, <1>6 DEF GuardClose
<1>7. CASE ProducerClose(p)
  <2> DEFINE finished == [pc EXCEPT ![p] = "done"]
  <2>1. finished[c] = pc[c] /\ UNCHANGED <<queue, cut>> /\ cut \in BOOLEAN
    BY <1>1, <1>7 DEF TypeOK, ProducerClose
  <2>2. CASE status = "Open" /\ CloseOpen(finished)
    BY <1>5, <2>1, <2>2
  <2>3. CASE pc' = finished /\ UNCHANGED <<status, pendingPushes, outcome>>
    <3>1. SameRefused(p) /\ SameEnded(c)
      BY <2>1, <2>3 DEF SameRefused, SameEnded
    <3>2. QED
      BY <1>1, <1>2, <2>1, <2>3, <3>1, ViewKept
  <2>4. QED
    BY <1>7, <2>2, <2>3 DEF ProducerClose
<1>8. CASE Abandon
  <2>1. /\ outcome'[p] = (IF p \in Parked THEN "abandoned" ELSE outcome[p])
        /\ pc'[c] = (IF c \in Parked THEN "posted" ELSE pc[c])
        /\ pendingPushes' = <<>> /\ queue' = <<>> /\ status' = "Abandoned"
        /\ status # "Abandoned" /\ UNCHANGED cut
    BY <1>1, <1>8 DEF Abandon, Post
  <2>2. Abstract!RefuseOffered
    BY <1>4, <2>1 DEF Over
  <2>3. SameEnded(c)
    BY <1>3, <2>1 DEF SameEnded
  <2>4. Abstract!Abandon
    BY <1>1, <1>2, <2>1, <2>2, <2>3, SameView DEF Abstract!Abandon
  <2>5. QED
    BY <2>4 DEF Abstract!Next
<1>9. QED
  BY <1>6, <1>7, <1>8

(* A pop is Deliver or End, or (it waits, or its handler is posted) no     *)
(* step of the channel.                                                    *)
LEMMA PopMaps ==
  ASSUME NEW p, NEW c, Producers = {p}, Consumers = {c}, Duo(p, c), AsyncPop(c) \/ SyncPop(c)
  PROVE  [Abstract!Next]_(Abstract!vars)
<1>1. /\ TypeOK /\ Sides(p, c) /\ Ends(p, c) /\ EndedIsSettled /\ pc[c] = "idle"
      /\ handed[c] = <<>> /\ p # c /\ p \in Actors /\ c \in Actors
      /\ UNCHANGED <<status, cut, sent>>
  BY DuoActors DEF Duo, IInv, Sides, AsyncPop, SyncPop
<1>2. /\ received[c] \in Seq(Item) /\ queue \in Seq(Item) /\ pendingPushes \in Seq(Item)
  BY <1>1 DEF TypeOK
<1>3. CASE queue = <<>>
  <2>1. UNCHANGED <<queue, pendingPushes, received, handed>>
    BY <1>3 DEF AsyncPop, SyncPop, Drained
  <2>2. SameDelivered(c)
    BY <2>1 DEF SameDelivered
  <2>3. SameRefused(p)
    BY <1>1, <1>3 DEF AsyncPop, SyncPop, Drained, Post, SameRefused, TypeOK
  <2>4. CASE pc'[c] = "done" /\ status # "Open"
    BY <1>1, <1>3, <2>1, <2>2, <2>3, <2>4, ViewEnds
  <2>5. CASE pc'[c] # "done"
    <3>1. SameEnded(c)
      BY <1>1, <2>5 DEF SameEnded
    <3>2. QED
      BY <1>1, <2>1, <2>2, <2>3, <3>1, ViewKept
  <2>6. pc'[c] = "done" => status # "Open"
    BY <1>1, <1>3 DEF AsyncPop, SyncPop, Drained, Post, TypeOK
  <2>7. QED
    BY <2>4, <2>5, <2>6
<1>4. CASE queue # <<>>
  <2> DEFINE x == Head(queue)
             q == Tail(queue)
  <2>1. status # "Abandoned" /\ x \in Item /\ q \in Seq(Item)
    BY <1>1, <1>2, <1>4 DEF EndedIsSettled
  <2>2. CASE SyncPop(c)
    <3>1. /\ queue' = q /\ received'[c] = Append(received[c], x)
          /\ UNCHANGED <<pendingPushes, handed, outcome>> /\ pc'[c] = "notify"
      BY <1>1, <1>4, <2>2, DuoActors DEF SyncPop, Drained, TypeOK
    <3> HIDE DEF x
    <3>2. received'[c] \o handed'[c] = Append(received[c] \o handed[c], x)
      <4>1. handed'[c] = <<>> /\ handed[c] = <<>>
        BY <1>1, <3>1
      <4>2. Append(received[c], x) \o <<>> = Append(received[c] \o <<>>, x)
        BY <1>2, <2>1, AppendFacts
      <4>3. QED
        BY <3>1, <4>1, <4>2
    <3>3. SameRefused(p) /\ SameEnded(c)
      BY <1>1, <3>1 DEF SameRefused, SameEnded
    <3>4. QED
      BY <1>1, <1>4, <2>1, <3>1, <3>2, <3>3, ViewDelivers DEF x
  <2>3. CASE AsyncPop(c)
    <3>1. handed' = [handed EXCEPT ![c] = <<x>>] /\ received' = received
      BY <1>4, <2>3, AsyncPopParts
    <3>2. handed'[c] = <<x>>
      BY <1>1, <3>1, DuoActors DEF TypeOK
    <3>3. received'[c] \o handed'[c] = Append(received[c] \o handed[c], x)
      <4> HIDE DEF x
      <4>1. received[c] \o <<x>> = Append(received[c] \o <<>>, x)
        BY <1>2, <2>1, AppendFacts
      <4>2. QED
        BY <1>1, <3>1, <3>2, <4>1
    <3>4. SameEnded(c)
      BY <1>1, <1>4, <2>3, AsyncPopParts DEF SameEnded
    <3>5. \E t : Post(t, "ok")
      BY <1>4, <2>3 DEF AsyncPop, Drained
    <3>6. outcome'[p] = outcome[p] \/ (outcome'[p] = "ok" /\ pc'[p] = "posted")
      BY <1>1, <3>5 DEF Post
    <3>7. CASE /\ pendingPushes = <<>> /\ pendingPushes' = <<>> /\ queue' = q
               /\ outcome'[p] = outcome[p]
      <4>1. SameRefused(p)
        BY <3>7 DEF SameRefused
      <4>2. QED
        BY <1>1, <1>4, <2>1, <3>3, <3>4, <3>7, <4>1, ViewDelivers
    <3>8. CASE /\ pendingPushes = <<<<p, sent[p]>>>> /\ pendingPushes' = <<>>
               /\ queue' = Append(q, <<p, sent[p]>>)
      <4> DEFINE y == <<p, sent[p]>>
      <4>1. pendingPushes = <<y>> /\ queue' = Append(q, y) /\ pendingPushes' = <<>>
        BY <3>8
      <4> HIDE DEF y
      <4>2. pendingPushes # <<>> /\ Head(pendingPushes) = y /\ Tail(pendingPushes) = <<>>
        BY <4>1
      <4>3. status = "Open" /\ pc[p] = "parked"
        BY <1>1, <4>2 DEF EndedIsSettled, Sides
      <4>4. SameRefused(p)
        BY <1>1, <3>6, <4>3 DEF SameRefused, Ends, Over
      <4>5. QED
        BY <1>1, <1>4, <2>1, <3>3, <3>4, <4>1, <4>2, <4>3, <4>4, ViewDelivers
    <3>9. QED
      BY <1>4, <2>3, <3>7, <3>8, AsyncPopParts
  <2>4. QED
    BY <2>2, <2>3
<1>5. QED
  BY <1>3, <1>4

(* schedule_resume_from_sync is Deliver, Accept, or no step of the         *)
(* channel.                                                                *)
LEMMA ScheduleMaps ==
  ASSUME NEW p, NEW c, Producers = {p}, Consumers = {c}, Duo(p, c), NEW a \in Actors,
         ScheduleResume(a)
  PROVE  [Abstract!Next]_(Abstract!vars)
<1>1. /\ TypeOK /\ Sides(p, c) /\ Ends(p, c) /\ p # c /\ Actors = {p, c}
      /\ UNCHANGED <<status, cut, sent, received>>
  BY DuoActors DEF Duo, IInv, ScheduleResume
<1>2. /\ received[c] \in Seq(Item) /\ queue \in Seq(Item) /\ pendingPushes \in Seq(Item)
  BY <1>1, DuoActors DEF TypeOK
<1>3. /\ pc[a] = "resume"
      /\ \A b \in Actors : \/ pc'[b] = "posted" /\ outcome'[b] = "ok"
                           \/ /\ outcome'[b] = outcome[b]
                              /\ pc'[b] = IF b = a THEN "idle" ELSE pc[b]
  BY <1>1 DEF ScheduleResume
<1>4. CASE /\ a = p /\ pendingPops = <<c>> /\ queue # <<>> /\ status = "Open"
           /\ pendingPushes = <<>> /\ pendingPushes' = <<>> /\ pc'[c] = "posted"
           /\ queue' = Tail(queue) /\ handed' = [handed EXCEPT ![c] = <<Head(queue)>>]
  <2> DEFINE x == Head(queue)
  <2>1. pendingPops # <<>>
    BY <1>4
  <2>2. handed[c] = <<>> /\ x \in Item /\ pc[c] = "parked"
    BY <1>1, <1>2, <1>4, <2>1 DEF Sides
  <2>3. handed'[c] = <<x>>
    BY <1>1, <1>4, DuoActors DEF TypeOK
  <2> HIDE DEF x
  <2>4. received'[c] \o handed'[c] = Append(received[c] \o handed[c], x)
    BY <1>1, <1>2, <2>2, <2>3
  <2>5. SameRefused(p) /\ SameEnded(c)
    BY <1>1, <1>3, <1>4, <2>2 DEF SameRefused, SameEnded, Ends, Over
  <2>6. QED
    BY <1>1, <1>4, <2>2, <2>4, <2>5, ViewDelivers DEF x
<1>5. CASE /\ a = c /\ pendingPushes = <<<<p, sent[p]>>>> /\ pendingPushes' = <<>>
           /\ status = "Open" /\ Len(queue) < Capacity
           /\ queue' = Append(queue, <<p, sent[p]>>) /\ handed' = handed
           /\ pc'[c] = "idle"
  <2> DEFINE y == <<p, sent[p]>>
  <2>1. pendingPushes = <<y>> /\ queue' = Append(queue, y) /\ pendingPushes' = <<>>
    BY <1>5
  <2> HIDE DEF y
  <2>2. pendingPushes # <<>> /\ Head(pendingPushes) = y /\ Tail(pendingPushes) = <<>>
    BY <2>1
  <2>3. SameRefused(p) /\ SameEnded(c) /\ SameDelivered(c)
    <3>1. SameDelivered(c)
      BY <1>1, <1>5 DEF SameDelivered
    <3>2. SameEnded(c)
      BY <1>3, <1>5 DEF SameEnded
    <3>3. outcome[p] \notin Over
      BY <1>1, <1>5 DEF Ends
    <3>4. SameRefused(p)
      BY <1>1, <1>3, <3>3 DEF SameRefused, Over
    <3>5. QED
      BY <3>1, <3>2, <3>4
  <2>4. Abstract!Accept
    BY <1>1, <1>5, <2>1, <2>2, <2>3, SameView DEF Abstract!Accept
  <2>5. QED
    BY <2>4 DEF Abstract!Next
<1>6. CASE /\ UNCHANGED <<queue, pendingPushes, handed>>
           /\ pc'[a] = "idle" /\ \A b \in Actors : b # a => pc'[b] = pc[b]
           /\ \A b \in Actors : outcome'[b] = outcome[b]
  <2>1. SameDelivered(c)
    BY <1>1, <1>6 DEF SameDelivered
  <2>2. SameEnded(c)
    <3>1. c = a => pc'[c] = "idle" /\ pc[c] = "resume"
      BY <1>3, <1>6
    <3>2. c # a => pc'[c] = pc[c]
      BY <1>1, <1>6
    <3>3. QED
      BY <3>1, <3>2 DEF SameEnded
  <2>3. SameRefused(p)
    BY <1>1, <1>6 DEF SameRefused
  <2>4. QED
    BY <1>1, <1>6, <2>1, <2>2, <2>3, ViewKept
<1>7. QED
  BY <1>4, <1>5, <1>6, ScheduleParts

(* The executor running a handler is End, or no step of the channel.       *)
LEMMA ResumeMaps ==
  ASSUME NEW p, NEW c, Producers = {p}, Consumers = {c}, Duo(p, c), NEW a \in Actors, Resume(a)
  PROVE  [Abstract!Next]_(Abstract!vars)
<1>1. /\ TypeOK /\ Ends(p, c) /\ p # c /\ p \in Actors /\ c \in Actors
      /\ pc[a] = "posted" /\ UNCHANGED <<status, cut, sent, queue, pendingPushes, outcome>>
  BY DuoActors DEF Duo, IInv, Resume
<1>2. SameDelivered(c)
  <2>1. received[c] \in Seq(Item) /\ handed[c] \in Seq(Item)
    BY <1>1, DuoActors DEF TypeOK
  <2>2. CASE a = c
    <3>1. received'[c] = received[c] \o handed[c] /\ handed'[c] = <<>>
      BY <1>1, <2>2, DuoActors DEF Resume, TypeOK
    <3>2. QED
      BY <2>1, <3>1 DEF SameDelivered
  <2>3. CASE a # c
    BY <1>1, <2>3, DuoActors DEF Resume, SameDelivered
  <2>4. QED
    BY <2>2, <2>3
<1>3. SameRefused(p)
  BY <1>1 DEF SameRefused
<1>4. CASE a = c /\ outcome[c] # "ok"
  <2>1. pc'[c] = "done" /\ outcome[c] \in Over
    BY <1>1, <1>4 DEF Resume, Ends, TypeOK, Outcomes, Over
  <2>2. status # "Open" /\ (queue = <<>> \/ (cut /\ status = "Closed" /\ Len(queue) <= 1))
    BY <1>1, <2>1 DEF Ends
  <2>3. QED
    BY <1>1, <1>2, <1>3, <2>1, <2>2, ViewEnds
<1>5. CASE a # c \/ outcome[c] = "ok"
  <2>1. SameEnded(c)
    BY <1>1, <1>5 DEF Resume, TypeOK, SameEnded
  <2>2. QED
    BY <1>1, <1>2, <1>3, <2>1, ViewKept
<1>6. QED
  BY <1>4, <1>5

(* A notification, a wakeup and stuttering are no steps of the channel.    *)
LEMMA WakeMaps ==
  ASSUME NEW p, NEW c, Producers = {p}, Consumers = {c}, Duo(p, c),
         \/ \E a \in Actors : SpuriousWake(a) \/ SyncNotify(a)
         \/ \E call \in {"close", "abandon"} : NotifyAll(call)
         \/ UNCHANGED vars
  PROVE  [Abstract!Next]_(Abstract!vars)
<1>1. UNCHANGED <<status, cut, sent, queue, pendingPushes, outcome, received, handed>>
  BY DEF SpuriousWake, SyncNotify, NotifyAll, vars
<1>2. SameRefused(p) /\ SameDelivered(c)
  BY <1>1 DEF SameRefused, SameDelivered
<1>3. SameEnded(c)
  <2>1. \/ pc' = pc
        \/ \E a \in Actors : pc[a] = "notify" /\ pc' = [pc EXCEPT ![a] = "resume"]
    BY DEF SpuriousWake, SyncNotify, NotifyAll, vars
  <2>2. TypeOK /\ c \in Actors
    BY DuoActors DEF Duo, IInv
  <2>3. QED
    BY <2>1, <2>2 DEF SameEnded, TypeOK
<1>4. QED
  BY <1>1, <1>2, <1>3, ViewKept

(* Every step of the queue is a step of the channel or a stutter.          *)
LEMMA StepMaps ==
  ASSUME NEW p, NEW c, Producers = {p}, Consumers = {c}, Duo(p, c), [Next]_vars
  PROVE  [Abstract!Next]_(Abstract!vars)
<1>1. p \in Actors /\ c \in Actors
  BY DuoActors
<1>2. ASSUME ProducerStep(p) PROVE [Abstract!Next]_(Abstract!vars)
  BY <1>1, <1>2, AsyncPushMaps, SyncPushMaps, EndMaps, WakeMaps, ScheduleMaps, ResumeMaps
     DEF ProducerStep
<1>3. ASSUME ConsumerStep(c) PROVE [Abstract!Next]_(Abstract!vars)
  BY <1>1, <1>3, PopMaps, WakeMaps, ScheduleMaps, ResumeMaps DEF ConsumerStep
<1>4. CASE GuardClose \/ Abandon
  BY <1>4, EndMaps
<1>5. CASE \/ \E a \in Actors : SpuriousWake(a)
           \/ \E call \in {"close", "abandon"} : NotifyAll(call)
           \/ UNCHANGED vars
  BY <1>5, WakeMaps
<1>6. QED
  BY <1>2, <1>3, <1>4, <1>5 DEF Next, Finished

(* The queue of one producer and one consumer implements the first-in      *)
(* first-out channel, for any capacity, any number of items and in all     *)
(* four wirings: no mix of push, async_push, pop and async_pop, with       *)
(* close() or abandon() at any point, reorders, loses or repeats an item,  *)
(* refuses one without telling its producer, or tells the consumer the end *)
(* while the channel still has something for it.                           *)
THEOREM QueueIsChannel ==
  ASSUME NEW p, NEW c, Producers = {p}, Consumers = {c}
  PROVE  Spec => ImplementsChannel
<1>1. Init => Duo(p, c)
  BY InitDuo
<1>2. Duo(p, c) /\ [Next]_vars => Duo(p, c)'
  BY StepDuo
<1>3. Init => Abstract!Init
  <2>1. ASSUME Init PROVE Abstract!Init
    <3>1. /\ {x \in Producers : outcome[x] \in Over} = {}
          /\ {x \in Consumers : pc[x] = "done"} = {}
      BY <2>1 DEF Init, Over, Actors
    <3>2. [x \in Consumers |-> received[x] \o handed[x]] = [x \in Consumers |-> <<>>]
      BY <2>1 DEF Init
    <3>3. QED
      BY <2>1, <3>1, <3>2 DEF Init, Abstract!Init
  <2>2. QED
    BY <2>1
<1>4. Duo(p, c) /\ [Next]_vars => [Abstract!Next]_(Abstract!vars)
  BY StepMaps
<1>5. QED
  BY <1>1, <1>2, <1>3, <1>4, PTL DEF Spec, ImplementsChannel, Abstract!Spec
=============================================================================
