------------------------- MODULE SemaphoreCorProofs -------------------------
(***************************************************************************)
(* Proofs about SemaphoreCor, for any number of clients, any initial count *)
(* and any sizes of request.                                               *)
(*                                                                         *)
(* The invariant is inductive only as a whole. That the oldest request is  *)
(* really blocked survives an acquire because the newcomer is not in the   *)
(* deque (DequeIsParked); it holds again when release unlocks because a    *)
(* cancelled semaphore has an empty deque (CancelledIsEmpty) and any other *)
(* is drained up to the first request that does not fit.                   *)
(*                                                                         *)
(* Conservation is about a sum over the guards, which is a recursive       *)
(* function on sets. What it takes to reason about it is proved here from  *)
(* the definition, by induction on the finite set of guards.               *)
(*                                                                         *)
(* The second half is about the socket, another place where threads take   *)
(* turns: it is an instance here, under the name Sink.                     *)
(***************************************************************************)
EXTENDS SemaphoreCor, FiniteSetTheorems, WellFoundedInduction, TLAPS

IInv ==
  /\ TypeOK
  /\ DequeIsParked
  /\ HeadIsBlocked
  /\ CancelledIsEmpty

(***************************************************************************)
(* Sequences without repetition.                                           *)
(***************************************************************************)
Distinct(s) == \A i, j \in DOMAIN s : s[i] = s[j] => i = j

(* A sequence without repetitions stays one when something new is put at   *)
(* its end ...                                                             *)
LEMMA AppendDistinct ==
  ASSUME NEW S, NEW s \in Seq(S), NEW e \in S, Distinct(s), e \notin Range(s)
  PROVE  /\ Append(s, e) \in Seq(S)
         /\ Distinct(Append(s, e))
         /\ Range(Append(s, e)) = Range(s) \cup {e}
<1> DEFINE t == Append(s, e)
<1>1. /\ t \in Seq(S) /\ DOMAIN t = 1 .. Len(s) + 1 /\ DOMAIN s = 1 .. Len(s)
      /\ \A i \in 1 .. Len(s) : t[i] = s[i]
      /\ t[Len(s) + 1] = e /\ Len(s) \in Nat
  OBVIOUS
<1> HIDE DEF t
<1>2. \A i \in DOMAIN t : i \in DOMAIN s \/ i = Len(s) + 1
  BY <1>1
<1>3. \A i \in DOMAIN s : i \in DOMAIN t /\ t[i] = s[i]
  BY <1>1
<1>4. Len(s) + 1 \in DOMAIN t
  BY <1>1
<1>5. Distinct(t)
  BY <1>1, <1>2, <1>3 DEF Distinct, Range
<1>6. Range(t) = Range(s) \cup {e}
  BY <1>1, <1>2, <1>3, <1>4 DEF Range
<1>7. QED
  BY <1>1, <1>5, <1>6 DEF t

(* ... and when its head is taken off.                                     *)
LEMMA TailDistinct ==
  ASSUME NEW S, NEW s \in Seq(S), s # <<>>, Distinct(s)
  PROVE  /\ Head(s) \in S /\ Tail(s) \in Seq(S)
         /\ Distinct(Tail(s))
         /\ Range(Tail(s)) = Range(s) \ {Head(s)}
<1> DEFINE t == Tail(s)
<1>1. /\ t \in Seq(S) /\ Len(s) \in Nat \ {0} /\ Head(s) = s[1] /\ Head(s) \in S
      /\ DOMAIN t = 1 .. Len(s) - 1 /\ DOMAIN s = 1 .. Len(s)
      /\ \A i \in 1 .. Len(s) - 1 : t[i] = s[i + 1]
  OBVIOUS
<1> HIDE DEF t
<1>2. \A i \in DOMAIN t : i + 1 \in DOMAIN s /\ t[i] = s[i + 1] /\ i + 1 # 1
  BY <1>1
<1>3. \A i \in DOMAIN s : i # 1 => i - 1 \in DOMAIN t /\ t[i - 1] = s[i]
  BY <1>1
<1>4. 1 \in DOMAIN s
  BY <1>1
<1>5. Distinct(t)
  BY <1>1, <1>2 DEF Distinct
<1>6. Range(t) = Range(s) \ {Head(s)}
  <2>1. ASSUME NEW x \in Range(t) PROVE x \in Range(s) /\ x # s[1]
    BY <1>2, <1>4 DEF Range, Distinct
  <2>2. ASSUME NEW x \in Range(s), x # s[1] PROVE x \in Range(t)
    <3>1. PICK i \in DOMAIN s : x = s[i]
      BY DEF Range
    <3>2. i # 1
      BY <2>2, <3>1
    <3>3. i - 1 \in DOMAIN t /\ t[i - 1] = x
      BY <1>3, <3>1, <3>2
    <3>4. QED
      BY <3>3 DEF Range
  <2>3. QED
    BY <1>1, <2>1, <2>2
<1>7. QED
  BY <1>1, <1>5, <1>6 DEF t

(***************************************************************************)
(* The invariant.                                                          *)
(***************************************************************************)
(* A new semaphore satisfies the invariant.                                *)
LEMMA InitGood == Init => IInv
<1> SUFFICES ASSUME Init PROVE IInv
  OBVIOUS
<1>1. waiters \in Seq(Clients) /\ DOMAIN waiters = {} /\ Parked = {}
  BY DEF Init, Parked, Range
<1>2. TypeOK
  BY <1>1, SemaphoreAssumption DEF Init, TypeOK, Places
<1>3. DequeIsParked
  BY <1>1 DEF Init, DequeIsParked
<1>4. HeadIsBlocked /\ CancelledIsEmpty
  BY DEF Init, HeadIsBlocked, CancelledIsEmpty
<1>5. QED
  BY <1>2, <1>3, <1>4 DEF IInv

(* Every action preserves it: acquire, release, the turns of the drain     *)
(* loop and cancel.                                                        *)
LEMMA StepGood == IInv /\ [Next]_vars => IInv'
<1> SUFFICES ASSUME IInv, [Next]_vars PROVE IInv'
  OBVIOUS
<1> USE SemaphoreAssumption DEF IInv, Places
<1>w. /\ waiters \in Seq(Clients) /\ Distinct(waiters)
      /\ \A c \in Clients : pc[c] = "parked" <=> c \in Range(waiters)
      /\ waiters # <<>> => Head(waiters) \in Range(waiters) /\ Head(waiters) \in Clients
  BY DEF TypeOK, DequeIsParked, Distinct, Parked, Range
<1>1. ASSUME NEW c \in Clients, NEW n \in Requests, AcquireCancelled(c, n)
      PROVE  IInv'
  BY <1>1, <1>w
  DEF AcquireCancelled, AcquireStart, TypeOK, DequeIsParked, HeadIsBlocked,
      CancelledIsEmpty, Parked
<1>2. ASSUME NEW c \in Clients, NEW n \in Requests, AcquireNothing(c, n)
      PROVE  IInv'
  BY <1>2, <1>w
  DEF AcquireNothing, AcquireStart, TypeOK, DequeIsParked, HeadIsBlocked,
      CancelledIsEmpty, Parked
<1>3. ASSUME NEW c \in Clients, NEW n \in Requests, AcquireNow(c, n)
      PROVE  IInv'
  <2>1. available' \in Nat
    BY <1>3 DEF AcquireNow, MayGrant, TypeOK
  <2>2. QED
    BY <1>3, <1>w, <2>1
    DEF AcquireNow, AcquireStart, MayGrant, TypeOK, DequeIsParked, HeadIsBlocked,
        CancelledIsEmpty, Parked
<1>4. ASSUME NEW c \in Clients, NEW n \in Requests, AcquireLater(c, n)
      PROVE  IInv'
  <2>1. /\ ~draining /\ ~cancelled /\ pc[c] = "idle" /\ n \in Nat
        /\ waiters' = Append(waiters, c)
        /\ pc' = [pc EXCEPT ![c] = "parked"]
        /\ permits' = [permits EXCEPT ![c] = n]
        /\ UNCHANGED <<available, cancelled, draining>>
    BY <1>4 DEF AcquireLater, AcquireStart
  <2>2. c \notin Range(waiters)
    BY <1>w, <2>1
  <2>3. /\ waiters' \in Seq(Clients) /\ Distinct(waiters')
        /\ Range(waiters') = Range(waiters) \cup {c}
    BY <1>w, <2>1, <2>2, AppendDistinct
  <2>4. TypeOK'
    BY <2>1, <2>3 DEF TypeOK
  <2>5. DequeIsParked'
    BY <1>w, <2>1, <2>3 DEF TypeOK, DequeIsParked, Parked, Distinct
  <2>6. HeadIsBlocked'
    <3>1. CASE waiters = <<>>
      <4>1. Head(waiters') = c
        BY <2>1, <3>1
      <4>2. n > available
        BY <1>4, <2>1, <3>1 DEF AcquireLater, MayGrant, TypeOK
      <4>3. QED
        BY <2>1, <4>1, <4>2 DEF HeadIsBlocked, TypeOK
    <3>2. CASE waiters # <<>>
      <4>1. Head(waiters') = Head(waiters)
        BY <1>w, <2>1, <3>2
      <4>2. Head(waiters) # c
        BY <1>w, <2>2, <3>2
      <4>3. QED
        BY <1>w, <2>1, <3>2, <4>1, <4>2 DEF HeadIsBlocked, TypeOK
    <3>3. QED
      BY <3>1, <3>2
  <2>7. QED
    BY <2>1, <2>4, <2>5, <2>6 DEF CancelledIsEmpty
<1>5. ASSUME NEW c \in Clients, Deliver(c) PROVE IInv'
  <2>1. /\ pc[c] # "parked" /\ pc \in [Clients -> Places]
        /\ \E q \in {"holding", "done"} : pc' = [pc EXCEPT ![c] = q]
        /\ UNCHANGED <<available, cancelled, waiters, draining, permits>>
    BY <1>5 DEF Deliver, TypeOK
  <2>2. TypeOK'
    BY <2>1 DEF TypeOK
  <2>3. Parked' = Parked
    BY <2>1 DEF Parked
  <2>4. QED
    BY <2>1, <2>2, <2>3 DEF DequeIsParked, HeadIsBlocked, CancelledIsEmpty
<1>6. ASSUME NEW c \in Clients, ReleaseNothing(c) PROVE IInv'
  BY <1>6, <1>w
  DEF ReleaseNothing, TypeOK, DequeIsParked, HeadIsBlocked, CancelledIsEmpty, Parked
<1>7. ASSUME NEW c \in Clients, Release(c) PROVE IInv'
  BY <1>7, <1>w
  DEF Release, TypeOK, DequeIsParked, HeadIsBlocked, CancelledIsEmpty, Parked
<1>8. ASSUME DrainOne PROVE IInv'
  <2> DEFINE h == Head(waiters)
  <2>1. /\ draining /\ ~cancelled /\ waiters # <<>> /\ permits[h] <= available
        /\ available' = available - permits[h]
        /\ waiters' = Tail(waiters)
        /\ pc' = [pc EXCEPT ![h] = "granted"]
        /\ UNCHANGED <<cancelled, draining, permits>>
    BY <1>8 DEF DrainOne, HeadFits
  <2>2. /\ h \in Clients /\ waiters' \in Seq(Clients) /\ Distinct(waiters')
        /\ Range(waiters') = Range(waiters) \ {h}
    BY <1>w, <2>1, TailDistinct
  <2> HIDE DEF h
  <2>3. available' \in Nat
    BY <2>1, <2>2 DEF TypeOK
  <2>4. TypeOK'
    BY <2>1, <2>2, <2>3 DEF TypeOK
  <2>5. DequeIsParked'
    BY <1>w, <2>1, <2>2 DEF TypeOK, DequeIsParked, Parked, Distinct
  <2>6. QED
    BY <2>1, <2>4, <2>5 DEF HeadIsBlocked, CancelledIsEmpty
<1>9. ASSUME DrainStop PROVE IInv'
  <2>1. waiters # <<>> => permits[Head(waiters)] > available
    BY <1>9, <1>w DEF DrainStop, HeadFits, CancelledIsEmpty, TypeOK
  <2>2. QED
    BY <1>9, <2>1
    DEF DrainStop, TypeOK, DequeIsParked, HeadIsBlocked, CancelledIsEmpty, Parked
<1>10. ASSUME Cancel PROVE IInv'
  <2>1. waiters' \in Seq(Clients) /\ DOMAIN waiters' = {} /\ Range(waiters') = {}
    BY <1>10 DEF Cancel, Range
  <2>2. TypeOK'
    BY <1>10, <2>1 DEF Cancel, TypeOK
  <2>3. DequeIsParked'
    BY <1>10, <1>w, <2>1 DEF Cancel, DequeIsParked, Parked, TypeOK
  <2>4. QED
    BY <1>10, <2>2, <2>3 DEF Cancel, HeadIsBlocked, CancelledIsEmpty
<1>11. CASE UNCHANGED vars
  BY <1>11 DEF vars, TypeOK, DequeIsParked, HeadIsBlocked, CancelledIsEmpty, Parked
<1>12. CASE Finished
  BY <1>11, <1>12 DEF Finished
<1>13. QED
  BY <1>1, <1>2, <1>3, <1>4, <1>5, <1>6, <1>7, <1>8, <1>9, <1>10, <1>11, <1>12
  DEF Next, Acquire

(* The invariant holds in every state.                                     *)
LEMMA Inductive == Spec => []IInv
BY InitGood, StepGood, PTL DEF Spec

(* The permits never underflow: available is a natural number in every     *)
(* state, for any sequence of acquires, releases, drains and a cancel.     *)
THEOREM TypeCorrect == Spec => []TypeOK
<1>1. IInv => TypeOK
  BY DEF IInv
<1>2. QED
  BY Inductive, <1>1, PTL

(* The deque and the parked clients are the same, each client once.        *)
THEOREM DequeCorrect == Spec => []DequeIsParked
<1>1. IInv => DequeIsParked
  BY DEF IInv
<1>2. QED
  BY Inductive, <1>1, PTL

(* No wakeup is lost: whenever nobody is inside release, the oldest parked *)
(* request asks for more than there is.                                    *)
THEOREM NoLostWakeup == Spec => []HeadIsBlocked
<1>1. IInv => HeadIsBlocked
  BY DEF IInv
<1>2. QED
  BY Inductive, <1>1, PTL

(***************************************************************************)
(* Sums. MapThenSumSet is a recursive function that takes the elements off *)
(* in the order CHOOSE gives them. On a finite set the order is of no      *)
(* consequence: there is a function on its subsets from which any element  *)
(* may be taken off (Additive), and the recursion defines no other.        *)
(***************************************************************************)
Pick(s) == CHOOSE x \in s : TRUE

FoldsTo(S, w, g) ==
  g = [s \in SUBSET S |-> IF s = {} THEN 0 ELSE w[Pick(s)] + g[s \ {Pick(s)}]]

SumOver(S, w) == (CHOOSE g : FoldsTo(S, w, g))[S]

Additive(S, w, g) ==
  /\ g \in [SUBSET S -> Nat]
  /\ g[{}] = 0
  /\ \A s \in SUBSET S : \A x \in s : g[s] = w[x] + g[s \ {x}]

(* Held is such a sum.                                                     *)
LEMMA HeldIsSum ==
  /\ Held = SumOver(Holders, permits)
  /\ Held' = SumOver(Holders', permits')
<1>1. Held = SumOver(Holders, permits)
  BY Zenon DEF Held, MapThenSumSet, MapThenFoldSet, SumOver, FoldsTo, Pick
<1>2. Held' = SumOver(Holders', permits')
  BY Zenon DEF Held, MapThenSumSet, MapThenFoldSet, SumOver, FoldsTo, Pick
<1>3. QED
  BY <1>1, <1>2

(* A set of subsets of a finite set to which each subset belongs when all  *)
(* those with one element less do holds the whole set.                     *)
LEMMA SubsetInduction ==
  ASSUME NEW S, IsFiniteSet(S), NEW Q,
         \A T \in SUBSET S : (\A x \in T : T \ {x} \in Q) => T \in Q
  PROVE  S \in Q
<1> DEFINE F == FiniteSubsetsOf(S)
           R == StrictSubsetOrdering(S)
           B == F \ Q
<1>1. IsWellFoundedOn(R, F)
  BY FS_StrictSubsetOrderingWellFounded
<1>2. \A T \in SUBSET S : T \in F
  BY FS_Subset DEF FiniteSubsetsOf
<1>3. \A T \in F : T \in SUBSET S
  BY DEF FiniteSubsetsOf
<1>4. \A T \in SUBSET S : \A x \in T : <<T \ {x}, T>> \in R
  BY DEF StrictSubsetOrdering
<1>5. B \subseteq F
  OBVIOUS
<1>6. SUFFICES ASSUME B # {} PROVE FALSE
  BY <1>2
<1> HIDE DEF F, R, B
<1>7. PICK T \in B : \A U \in B : ~ (<<U, T>> \in R)
  BY <1>1, <1>5, <1>6, WFMin
<1>8. T \in SUBSET S /\ T \notin Q
  BY <1>3, <1>7 DEF B
<1>9. PICK x \in T : T \ {x} \notin Q
  BY <1>8
<1>10. T \ {x} \in B
  BY <1>2, <1>8, <1>9 DEF B
<1>11. QED
  BY <1>4, <1>7, <1>8, <1>10

(* There is an additive function on the subsets of a finite set.           *)
LEMMA AdditiveExists ==
  ASSUME NEW S, IsFiniteSet(S), NEW w \in [S -> Nat]
  PROVE  \E g : Additive(S, w, g)
<1> DEFINE Q == {T \in SUBSET S : \E g : Additive(T, w, g)}
<1>1. {} \in Q
  <2> DEFINE g == [s \in SUBSET {} |-> 0]
  <2>1. Additive({}, w, g)
    BY DEF Additive
  <2>2. QED
    BY <2>1
<1>2. ASSUME NEW T \in SUBSET S, NEW x \in T, T \ {x} \in Q
      PROVE  T \in Q
  <2>1. PICK g : Additive(T \ {x}, w, g)
    BY <1>2
  <2> DEFINE h == [s \in SUBSET T |-> IF x \in s THEN w[x] + g[s \ {x}] ELSE g[s]]
  <2>2. /\ g \in [SUBSET (T \ {x}) -> Nat] /\ g[{}] = 0
        /\ \A s \in SUBSET (T \ {x}) : \A y \in s : g[s] = w[y] + g[s \ {y}]
    BY <2>1 DEF Additive
  <2>3. \A s \in SUBSET T : s \ {x} \in SUBSET (T \ {x}) /\ (x \notin s => s \in SUBSET (T \ {x}))
    OBVIOUS
  <2>4. \A y \in T : w[y] \in Nat
    OBVIOUS
  <2>5. /\ DOMAIN h = SUBSET T
        /\ \A s \in SUBSET T : h[s] = IF x \in s THEN w[x] + g[s \ {x}] ELSE g[s]
    OBVIOUS
  <2>6. h \in [SUBSET T -> Nat] /\ h[{}] = 0
    BY <2>2, <2>3, <2>4
  <2> HIDE DEF h
  <2>7. ASSUME NEW s \in SUBSET T, NEW y \in s
        PROVE  h[s] = w[y] + h[s \ {y}]
    <3>1. s \ {y} \in SUBSET T /\ y \in T
      OBVIOUS
    <3>2. CASE x \notin s
      <4>1. h[s] = g[s] /\ h[s \ {y}] = g[s \ {y}] /\ s \in SUBSET (T \ {x})
        BY <2>3, <2>5, <3>1, <3>2
      <4>2. QED
        BY <2>2, <4>1
    <3>3. CASE x \in s /\ y = x
      BY <2>5, <3>1, <3>3
    <3>4. CASE x \in s /\ y # x
      <4>1. h[s] = w[x] + g[s \ {x}] /\ h[s \ {y}] = w[x] + g[(s \ {y}) \ {x}]
        BY <2>5, <3>1, <3>4
      <4>2. s \ {x} \in SUBSET (T \ {x}) /\ y \in s \ {x}
        BY <3>4
      <4>3. (s \ {x}) \ {y} = (s \ {y}) \ {x}
        OBVIOUS
      <4>4. g[s \ {x}] = w[y] + g[(s \ {y}) \ {x}]
        BY <2>2, <4>2, <4>3
      <4>5. g[(s \ {y}) \ {x}] \in Nat /\ w[x] \in Nat /\ w[y] \in Nat
        BY <2>2, <2>3, <2>4, <3>1
      <4>6. QED
        BY <4>1, <4>4, <4>5
    <3>5. QED
      BY <3>2, <3>3, <3>4
  <2>8. Additive(T, w, h)
    BY <2>6, <2>7 DEF Additive
  <2>9. QED
    BY <2>8
<1> HIDE DEF Q
<1>3. S \in Q
  <2>1. ASSUME NEW T \in SUBSET S, \A x \in T : T \ {x} \in Q
        PROVE  T \in Q
    <3>1. CASE T = {}
      BY <1>1, <3>1
    <3>2. CASE T # {}
      BY <1>2, <2>1, <3>2
    <3>3. QED
      BY <3>1, <3>2
  <2>2. QED
    BY <2>1, SubsetInduction
<1>4. QED
  BY <1>3 DEF Q

(* The sum over a subset of a finite set is what any additive function on  *)
(* the whole gives for it.                                                 *)
LEMMA SumIsAdditive ==
  ASSUME NEW D, IsFiniteSet(D), NEW w, NEW a, Additive(D, w, a), NEW S \in SUBSET D
  PROVE  SumOver(S, w) = a[S]
<1> DEFINE g == [s \in SUBSET S |-> a[s]]
           f == CHOOSE h : FoldsTo(S, w, h)
           Q == {T \in SUBSET S : f[T] = a[T]}
<1>1. /\ a[{}] = 0 /\ \A s \in SUBSET D : \A x \in s : a[s] = w[x] + a[s \ {x}]
  BY DEF Additive
<1>2. \A s \in SUBSET S : s # {} => Pick(s) \in s
  BY DEF Pick
<1>3. FoldsTo(S, w, g)
  <2> DEFINE k == [s \in SUBSET S |-> IF s = {} THEN 0 ELSE w[Pick(s)] + g[s \ {Pick(s)}]]
  <2>1. ASSUME NEW s \in SUBSET S PROVE g[s] = k[s]
    <3>1. CASE s = {}
      BY <1>1, <3>1
    <3>2. CASE s # {}
      <4>1. Pick(s) \in s /\ s \in SUBSET D /\ s \ {Pick(s)} \in SUBSET S
        BY <1>2, <3>2
      <4>2. QED
        BY <1>1, <3>2, <4>1
    <3>3. QED
      BY <3>1, <3>2
  <2>2. g = k
    BY <2>1
  <2>3. QED
    BY <2>2 DEF FoldsTo
<1>4. FoldsTo(S, w, f)
  BY <1>3, Zenon
<1>5. \A s \in SUBSET S : f[s] = IF s = {} THEN 0 ELSE w[Pick(s)] + f[s \ {Pick(s)}]
  BY <1>4 DEF FoldsTo
<1>6. SumOver(S, w) = f[S]
  BY DEF SumOver
<1> HIDE DEF f
<1>7. f[{}] = a[{}]
  BY <1>1, <1>5
<1>8. S \in Q
  <2>1. ASSUME NEW T \in SUBSET S, \A x \in T : T \ {x} \in Q
        PROVE  T \in Q
    <3>1. CASE T = {}
      BY <1>1, <1>5, <3>1
    <3>2. CASE T # {}
      <4>1. Pick(T) \in T /\ T \in SUBSET D /\ f[T \ {Pick(T)}] = a[T \ {Pick(T)}]
        BY <1>2, <2>1, <3>2
      <4>2. f[T] = a[T]
        BY <1>1, <1>5, <3>2, <4>1
      <4>3. QED
        BY <4>2
    <3>3. QED
      BY <3>1, <3>2
  <2>2. IsFiniteSet(S)
    BY FS_Subset
  <2> HIDE DEF Q
  <2>3. QED
    BY <2>1, <2>2, SubsetInduction
<1>9. QED
  BY <1>6, <1>8

(* Three facts about sums of naturals: the empty one is zero, one more     *)
(* element adds its weight, and weights elsewhere make no difference.      *)
LEMMA SumOfNone == ASSUME NEW w PROVE SumOver({}, w) = 0
<1> DEFINE g == [s \in SUBSET {} |-> 0]
<1>1. Additive({}, w, g)
  BY DEF Additive
<1>2. IsFiniteSet({})
  BY FS_EmptySet
<1> HIDE DEF g
<1>3. SumOver({}, w) = g[{}]
  BY <1>1, <1>2, SumIsAdditive
<1>4. QED
  BY <1>1, <1>3 DEF Additive

(* One member more adds its weight.                                        *)
LEMMA SumAddsOne ==
  ASSUME NEW D, NEW w \in [D -> Nat], NEW S \in SUBSET D, IsFiniteSet(S), NEW c \in D \ S
  PROVE  /\ SumOver(S \cup {c}, w) = w[c] + SumOver(S, w)
         /\ SumOver(S, w) \in Nat
<1> DEFINE T == S \cup {c}
           v == [x \in T |-> w[x]]
<1>1. IsFiniteSet(T) /\ v \in [T -> Nat] /\ S \in SUBSET T /\ c \in T /\ T \ {c} = S
  BY FS_AddElement
<1>2. PICK a : Additive(T, v, a)
  BY <1>1, AdditiveExists
<1>3. Additive(T, w, a)
  BY <1>2 DEF Additive
<1>4. SumOver(T, w) = a[T] /\ SumOver(S, w) = a[S]
  BY <1>1, <1>3, SumIsAdditive
<1>5. a[T] = w[c] + a[S] /\ a[S] \in Nat
  BY <1>1, <1>3 DEF Additive
<1>6. QED
  BY <1>4, <1>5

(* Only the weights of the members count.                                  *)
LEMMA SumOfSame ==
  ASSUME NEW D, NEW v \in [D -> Nat], NEW w, NEW S \in SUBSET D, IsFiniteSet(S),
         \A x \in S : w[x] = v[x]
  PROVE  SumOver(S, w) = SumOver(S, v)
<1> DEFINE u == [x \in S |-> v[x]]
<1>1. PICK a : Additive(S, u, a)
  BY AdditiveExists
<1>2. Additive(S, v, a) /\ Additive(S, w, a)
  BY <1>1 DEF Additive
<1>3. QED
  BY <1>2, SumIsAdditive

(***************************************************************************)
(* Conservation. The guards are finitely many in every state, and the sum  *)
(* of what they hold changes with who joins or leaves them.                *)
(***************************************************************************)
Balance ==
  /\ IInv
  /\ IsFiniteSet(Holders)
  /\ Conservation

(* A client that gets a guard adds what it asked for.                      *)
LEMMA HolderJoins ==
  ASSUME TypeOK, TypeOK', IsFiniteSet(Holders), NEW c \in Clients \ Holders,
         Holders' = Holders \cup {c}, \A x \in Holders : permits'[x] = permits[x]
  PROVE  /\ IsFiniteSet(Holders') /\ Held' = permits'[c] + Held
         /\ Held \in Nat /\ permits'[c] \in Nat
<1>1. /\ permits \in [Clients -> Nat] /\ permits' \in [Clients -> Nat]
      /\ Holders \in SUBSET Clients
  BY DEF TypeOK, Holders
<1>2. SumOver(Holders, permits') = SumOver(Holders, permits)
  BY <1>1, SumOfSame
<1>3. SumOver(Holders', permits') = permits'[c] + SumOver(Holders, permits')
      /\ SumOver(Holders, permits') \in Nat
  BY <1>1, SumAddsOne
<1>4. QED
  BY <1>1, <1>2, <1>3, HeldIsSum, FS_AddElement

(* A client that gives its guard back takes away what it held.             *)
LEMMA HolderLeaves ==
  ASSUME TypeOK, TypeOK', IsFiniteSet(Holders), NEW c \in Holders,
         Holders' = Holders \ {c}, \A x \in Holders' : permits'[x] = permits[x]
  PROVE  /\ IsFiniteSet(Holders') /\ Held = permits[c] + Held'
         /\ Held' \in Nat /\ permits[c] \in Nat
<1>1. /\ permits \in [Clients -> Nat] /\ permits' \in [Clients -> Nat]
      /\ Holders \in SUBSET Clients /\ Holders' \in SUBSET Clients
      /\ c \in Clients \ Holders' /\ Holders' \cup {c} = Holders
  BY DEF TypeOK, Holders
<1>2. IsFiniteSet(Holders')
  BY FS_RemoveElement
<1>3. SumOver(Holders', permits') = SumOver(Holders', permits)
  BY <1>1, <1>2, SumOfSame
<1>4. SumOver(Holders, permits) = permits[c] + SumOver(Holders', permits)
      /\ SumOver(Holders', permits) \in Nat
  <2>1. SumOver(Holders' \cup {c}, permits) = permits[c] + SumOver(Holders', permits)
        /\ SumOver(Holders', permits) \in Nat
    BY <1>1, <1>2, SumAddsOne
  <2>2. QED
    BY <1>1, <2>1
<1>5. QED
  BY <1>1, <1>2, <1>3, <1>4, HeldIsSum

(* While the guards and what they hold stay the same, so does the sum.     *)
LEMMA HoldersStay ==
  ASSUME TypeOK, IsFiniteSet(Holders), Holders' = Holders,
         \A x \in Holders : permits'[x] = permits[x]
  PROVE  IsFiniteSet(Holders') /\ Held' = Held
<1>1. permits \in [Clients -> Nat] /\ Holders \in SUBSET Clients
  BY DEF TypeOK, Holders
<1>2. SumOver(Holders, permits') = SumOver(Holders, permits)
  BY <1>1, SumOfSame
<1>3. QED
  BY <1>2, HeldIsSum

(* Every action keeps the balance.                                         *)
LEMMA StepBalances == Balance /\ [Next]_vars => Balance'
<1> SUFFICES ASSUME Balance, [Next]_vars PROVE Balance'
  OBVIOUS
<1>1. /\ IInv /\ IInv' /\ TypeOK /\ TypeOK' /\ IsFiniteSet(Holders) /\ available + Held = Initial
      /\ Holders \in SUBSET Clients
  BY StepGood DEF Balance, IInv, Conservation, Holders
<1>2. SUFFICES IsFiniteSet(Holders') /\ available' + Held' = Initial
  BY <1>1 DEF Balance, Conservation
<1>3. available \in Nat /\ available' \in Nat
  BY <1>1 DEF TypeOK
<1>4. ASSUME Holders' = Holders, available' = available,
             \A x \in Holders : permits'[x] = permits[x]
      PROVE  IsFiniteSet(Holders') /\ available' + Held' = Initial
  BY <1>1, <1>4, HoldersStay
<1>5. ASSUME NEW c \in Clients, c \notin Holders, Holders' = Holders \cup {c},
             available' + permits'[c] = available,
             \A x \in Holders : permits'[x] = permits[x]
      PROVE  IsFiniteSet(Holders') /\ available' + Held' = Initial
  <2>1. c \in Clients \ Holders
    BY <1>5
  <2>2. /\ IsFiniteSet(Holders') /\ Held' = permits'[c] + Held
        /\ Held \in Nat /\ permits'[c] \in Nat
    BY <1>1, <1>5, <2>1, HolderJoins
  <2>3. QED
    BY <1>1, <1>3, <1>5, <2>2
<1>6. ASSUME NEW c \in Clients, c \in Holders, Holders' = Holders \ {c},
             available' = available + permits[c],
             \A x \in Holders' : permits'[x] = permits[x]
      PROVE  IsFiniteSet(Holders') /\ available' + Held' = Initial
  BY <1>1, <1>3, <1>6, HolderLeaves
<1>7. ASSUME NEW c \in Clients, NEW n \in Requests, Acquire(c, n)
      PROVE  IsFiniteSet(Holders') /\ available' + Held' = Initial
  <2>1. n \in Nat /\ pc[c] = "idle" /\ c \notin Holders
    BY <1>7, SemaphoreAssumption
    DEF Acquire, AcquireCancelled, AcquireNothing, AcquireNow, AcquireLater, AcquireStart, Holders
  <2>2. CASE AcquireCancelled(c, n) \/ AcquireLater(c, n)
    <3>1. Holders' = Holders /\ available' = available
          /\ \A x \in Holders : permits'[x] = permits[x]
      BY <1>1, <2>1, <2>2 DEF AcquireCancelled, AcquireLater, TypeOK, Holders
    <3>2. QED
      BY <1>4, <3>1
  <2>3. CASE AcquireNothing(c, n) \/ AcquireNow(c, n)
    <3>1. /\ Holders' = Holders \cup {c} /\ permits'[c] = n
          /\ \A x \in Holders : permits'[x] = permits[x]
      BY <1>1, <2>1, <2>3 DEF AcquireNothing, AcquireNow, TypeOK, Holders
    <3>2. available' + n = available
      <4>1. CASE AcquireNothing(c, n)
        BY <1>3, <4>1 DEF AcquireNothing
      <4>2. CASE AcquireNow(c, n)
        BY <1>3, <2>1, <4>2 DEF AcquireNow
      <4>3. QED
        BY <2>3, <4>1, <4>2
    <3>3. QED
      BY <1>5, <2>1, <3>1, <3>2
  <2>4. QED
    BY <1>7, <2>2, <2>3 DEF Acquire
<1>8. ASSUME NEW c \in Clients, Deliver(c)
      PROVE  IsFiniteSet(Holders') /\ available' + Held' = Initial
  <2>1. Holders' = Holders /\ UNCHANGED <<available, permits>>
    BY <1>1, <1>8 DEF Deliver, TypeOK, Holders
  <2>2. QED
    BY <1>4, <2>1
<1>9. ASSUME NEW c \in Clients, ReleaseNothing(c) \/ Release(c)
      PROVE  IsFiniteSet(Holders') /\ available' + Held' = Initial
  <2>1. /\ c \in Holders /\ Holders' = Holders \ {c}
        /\ \A x \in Holders' : permits'[x] = permits[x]
    BY <1>1, <1>9 DEF ReleaseNothing, Release, TypeOK, Holders
  <2>2. available' = available + permits[c]
    BY <1>3, <1>9 DEF ReleaseNothing, Release
  <2>3. QED
    BY <1>6, <2>1, <2>2
<1>10. ASSUME DrainOne PROVE IsFiniteSet(Holders') /\ available' + Held' = Initial
  <2> DEFINE h == Head(waiters)
  <2>1. /\ waiters # <<>> /\ permits[h] <= available /\ available' = available - permits[h]
        /\ pc' = [pc EXCEPT ![h] = "granted"] /\ permits' = permits
    BY <1>10 DEF DrainOne, HeadFits
  <2>2. h \in Clients /\ h \in Range(waiters)
    BY <1>1, <2>1 DEF TypeOK, Range
  <2> HIDE DEF h
  <2>3. pc[h] = "parked" /\ permits[h] \in Nat
    BY <1>1, <2>2 DEF IInv, DequeIsParked, Parked, TypeOK
  <2>4. h \notin Holders /\ Holders' = Holders \cup {h}
    BY <1>1, <2>1, <2>2, <2>3 DEF Holders, TypeOK
  <2>5. available' + permits'[h] = available
    BY <1>3, <2>1, <2>3
  <2>6. QED
    BY <1>5, <2>1, <2>2, <2>4, <2>5
<1>11. ASSUME Cancel PROVE IsFiniteSet(Holders') /\ available' + Held' = Initial
  <2>1. \A c \in Clients : c \in Parked <=> pc[c] = "parked"
    BY <1>1 DEF IInv, DequeIsParked
  <2>2. Holders' = Holders /\ available' = available
        /\ \A x \in Holders : permits'[x] = permits[x]
    BY <1>11, <2>1 DEF Cancel, Holders
  <2>3. QED
    BY <1>4, <2>2
<1>12. CASE DrainStop \/ UNCHANGED vars
  <2>1. Holders' = Holders /\ UNCHANGED <<available, permits>>
    BY <1>12 DEF DrainStop, vars, Holders
  <2>2. QED
    BY <1>4, <2>1
<1>13. QED
  BY <1>7, <1>8, <1>9, <1>10, <1>11, <1>12 DEF Next, Finished

(* Permits are conserved: at any moment what is available and what the     *)
(* guards hold, in hands and in posted handlers, add up to initial_count,  *)
(* for any number of clients, sizes of request and point of cancellation.  *)
THEOREM PermitsConserved == Spec => []Conservation
<1>1. Init => Balance
  <2> SUFFICES ASSUME Init PROVE Balance
    OBVIOUS
  <2>1. Holders = {}
    BY DEF Init, Holders
  <2>2. Held = 0
    BY <2>1, HeldIsSum, SumOfNone
  <2>3. available = Initial
    BY DEF Init
  <2>4. QED
    BY <2>1, <2>2, <2>3, InitGood, FS_EmptySet, SemaphoreAssumption DEF Balance, Conservation
<1>2. Balance => Conservation
  BY DEF Balance
<1>3. QED
  BY <1>1, <1>2, StepBalances, PTL DEF Spec

(***************************************************************************)
(* The socket of the sending end: SocketSink, for any number of writes and *)
(* batches, any capacity of the buffers and any set of scenarios.          *)
(*                                                                         *)
(* WireIsInOrder speaks of what arrived; the invariant says where the rest *)
(* is. While the connection holds, what was accepted is what is on the     *)
(* wire, behind it the one frame in flight or the one buffer that is not   *)
(* empty (InOrder). That holds because whatever goes behind a buffer has   *)
(* it flushed before, in the same call (FlushedFirst), because only the    *)
(* holder of send_mutex has anything to do with the buffers (PhaseFits),   *)
(* and because a message is flushed before the next call (RoomLeft). The   *)
(* end is the last because it is accepted after the writer's thread is     *)
(* through and nothing is accepted behind it (EndIsLast), and by then      *)
(* every write is accounted for (AllCounted).                              *)
(***************************************************************************)
CONSTANTS Writes, Batches, DataCap, ControlCap, Scenarios

VARIABLES scenario, calls, phase, todo, frame, outcome, data, control, active, sendLock, opLock,
          wire, answers, accepted, closed, broken, cancelling, asyncError, keep, stopKeep, stopper,
          reaped

Sink == INSTANCE SocketSink

(***************************************************************************)
(* What is left of a call under send_mutex.                                *)
(***************************************************************************)
Sends == {"sendBegin", "sendEnd", "sendLarge"}
BehindData == {"putControl"} \cup Sends
BehindControl == {"putData"} \cup Sends

Has(t, step) == \E i \in DOMAIN t : t[i] = step

MainTodos ==
  {<<>>, <<"read">>,
   <<"flushData", "flushControl", "sendBegin">>, <<"flushControl", "sendBegin">>, <<"sendBegin">>,
   <<"flushData", "flushControl", "sendEnd">>, <<"flushControl", "sendEnd">>, <<"sendEnd">>,
   <<"flushData", "putControl">>, <<"putControl">>,
   <<"flushControl", "sendLarge">>, <<"sendLarge">>, <<"flushControl">>}

DataTodos ==
  {<<>>, <<"flushControl", "putData">>, <<"putData">>, <<"flushData">>,
   <<"flushData", "flushControl">>, <<"flushControl">>}

Todos(u) == IF u = "main" THEN MainTodos ELSE DataTodos

(***************************************************************************)
(* The invariant.                                                          *)
(***************************************************************************)
InOp(u) == phase[u] \in {"op", "socket"}
Reads(u) == Has(todo[u], "read")
Holds(u) == phase[u] = "work" \/ (InOp(u) /\ ~Reads(u))
InFlight(u) == InOp(u) /\ Head(todo[u]) \in Sends

PhaseFits(u) ==
  /\ todo[u] \in Todos(u)
  /\ phase[u] \in {"idle", "over"} => todo[u] = <<>>
  /\ InOp(u) => todo[u] # <<>> /\ Head(todo[u]) \notin {"putData", "putControl"}
  /\ Reads(u) => InOp(u)
  /\ phase[u] = "over" <=> outcome[u] # "running"
  /\ sendLock = u <=> Holds(u)

FrameFits(u) ==
  /\ frame[u] # <<>> <=> InOp(u) /\ ~Reads(u)
  /\ InOp(u) /\ Head(todo[u]) = "flushData" => frame[u] = data
  /\ InOp(u) /\ Head(todo[u]) = "flushControl" => frame[u] = control
  /\ InFlight(u) => Len(frame[u]) = 1

(* What a call sends behind a buffer has this buffer emptied first.        *)
FlushedFirst(u) ==
  /\ (\E x \in BehindData : Has(todo[u], x)) =>
       Has(todo[u], "flushData") \/ (Holds(u) /\ data = <<>>)
  /\ (\E x \in BehindControl : Has(todo[u], x)) =>
       Has(todo[u], "flushControl") \/ (Holds(u) /\ control = <<>>)

Waiting ==
  IF InFlight("main") THEN frame["main"] ELSE IF control = <<>> THEN data ELSE control

InOrder ==
  /\ data = <<>> \/ control = <<>>
  /\ Sink!Alive => accepted = wire \o Waiting
  /\ Len(wire) <= Len(accepted)
  /\ \A i \in 1 .. Len(wire) : wire[i] = accepted[i]

CallsFit ==
  /\ \A i \in 1 .. Len(calls["main"]) :
       /\ calls["main"][i] \in {"begin", "message", "flush", "await", "end", "check"}
       /\ calls["main"][i] = "check" <=> i = Len(calls["main"])
       /\ calls["main"][i] = "end" <=> i = Len(calls["main"]) - 1
       /\ calls["main"][i] = "message" => calls["main"][i + 1] = "flush"
  /\ \A i \in 1 .. Len(calls["data"]) :
       calls["data"][i] = IF i = Len(calls["data"]) THEN "close" ELSE "write"

FlushNext == calls["main"] # <<>> /\ Head(calls["main"]) = "flush"

RoomLeft ==
  /\ Len(data) = DataCap => Has(todo["data"], "flushData") \/ phase["data"] = "over"
  /\ Has(todo["main"], "putControl") => FlushNext
  /\ control # <<>> =>
       \/ phase["main"] = "over" \/ Has(todo["main"], "flushControl")
       \/ todo["main"] = <<>> /\ FlushNext

End == <<"event", 2>>

WritesLeft ==
  (IF calls["data"] = <<>> THEN 0 ELSE Len(calls["data"]) - 1)
  + (IF Has(todo["data"], "putData") THEN 1 ELSE 0)

EndIsLast ==
  /\ Len(calls["main"]) <= 1 => outcome["data"] # "running"
  /\ Has(todo["main"], "sendEnd") => outcome["data"] = "ok" /\ Len(calls["main"]) <= 1
  /\ outcome["data"] = "ok" => calls["data"] = <<>>
  /\ outcome["main"] = "ok" => Len(calls["main"]) <= 1
  /\ \A i \in 1 .. Len(accepted) : accepted[i] = End =>
       /\ i = Len(accepted)
       /\ outcome["data"] = "ok" /\ Len(calls["main"]) <= 1
       /\ todo["main"] = <<>> \/ (InOp("main") /\ Head(todo["main"]) = "sendEnd")

AllCounted ==
  outcome["data"] \in {"running", "ok"} => Sink!NumberOf("data", accepted) + WritesLeft = Writes

UsersFit == \A u \in Sink!Users : PhaseFits(u) /\ FrameFits(u) /\ FlushedFirst(u)

SinkInv ==
  /\ Sink!SinkBounds
  /\ Sink!TypeOK
  /\ UsersFit
  /\ InOrder
  /\ CallsFit
  /\ RoomLeft
  /\ EndIsLast
  /\ AllCounted

(***************************************************************************)
(* What is left of a call: its head and the rest.                          *)
(***************************************************************************)

(* Short sequences of steps, their heads and their tails.                  *)
LEMMA OneStep ==
  ASSUME NEW a \in Sink!Steps, NEW t, t = <<a>>
  PROVE  /\ t \in Seq(Sink!Steps) /\ t # <<>> /\ Head(t) = a
         /\ <<>> \o Tail(t) = <<>>
         /\ \A x : Has(t, x) <=> x = a
<1>1. t \in Seq(Sink!Steps) /\ Len(t) = 1 /\ DOMAIN t = 1 .. 1 /\ t[1] = a /\ Tail(t) = <<>>
  OBVIOUS
<1>2. <<>> \o Tail(t) = <<>>
  BY <1>1
<1>3. \A x : Has(t, x) <=> x = a
  BY <1>1 DEF Has
<1>4. QED  BY <1>1, <1>2, <1>3

(* Two steps, the first of which is done.                                  *)
LEMMA TwoSteps ==
  ASSUME NEW a \in Sink!Steps, NEW b \in Sink!Steps, NEW t, t = <<a, b>>
  PROVE  /\ t \in Seq(Sink!Steps) /\ t # <<>> /\ Head(t) = a
         /\ <<>> \o Tail(t) = <<b>>
         /\ \A x : Has(t, x) <=> x = a \/ x = b
<1>1. t \in Seq(Sink!Steps) /\ Len(t) = 2 /\ DOMAIN t = 1 .. 2 /\ t[1] = a /\ t[2] = b
      /\ Tail(t) = <<b>>
  OBVIOUS
<1>2. <<>> \o Tail(t) = <<b>>
  BY <1>1
<1>3. \A x : Has(t, x) <=> x = a \/ x = b
  BY <1>1 DEF Has
<1>4. QED  BY <1>1, <1>2, <1>3

(* Three steps, the first of which is done.                                *)
LEMMA ThreeSteps ==
  ASSUME NEW a \in Sink!Steps, NEW b \in Sink!Steps, NEW c \in Sink!Steps, NEW t, t = <<a, b, c>>
  PROVE  /\ t \in Seq(Sink!Steps) /\ t # <<>> /\ Head(t) = a
         /\ <<>> \o Tail(t) = <<b, c>>
         /\ \A x : Has(t, x) <=> x = a \/ x = b \/ x = c
<1>1. /\ t \in Seq(Sink!Steps) /\ Len(t) = 3 /\ DOMAIN t = 1 .. 3 /\ t[1] = a /\ t[2] = b
         /\ t[3] = c
      /\ Tail(t) = <<b, c>>
  OBVIOUS
<1>2. <<>> \o Tail(t) = <<b, c>>
  BY <1>1
<1>3. \A x : Has(t, x) <=> x = a \/ x = b \/ x = c
  BY <1>1 DEF Has
<1>4. QED  BY <1>1, <1>2, <1>3

(* Nothing is left of a call that is done.                                 *)
LEMMA NoStep == \A x : ~Has(<<>>, x)
BY DEF Has

(* A step is done once; the data buffer is flushed first, and what is sent *)
(* or put into a buffer comes last.                                        *)
RestFits(u, t) ==
  /\ t \in Seq(Sink!Steps)
  /\ t # <<>> =>
       /\ Head(t) \in Sink!Steps /\ Has(t, Head(t))
       /\ <<>> \o Tail(t) \in Todos(u)
       /\ \A x : Has(<<>> \o Tail(t), x) <=> Has(t, x) /\ x # Head(t)
       /\ Has(t, "flushData") => Head(t) = "flushData"
       /\ Has(t, "read") <=> Head(t) = "read"
       /\ Head(t) \notin {"flushData", "flushControl"} => Tail(t) = <<>>
       /\ u = "data" => Head(t) \in {"flushData", "flushControl", "putData"}
       /\ u = "main" => Head(t) # "putData"

(* So it is in whatever can be left of a call.                             *)
LEMMA TodoIsOrdered ==
  ASSUME NEW u \in Sink!Users, NEW t \in Todos(u)
  PROVE  RestFits(u, t)
<1>1. CASE t = <<>>
  BY <1>1 DEF RestFits
<1>2. CASE \E a \in Sink!Steps : t = <<a>>
  <2>1. PICK a \in Sink!Steps : t = <<a>>
    BY <1>2
  <2>2. <<>> \in Todos(u)
    BY DEF Todos, MainTodos, DataTodos
  <2>3. u = "main" => a # "putData"
    BY <2>1 DEF Todos, MainTodos, DataTodos
  <2>4. u = "data" => a \in {"flushData", "flushControl", "putData"}
    BY <2>1 DEF Todos, MainTodos, DataTodos
  <2>5. Tail(t) = <<>>
    BY <2>1
  <2>. QED  BY <2>1, <2>2, <2>3, <2>4, <2>5, OneStep, NoStep DEF RestFits
<1>3. CASE \E a, b \in Sink!Steps : t = <<a, b>>
  <2>1. PICK a \in Sink!Steps, b \in Sink!Steps : t = <<a, b>>
    BY <1>3
  <2>2. <<b>> \in Todos(u) /\ a \in {"flushData", "flushControl"} /\ a # b
        /\ b \notin {"read", "flushData"}
        /\ (u = "main" => b # "putData")
    BY <2>1 DEF Todos, MainTodos, DataTodos
  <2>3. \A x : Has(<<b>>, x) <=> x = b
    BY <2>1, OneStep
  <2>. QED  BY <2>1, <2>2, <2>3, TwoSteps DEF RestFits
<1>4. CASE \E a, b, c \in Sink!Steps : t = <<a, b, c>>
  <2>1. PICK a \in Sink!Steps, b \in Sink!Steps, c \in Sink!Steps : t = <<a, b, c>>
    BY <1>4
  <2>2. /\ <<b, c>> \in Todos(u) /\ a = "flushData" /\ b = "flushControl"
           /\ c \in {"sendBegin", "sendEnd"}
    BY <2>1 DEF Todos, MainTodos, DataTodos
  <2>3. \A x : Has(<<b, c>>, x) <=> x = b \/ x = c
    BY <2>1, TwoSteps
  <2>. QED  BY <2>1, <2>2, <2>3, ThreeSteps DEF RestFits
<1>. QED
  BY <1>1, <1>2, <1>3, <1>4 DEF Todos, MainTodos, DataTodos, Sink!Steps

(* What is no flush is the last step of the call.                          *)
LEMMA LastStep ==
  ASSUME NEW u \in Sink!Users, NEW t \in Todos(u), t # <<>>, Head(t) \notin {"flushData",
  "flushControl"}
  PROVE  (\A x : Has(t, x) <=> x = Head(t)) /\ Tail(t) = <<>>
<1>1. RestFits(u, t)
  BY TodoIsOrdered
<1>2. Tail(t) = <<>> /\ <<>> \o Tail(t) = <<>>
  BY <1>1 DEF RestFits
<1>. QED  BY <1>1, <1>2, NoStep DEF RestFits

(* Every call begins with the flush its order asks for.                    *)
MainScripts == {"begin", "message", "flush", "end"}
DataScripts == {"write", "close"}

(* So does every call that takes the lock, and each puts in or sends what  *)
(* it is for.                                                              *)
LEMMA ScriptIsWhole ==
  ASSUME NEW u \in Sink!Users, NEW c, c \in (IF u = "main" THEN MainScripts ELSE DataScripts)
  PROVE  /\ Sink!Script(c) \in Todos(u) /\ Sink!Script(c) # <<>>
            /\ Sink!Script(c) \in Seq(Sink!Steps)
         /\ ~Has(Sink!Script(c), "read")
         /\ (\E x \in BehindData : Has(Sink!Script(c), x)) => Has(Sink!Script(c), "flushData")
         /\ (\E x \in BehindControl : Has(Sink!Script(c), x)) => Has(Sink!Script(c), "flushControl")
         /\ Has(Sink!Script(c), "putControl") <=> c = "message"
         /\ Has(Sink!Script(c), "sendEnd") <=> c = "end"
         /\ Has(Sink!Script(c), "putData") <=> c = "write"
         /\ c = "flush" => Has(Sink!Script(c), "flushControl")
<1>0. /\ "flushData" \in Sink!Steps /\ "flushControl" \in Sink!Steps /\ "sendBegin" \in Sink!Steps
      /\ "sendEnd" \in Sink!Steps /\ "putData" \in Sink!Steps /\ "putControl" \in Sink!Steps
  BY DEF Sink!Steps
<1>1. CASE u = "main" /\ c = "begin"
  <2>1. Sink!Script(c) = <<"flushData", "flushControl", "sendBegin">>
    BY <1>1 DEF Sink!Script
  <2>2. \A x : Has(Sink!Script(c), x) <=> x \in {"flushData", "flushControl", "sendBegin"}
    BY <2>1, <1>0, ThreeSteps
  <2>3. Sink!Script(c) \in Todos(u) /\ Sink!Script(c) # <<>> /\ Sink!Script(c) \in Seq(Sink!Steps)
    BY <1>1, <2>1, <1>0, ThreeSteps DEF Todos, MainTodos
  <2>. QED  BY <1>1, <2>2, <2>3 DEF BehindData, BehindControl, Sends
<1>2. CASE u = "main" /\ c = "message"
  <2>1. Sink!Script(c) = <<"flushData", "putControl">>
    BY <1>2 DEF Sink!Script
  <2>. QED  BY <1>2, <2>1, <1>0, TwoSteps DEF Todos, MainTodos, BehindData, BehindControl, Sends
<1>3. CASE u = "main" /\ c = "flush"
  <2>1. Sink!Script(c) = <<"flushControl">>
    BY <1>3 DEF Sink!Script
  <2>. QED  BY <1>3, <2>1, <1>0, OneStep DEF Todos, MainTodos, BehindData, BehindControl, Sends
<1>4. CASE u = "main" /\ c = "end"
  <2>1. Sink!Script(c) = <<"flushData", "flushControl", "sendEnd">>
    BY <1>4 DEF Sink!Script
  <2>2. \A x : Has(Sink!Script(c), x) <=> x \in {"flushData", "flushControl", "sendEnd"}
    BY <2>1, <1>0, ThreeSteps
  <2>3. Sink!Script(c) \in Todos(u) /\ Sink!Script(c) # <<>> /\ Sink!Script(c) \in Seq(Sink!Steps)
    BY <1>4, <2>1, <1>0, ThreeSteps DEF Todos, MainTodos
  <2>. QED  BY <1>4, <2>2, <2>3 DEF BehindData, BehindControl, Sends
<1>5. CASE u = "data" /\ c = "write"
  <2>1. Sink!Script(c) = <<"flushControl", "putData">>
    BY <1>5 DEF Sink!Script
  <2>. QED  BY <1>5, <2>1, <1>0, TwoSteps DEF Todos, DataTodos, BehindData, BehindControl, Sends
<1>6. CASE u = "data" /\ c = "close"
  <2>1. Sink!Script(c) = <<"flushData", "flushControl">>
    BY <1>6 DEF Sink!Script
  <2>. QED  BY <1>6, <2>1, <1>0, TwoSteps DEF Todos, DataTodos, BehindData, BehindControl, Sends
<1>. QED  BY <1>1, <1>2, <1>3, <1>4, <1>5, <1>6 DEF Sink!Users, MainScripts, DataScripts

(***************************************************************************)
(* Sequences of units and how many of a kind they hold.                    *)
(***************************************************************************)

(* Putting one sequence behind another.                                    *)
LEMMA Behind ==
  ASSUME NEW s \in Seq(Sink!Unit), NEW t \in Seq(Sink!Unit)
  PROVE  /\ s \o t \in Seq(Sink!Unit) /\ Len(s \o t) = Len(s) + Len(t)
         /\ \A i \in 1 .. Len(s) : (s \o t)[i] = s[i]
         /\ \A i \in 1 .. Len(t) : (s \o t)[Len(s) + i] = t[i]
         /\ s \o <<>> = s
  OBVIOUS

(* A unit put into a buffer is behind what went out before.                *)
LEMMA AppendBehind ==
  ASSUME NEW s \in Seq(Sink!Unit), NEW t \in Seq(Sink!Unit), NEW x \in Sink!Unit
  PROVE  Append(s \o t, x) = s \o Append(t, x)
  OBVIOUS

(* A frame of one unit.                                                    *)
LEMMA OneBehind ==
  ASSUME NEW s \in Seq(Sink!Unit), NEW x \in Sink!Unit
  PROVE  s \o <<x>> = Append(s, x) /\ <<x>> \in Seq(Sink!Unit) /\ Len(<<x>>) = 1
  OBVIOUS

(* To count is the same thing inside the model and outside of it.         *)
LEMMA CardinalityIsSame ==
  ASSUME NEW S
  PROVE  Sink!Cardinality(S) = Cardinality(S)
BY DEF Sink!Cardinality, Cardinality

(* The units of a kind can be counted ...                                  *)
LEMMA NumberIsFinite ==
  ASSUME NEW s \in Seq(Sink!Unit), NEW kind
  PROVE  IsFiniteSet({i \in DOMAIN s : s[i][1] = kind}) /\ Sink!NumberOf(kind, s) \in Nat
<1>1. IsFiniteSet(DOMAIN s)
  <2>1. DOMAIN s = 1 .. Len(s) /\ Len(s) \in Nat
    OBVIOUS
  <2>. QED  BY <2>1, FS_Interval
<1>2. IsFiniteSet({i \in DOMAIN s : s[i][1] = kind})
  BY <1>1, FS_Subset
<1>. QED  BY <1>2, FS_CardinalityType, CardinalityIsSame DEF Sink!NumberOf

(* ... in natural numbers, ...                                             *)
LEMMA NumberIsNatural ==
  ASSUME NEW s \in Seq(Sink!Unit), NEW kind
  PROVE  Sink!NumberOf(kind, s) \in Nat
BY NumberIsFinite

(* ... and there are none before anything was accepted.                    *)
LEMMA NumberOfNone ==
  ASSUME NEW kind
  PROVE  Sink!NumberOf(kind, <<>>) = 0
<1>1. {i \in DOMAIN <<>> : <<>>[i][1] = kind} = {}
  OBVIOUS
<1>. QED  BY <1>1, FS_EmptySet, CardinalityIsSame DEF Sink!NumberOf

(* One more unit is one more of its kind.                                  *)
LEMMA NumberCountsOne ==
  ASSUME NEW s \in Seq(Sink!Unit), NEW x \in Sink!Unit, NEW kind
  PROVE  Sink!NumberOf(kind, Append(s, x)) = Sink!NumberOf(kind, s) + (IF x[1] = kind THEN 1 ELSE 0)
<1> DEFINE t == Append(s, x)
           S == {i \in DOMAIN s : s[i][1] = kind}
           T == {i \in DOMAIN t : t[i][1] = kind}
<1>1. /\ Len(s) \in Nat /\ DOMAIN s = 1 .. Len(s) /\ DOMAIN t = 1 .. Len(s) + 1
      /\ t[Len(s) + 1] = x /\ \A i \in 1 .. Len(s) : t[i] = s[i]
  OBVIOUS
<1>2. IsFiniteSet(S) /\ Cardinality(S) \in Nat
  BY NumberIsFinite, CardinalityIsSame DEF Sink!NumberOf
<1>3. Len(s) + 1 \notin S
  BY <1>1
<1>4. CASE x[1] = kind
  <2>1. T = S \cup {Len(s) + 1}
    BY <1>1, <1>4
  <2>. QED  BY <1>2, <1>3, <1>4, <2>1, FS_AddElement, CardinalityIsSame DEF Sink!NumberOf
<1>5. CASE x[1] # kind
  <2>1. T = S
    BY <1>1, <1>5
  <2>2. Sink!NumberOf(kind, t) = Cardinality(T) /\ Sink!NumberOf(kind, s) = Cardinality(S)
    BY CardinalityIsSame DEF Sink!NumberOf
  <2>3. Sink!NumberOf(kind, t) = Sink!NumberOf(kind, s) /\ Sink!NumberOf(kind, s) \in Nat
    BY <1>2, <2>1, <2>2
  <2>. QED  BY <1>5, <2>3
<1>. QED  BY <1>4, <1>5

(* What arrived is not lost by more arriving.                              *)
LEMMA NumberGrows ==
  ASSUME NEW s \in Seq(Sink!Unit), NEW t \in Seq(Sink!Unit), NEW kind
  PROVE  Sink!NumberOf(kind, s) <= Sink!NumberOf(kind, s \o t)
<1> DEFINE S == {i \in DOMAIN s : s[i][1] = kind}
           T == {i \in DOMAIN (s \o t) : (s \o t)[i][1] = kind}
<1>1. S \subseteq T
  <2>1. DOMAIN s = 1 .. Len(s) /\ DOMAIN (s \o t) = 1 .. Len(s) + Len(t) /\ Len(s) \in Nat
        /\ Len(t) \in Nat
    OBVIOUS
  <2>. QED  BY <2>1, Behind
<1>2. s \o t \in Seq(Sink!Unit)
  BY Behind
<1>3. IsFiniteSet(T) /\ Cardinality(T) \in Nat /\ Cardinality(S) \in Nat
  BY <1>2, NumberIsFinite, CardinalityIsSame DEF Sink!NumberOf
<1>4. Cardinality(S) <= Cardinality(T)
  BY <1>1, <1>3, FS_Subset
<1>. QED  BY <1>4, CardinalityIsSame DEF Sink!NumberOf

(***************************************************************************)
(* The parts of the type.                                                  *)
(***************************************************************************)
Phases == {"idle", "lock", "work", "op", "socket", "over"}
Outcomes == {"running", "ok", "cancelled", "failed"}

UsersTyped ==
  /\ calls \in [Sink!Users -> Seq(Sink!Calls)]
  /\ phase \in [Sink!Users -> Phases]
  /\ todo \in [Sink!Users -> Seq(Sink!Steps)]
  /\ frame \in [Sink!Users -> Seq(Sink!Unit)]
  /\ outcome \in [Sink!Users -> Outcomes]

BuffersTyped ==
  /\ data \in Seq(Sink!Unit) /\ Len(data) <= DataCap
  /\ control \in Seq(Sink!Unit) /\ Len(control) <= ControlCap
  /\ active \in BOOLEAN
  /\ wire \in Seq(Sink!Unit)
  /\ answers \in 0 .. Sink!Asked
  /\ accepted \in Seq(Sink!Unit)

LocksTyped ==
  /\ scenario \in Scenarios
  /\ sendLock \in Sink!Users \cup {Sink!Free}
  /\ opLock \in Sink!Users \cup {Sink!Free, "keepalive"}

RestTyped ==
  /\ closed \in BOOLEAN /\ broken \in BOOLEAN /\ cancelling \in BOOLEAN
  /\ asyncError \in BOOLEAN /\ stopKeep \in BOOLEAN /\ reaped \in BOOLEAN
  /\ keep \in {"wait", "op", "ping", "skip", "failed", "exited"}
  /\ stopper \in [Sink!Stoppers -> {"none", "request", "join", "close", "stopped"}]

(* The type invariant is its parts, before ...                             *)
LEMMA TypeHasParts == Sink!TypeOK <=> UsersTyped /\ BuffersTyped /\ LocksTyped /\ RestTyped
<1>1. Sink!TypeOK => UsersTyped /\ BuffersTyped /\ LocksTyped
  BY DEF Sink!TypeOK, UsersTyped, BuffersTyped, LocksTyped, Phases, Outcomes
<1>2. Sink!TypeOK => RestTyped
  BY Zenon DEF Sink!TypeOK, RestTyped
<1>3. RestTyped => {closed, broken, cancelling, asyncError, stopKeep, reaped} \subseteq BOOLEAN
  BY Zenon DEF RestTyped
<1>4. UsersTyped /\ BuffersTyped /\ LocksTyped /\ RestTyped => Sink!TypeOK
  BY <1>3, Zenon DEF Sink!TypeOK, UsersTyped, BuffersTyped, LocksTyped, RestTyped, Phases, Outcomes
<1>. QED  BY <1>1, <1>2, <1>4

(* ... and after a step.                                                   *)
LEMMA TypePartsNext ==
  (UsersTyped /\ BuffersTyped /\ LocksTyped /\ RestTyped)' => Sink!TypeOK'
<1>1. (Sink!TypeOK <=> UsersTyped /\ BuffersTyped /\ LocksTyped /\ RestTyped)'
  BY TypeHasParts, PTL
<1>. QED  BY <1>1

(***************************************************************************)
(* A user that gives up.                                                   *)
(***************************************************************************)
LEMMA UsersAreTwo ==
  /\ Sink!Users = {"main", "data"} /\ Sink!Free \notin Sink!Users
  /\ "main" \in Sink!Users /\ "data" \in Sink!Users
BY DEF Sink!Users, Sink!Free

Unchanged ==
  UNCHANGED <<scenario, calls, Sink!bufferVars, closed, broken, cancelling, asyncError, keep,
              Sink!stopVars>>

(* Giving up empties what the user had in hand.                            *)
LEMMA ThrowKeepsType ==
  ASSUME SinkInv, NEW u \in Sink!Users, NEW how \in {"cancelled", "failed"}, Sink!Throw(u, how),
  Unchanged
  PROVE  Sink!TypeOK'
<1>1. UsersTyped /\ BuffersTyped /\ LocksTyped /\ RestTyped
  BY TypeHasParts DEF SinkInv
<1>2. UsersTyped'
  BY <1>1 DEF UsersTyped, Sink!Throw, Unchanged, Phases, Outcomes
<1>3. BuffersTyped'
  BY <1>1 DEF BuffersTyped, Unchanged, Sink!bufferVars, Sink!Asked
<1>4. LocksTyped'
  BY <1>1 DEF LocksTyped, Sink!Throw, Unchanged
<1>5. RestTyped'
  BY <1>1, Zenon DEF RestTyped, Unchanged, Sink!stopVars
<1>. QED  BY <1>2, <1>3, <1>4, <1>5, TypePartsNext

(* The frame of a user that gives up is lost only when the connection is,  *)
(* so nothing that is missing on the wire can be followed by anything      *)
(* else.                                                                   *)
LEMMA ThrowKeeps ==
  ASSUME SinkInv, NEW u \in Sink!Users, NEW how \in {"cancelled", "failed"}, Sink!Throw(u, how),
  Unchanged,
         phase[u] # "over", InFlight(u) => ~Sink!Alive
  PROVE  SinkInv'
<1>1. UsersTyped /\ BuffersTyped /\ LocksTyped
  BY TypeHasParts DEF SinkInv
<1>2. /\ \A v \in Sink!Users : v # u =>
           phase'[v] = phase[v] /\ outcome'[v] = outcome[v] /\ todo'[v] = todo[v]
           /\ frame'[v] = frame[v]
      /\ phase'[u] = "over" /\ outcome'[u] = how /\ todo'[u] = <<>> /\ frame'[u] = <<>>
      /\ \A v \in Sink!Users : sendLock' = v <=> v # u /\ sendLock = v
  BY <1>1, UsersAreTwo DEF Sink!Throw, UsersTyped, LocksTyped
<1>3. /\ calls' = calls /\ data' = data /\ control' = control /\ wire' = wire
         /\ accepted' = accepted
      /\ closed' = closed /\ broken' = broken
  BY DEF Unchanged, Sink!bufferVars
<1>4. UsersFit'
  <2> SUFFICES ASSUME NEW v \in Sink!Users  PROVE (PhaseFits(v) /\ FrameFits(v) /\ FlushedFirst(v))'
    BY DEF UsersFit
  <2>1. CASE v = u
    BY <1>2, <2>1, NoStep DEF PhaseFits, FrameFits, FlushedFirst, InOp, Reads, Holds, InFlight,
        Todos,
                              MainTodos, DataTodos
  <2>2. CASE v # u
    <3>1. PhaseFits(v) /\ FrameFits(v) /\ FlushedFirst(v)
      BY DEF SinkInv, UsersFit
    <3>. QED  BY <1>2, <1>3, <2>2, <3>1 DEF PhaseFits, FrameFits, FlushedFirst, InOp, Reads, Holds,
        InFlight
  <2>. QED  BY <2>1, <2>2
<1>5. InOrder'
  <2>1. InOrder
    BY DEF SinkInv
  <2>2. Sink!Alive' <=> Sink!Alive
    BY <1>3 DEF Sink!Alive
  <2>3. CASE u = "main"
    <3>1. ~InFlight("main")'
      BY <1>2, <2>3 DEF InFlight, InOp
    <3>. QED  BY <1>3, <2>1, <2>2, <2>3, <3>1 DEF InOrder, Waiting
  <2>4. CASE u = "data"
    <3>1. phase'["main"] = phase["main"] /\ todo'["main"] = todo["main"]
          /\ frame'["main"] = frame["main"]
      BY <1>2, <2>4, UsersAreTwo
    <3>. QED  BY <1>3, <2>1, <2>2, <3>1 DEF InOrder, Waiting, InFlight, InOp
  <2>. QED  BY <2>3, <2>4, UsersAreTwo
<1>6. CallsFit'
  BY <1>3 DEF SinkInv, CallsFit
<1>7. RoomLeft'
  <2>1. RoomLeft
    BY DEF SinkInv
  <2>2. CASE u = "main"
    <3>1. phase'["data"] = phase["data"] /\ todo'["data"] = todo["data"]
      BY <1>2, <2>2, UsersAreTwo
    <3>. QED  BY <1>2, <1>3, <2>1, <2>2, <3>1, NoStep DEF RoomLeft, FlushNext
  <2>3. CASE u = "data"
    <3>1. phase'["main"] = phase["main"] /\ todo'["main"] = todo["main"]
      BY <1>2, <2>3, UsersAreTwo
    <3>. QED  BY <1>2, <1>3, <2>1, <2>3, <3>1, NoStep DEF RoomLeft, FlushNext
  <2>. QED  BY <2>2, <2>3, UsersAreTwo
<1>8. EndIsLast' /\ AllCounted'
  <2>1. EndIsLast /\ AllCounted /\ PhaseFits(u)
    BY DEF SinkInv, UsersFit
  <2>2. outcome[u] = "running"
    BY <2>1 DEF PhaseFits
  <2>3. CASE u = "main"
    <3>1. outcome'["data"] = outcome["data"] /\ todo'["data"] = todo["data"]
      BY <1>2, <2>3, UsersAreTwo
    <3>. QED  BY <1>2, <1>3, <2>1, <2>3, <3>1, NoStep DEF EndIsLast, AllCounted, WritesLeft,
        Sink!NumberOf
  <2>4. CASE u = "data"
    <3>1. /\ outcome'["main"] = outcome["main"] /\ todo'["main"] = todo["main"]
          /\ phase'["main"] = phase["main"]
      BY <1>2, <2>4, UsersAreTwo
    <3>2. outcome'["data"] \in {"cancelled", "failed"}
      BY <1>2, <2>4
    <3>. QED  BY <1>3, <2>1, <2>2, <2>4, <3>1, <3>2 DEF EndIsLast, AllCounted, InOp
  <2>. QED  BY <2>3, <2>4, UsersAreTwo
<1>. QED  BY <1>4, <1>5, <1>6, <1>7, <1>8, ThrowKeepsType DEF SinkInv

(***************************************************************************)
(* A user that does not hold send_mutex.                                   *)
(***************************************************************************)

(* One user at a time holds send_mutex ...                                 *)
LEMMA OneHolds ==
  ASSUME UsersFit, NEW u \in Sink!Users, NEW v \in Sink!Users, u # v, Holds(u)
  PROVE  ~Holds(v)
BY DEF UsersFit, PhaseFits

(* ... and whoever does not has nothing to do with the buffers.            *)
LEMMA OtherUndisturbed ==
  ASSUME UsersFit, NEW v \in Sink!Users, ~Holds(v),
         phase'[v] = phase[v], todo'[v] = todo[v], frame'[v] = frame[v], outcome'[v] = outcome[v],
         sendLock' = v <=> sendLock = v
  PROVE  (PhaseFits(v) /\ FrameFits(v) /\ FlushedFirst(v))'
<1>1. PhaseFits(v) /\ FrameFits(v) /\ FlushedFirst(v)
  BY DEF UsersFit
<1>2. RestFits(v, todo[v])
  BY <1>1, TodoIsOrdered DEF PhaseFits
<1>3. PhaseFits(v)'
  BY <1>1 DEF PhaseFits, InOp, Reads, Holds
<1>4. FrameFits(v)'
  <2>1. InOp(v) => todo[v] # <<>> /\ Head(todo[v]) = "read"
    BY <1>1, <1>2 DEF PhaseFits, Holds, RestFits, Reads
  <2>. QED  BY <1>1, <2>1 DEF FrameFits, InOp, Reads, InFlight, Sends
<1>5. FlushedFirst(v)'
  BY <1>1 DEF FlushedFirst
<1>. QED  BY <1>3, <1>4, <1>5

(***************************************************************************)
(* The beginning of a call.                                                *)
(***************************************************************************)
LEMMA TailOfCalls ==
  ASSUME NEW s \in Seq(Sink!Calls), s # <<>>
  PROVE  /\ Tail(s) \in Seq(Sink!Calls) /\ Len(s) \in Nat /\ Len(s) >= 1
            /\ Len(Tail(s)) = Len(s) - 1
         /\ \A i \in 1 .. Len(s) - 1 : Tail(s)[i] = s[i + 1]
         /\ Head(s) = s[1]
         /\ Tail(s) = <<>> <=> Len(s) = 1
<1>1. /\ Tail(s) \in Seq(Sink!Calls) /\ Len(s) \in Nat /\ Len(s) >= 1 /\ Len(Tail(s)) = Len(s) - 1
      /\ Head(s) = s[1]
  OBVIOUS
<1>2. \A i \in 1 .. Len(s) - 1 : Tail(s)[i] = s[i + 1]
  OBVIOUS
<1>3. \A t \in Seq(Sink!Calls) : t = <<>> <=> Len(t) = 0
  OBVIOUS
<1>4. Tail(s) = <<>> <=> Len(s) = 1
  <2>1. Tail(s) = <<>> <=> Len(Tail(s)) = 0
    BY <1>1, <1>3, Zenon
  <2>2. \A n \in Nat : n - 1 = 0 <=> n = 1
    OBVIOUS
  <2>. QED  BY <1>1, <2>1, <2>2, Zenon
<1>. QED  BY <1>1, <1>2, <1>4

(* The call goes through.                                                  *)
Proceeds(u) ==
  LET call == Head(calls[u]) IN
  /\ phase[u] = "idle" /\ calls[u] # <<>> /\ Sink!MayCall(u)
  /\ call = "end" => ~Sink!WriterFailed
  /\ calls' = [calls EXCEPT ![u] = Tail(@)]
  /\ phase' = [phase EXCEPT ![u] = CASE call = "await" -> "op"
                                      [] call = "check" -> "idle"
                                      [] OTHER          -> "lock"]
  /\ todo' = [todo EXCEPT ![u] = CASE call = "await" -> <<"read">>
                                   [] call = "check" -> <<>>
                                   [] OTHER          -> Sink!Script(call)]
  /\ UNCHANGED <<frame, outcome, sendLock, opLock>>
  /\ UNCHANGED <<scenario, Sink!bufferVars, closed, broken, cancelling, asyncError, keep,
                 Sink!stopVars>>

(* What is left to do after the call began.                                *)
Begun(u) ==
  LET call == Head(calls[u])
      t == todo'[u] IN
  /\ t \in Todos(u) /\ t \in Seq(Sink!Steps)
  /\ phase'[u] \in {"idle", "op", "lock"}
  /\ phase'[u] = "idle" <=> t = <<>>
  /\ phase'[u] = "op" <=> Has(t, "read")
  /\ phase'[u] = "op" => t # <<>> /\ Head(t) = "read"
  /\ (\E x \in BehindData : Has(t, x)) => Has(t, "flushData")
  /\ (\E x \in BehindControl : Has(t, x)) => Has(t, "flushControl")
  /\ Has(t, "putControl") <=> call = "message"
  /\ Has(t, "sendEnd") <=> call = "end"
  /\ Has(t, "putData") <=> call = "write"
  /\ call = "flush" => Has(t, "flushControl")
  /\ call = "check" => t = <<>>

(* A call begins with its whole script, the reading of an answer with      *)
(* nothing else.                                                           *)
LEMMA CallBegins ==
  ASSUME SinkInv, NEW u \in Sink!Users, Proceeds(u)
  PROVE  Begun(u)
<1> DEFINE call == Head(calls[u])
<1>1. UsersTyped /\ CallsFit
  BY TypeHasParts DEF SinkInv
<1>2. calls[u] \in Seq(Sink!Calls) /\ calls[u] # <<>> /\ call = calls[u][1]
      /\ 1 \in 1 .. Len(calls[u])
  BY <1>1, TailOfCalls DEF UsersTyped, Proceeds
<1>3. /\ todo'[u] = (CASE call = "await" -> <<"read">>
                      [] call = "check" -> <<>>
                      [] OTHER -> Sink!Script(call))
      /\ phase'[u] = (CASE call = "await" -> "op" [] call = "check" -> "idle" [] OTHER -> "lock")
  BY <1>1 DEF UsersTyped, Proceeds
<1>4. u = "main" => call \in MainScripts \cup {"await", "check"}
  BY <1>1, <1>2 DEF CallsFit, MainScripts
<1>5. u = "data" => call \in DataScripts
  BY <1>1, <1>2 DEF CallsFit, DataScripts
<1> HIDE DEF call
<1>6. CASE call = "await"
  <2>1. "read" \in Sink!Steps /\ todo'[u] = <<"read">> /\ phase'[u] = "op"
    BY <1>3, <1>6 DEF Sink!Steps
  <2>2. u = "main"
    BY <1>5, <1>6, UsersAreTwo DEF DataScripts
  <2>3. todo'[u] \in Todos(u)
    BY <2>1, <2>2 DEF Todos, MainTodos
  <2>4. /\ todo'[u] \in Seq(Sink!Steps) /\ todo'[u] # <<>> /\ Head(todo'[u]) = "read"
        /\ \A x : Has(todo'[u], x) <=> x = "read"
    BY <2>1, OneStep
  <2>. QED  BY <1>6, <2>1, <2>3, <2>4 DEF Begun, call, BehindData, BehindControl, Sends
<1>7. CASE call = "check"
  <2>1. todo'[u] = <<>> /\ phase'[u] = "idle"
    BY <1>3, <1>7
  <2>2. todo'[u] \in Todos(u)
    BY <2>1 DEF Todos, MainTodos, DataTodos
  <2>. QED  BY <1>7, <2>1, <2>2, NoStep DEF Begun, call
<1>8. CASE call \notin {"await", "check"}
  <2>1. todo'[u] = Sink!Script(call) /\ phase'[u] = "lock"
    BY <1>3, <1>8
  <2>2. call \in (IF u = "main" THEN MainScripts ELSE DataScripts)
    BY <1>4, <1>5, <1>8, UsersAreTwo
  <2>. QED  BY <1>8, <2>1, <2>2, ScriptIsWhole DEF Begun, call
<1>. QED  BY <1>6, <1>7, <1>8

(* A call that begins is taken off the calls that are left.                *)
LEMMA ProceedingKeepsType ==
  ASSUME SinkInv, NEW u \in Sink!Users, Proceeds(u)
  PROVE  Sink!TypeOK'
<1>1. UsersTyped /\ BuffersTyped /\ LocksTyped /\ RestTyped
  BY TypeHasParts DEF SinkInv
<1>2. calls[u] \in Seq(Sink!Calls) /\ Tail(calls[u]) \in Seq(Sink!Calls)
  BY <1>1, TailOfCalls DEF UsersTyped, Proceeds
<1>3. todo'[u] \in Seq(Sink!Steps) /\ phase'[u] \in Phases
  BY CallBegins DEF Begun, Phases
<1>4. phase' = [phase EXCEPT ![u] = phase'[u]] /\ todo' = [todo EXCEPT ![u] = todo'[u]]
      /\ calls' = [calls EXCEPT ![u] = Tail(calls[u])] /\ frame' = frame /\ outcome' = outcome
  BY <1>1 DEF Proceeds, UsersTyped
<1>5. UsersTyped'
  BY <1>1, <1>2, <1>3, <1>4 DEF UsersTyped
<1>6. BuffersTyped' /\ LocksTyped'
  BY <1>1 DEF BuffersTyped, LocksTyped, Proceeds, Sink!bufferVars, Sink!Asked
<1>7. RestTyped'
  BY <1>1, Zenon DEF RestTyped, Proceeds, Sink!stopVars
<1>. QED  BY <1>5, <1>6, <1>7, TypePartsNext

(* A message is followed by its flush, so a message finds the control      *)
(* buffer empty; and the end begins only when the other thread has written *)
(* everything.                                                             *)
LEMMA ProceedingKeeps ==
  ASSUME SinkInv, NEW u \in Sink!Users, Proceeds(u)
  PROVE  SinkInv'
<1> DEFINE call == Head(calls[u])
           rest == Tail(calls[u])
<1>1. UsersTyped
  BY TypeHasParts DEF SinkInv
<1>2. /\ \A v \in Sink!Users : v # u => phase'[v] = phase[v] /\ todo'[v] = todo[v]
         /\ calls'[v] = calls[v]
      /\ \A v \in Sink!Users : outcome'[v] = outcome[v] /\ frame'[v] = frame[v]
      /\ calls'[u] = rest
      /\ sendLock' = sendLock /\ data' = data /\ control' = control /\ wire' = wire
      /\ accepted' = accepted /\ closed' = closed /\ broken' = broken
  BY <1>1 DEF Proceeds, UsersTyped, Sink!bufferVars
<1>3. phase[u] = "idle" /\ calls[u] # <<>> /\ calls[u] \in Seq(Sink!Calls)
  BY <1>1 DEF Proceeds, UsersTyped
<1>4. /\ Len(calls[u]) \in Nat /\ Len(calls[u]) >= 1 /\ Len(rest) = Len(calls[u]) - 1
      /\ \A i \in 1 .. Len(rest) : rest[i] = calls[u][i + 1] /\ i + 1 \in 1 .. Len(calls[u])
      /\ call = calls[u][1] /\ 1 \in 1 .. Len(calls[u])
      /\ rest = <<>> <=> Len(calls[u]) = 1
      /\ rest # <<>> => Head(rest) = calls[u][2]
  <2>1. rest # <<>> => Head(rest) = rest[1] /\ 1 \in 1 .. Len(rest)
    BY <1>3, TailOfCalls
  <2>. QED  BY <1>3, <2>1, TailOfCalls
<1>5. Begun(u)
  BY CallBegins
<1>6. PhaseFits(u) /\ FrameFits(u) /\ todo[u] = <<>> /\ outcome[u] = "running" /\ frame[u] = <<>>
      /\ ~Holds(u) /\ ~InOp(u)
  BY <1>3 DEF SinkInv, UsersFit, PhaseFits, FrameFits, InOp, Holds
<1> HIDE DEF call, rest
<1>7. UsersFit'
  <2> SUFFICES ASSUME NEW v \in Sink!Users  PROVE (PhaseFits(v) /\ FrameFits(v) /\ FlushedFirst(v))'
    BY DEF UsersFit
  <2>1. CASE v = u
    <3>1. ~Holds(u)'
      BY <1>5 DEF Begun, Holds, InOp, Reads
    <3>2. PhaseFits(u)'
      BY <1>2, <1>5, <1>6, <3>1 DEF PhaseFits, Begun, InOp, Reads
    <3>3. FrameFits(u)'
      BY <1>2, <1>5, <1>6 DEF FrameFits, Begun, InOp, Reads, InFlight, Sends
    <3>4. FlushedFirst(u)'
      BY <1>5 DEF FlushedFirst, Begun
    <3>. QED  BY <2>1, <3>2, <3>3, <3>4
  <2>2. CASE v # u
    <3>1. PhaseFits(v) /\ FrameFits(v) /\ FlushedFirst(v)
      BY DEF SinkInv, UsersFit
    <3>. QED  BY <1>2, <2>2, <3>1 DEF PhaseFits, FrameFits, FlushedFirst, InOp, Reads, Holds,
        InFlight
  <2>. QED  BY <2>1, <2>2
<1>8. InOrder'
  <2>1. InOrder
    BY DEF SinkInv
  <2>2. Sink!Alive' <=> Sink!Alive
    BY <1>2 DEF Sink!Alive
  <2>3. InFlight("main")' <=> InFlight("main")
    <3>1. CASE u = "main"
      BY <1>5, <1>6, <3>1 DEF InFlight, InOp, Begun, Sends
    <3>2. CASE u # "main"
      BY <1>2, <3>2, UsersAreTwo DEF InFlight, InOp
    <3>. QED  BY <3>1, <3>2
  <2>. QED  BY <1>2, <2>1, <2>2, <2>3, UsersAreTwo DEF InOrder, Waiting
<1>9. CallsFit'
  <2>1. CallsFit
    BY DEF SinkInv
  <2>2. CASE u = "main"
    <3>1. calls'["main"] = rest /\ calls'["data"] = calls["data"]
      BY <1>2, <2>2, UsersAreTwo
    <3>2. ASSUME NEW i \in 1 .. Len(rest)
          PROVE  /\ rest[i] \in {"begin", "message", "flush", "await", "end", "check"}
                 /\ rest[i] = "check" <=> i = Len(rest)
                 /\ rest[i] = "end" <=> i = Len(rest) - 1
                 /\ rest[i] = "message" => rest[i + 1] = "flush"
      <4>1. /\ i + 1 \in 1 .. Len(calls["main"]) /\ rest[i] = calls["main"][i + 1]
            /\ Len(rest) = Len(calls["main"]) - 1 /\ Len(calls["main"]) \in Nat
        BY <1>4, <2>2
      <4>2. /\ calls["main"][i + 1] \in {"begin", "message", "flush", "await", "end", "check"}
            /\ calls["main"][i + 1] = "check" <=> i + 1 = Len(calls["main"])
            /\ calls["main"][i + 1] = "end" <=> i + 1 = Len(calls["main"]) - 1
            /\ calls["main"][i + 1] = "message" => calls["main"][i + 1 + 1] = "flush"
        BY <2>1, <4>1 DEF CallsFit
      <4>3. i + 1 # Len(calls["main"]) => rest[i + 1] = calls["main"][i + 1 + 1]
        BY <1>4, <2>2, <4>1
      <4>. QED  BY <4>1, <4>2, <4>3
    <3>. QED  BY <2>1, <3>1, <3>2 DEF CallsFit
  <2>3. CASE u = "data"
    <3>1. calls'["data"] = rest /\ calls'["main"] = calls["main"]
      BY <1>2, <2>3, UsersAreTwo
    <3>. QED  BY <1>4, <2>1, <2>3, <3>1 DEF CallsFit
  <2>. QED  BY <2>2, <2>3, UsersAreTwo
<1>10. RoomLeft'
  <2>1. RoomLeft /\ CallsFit
    BY DEF SinkInv
  <2>2. CASE u = "main"
    <3>1. calls'["main"] = rest /\ phase'["data"] = phase["data"] /\ todo'["data"] = todo["data"]
      BY <1>2, <2>2, UsersAreTwo
    <3>2. call = "message" => rest # <<>> /\ Head(rest) = "flush"
      BY <1>4, <2>1, <2>2 DEF CallsFit
    <3>3. control # <<>> => call = "flush"
      BY <1>3, <1>6, <2>1, <2>2, NoStep DEF RoomLeft, FlushNext, call
    <3>4. (Has(todo["main"], "putControl") => FlushNext)'
      BY <1>5, <2>2, <3>1, <3>2 DEF Begun, FlushNext, call
    <3>5. control # <<>> => Has(todo'["main"], "flushControl")
      BY <1>5, <2>2, <3>3 DEF Begun, call
    <3>. QED  BY <1>2, <2>1, <3>1, <3>4, <3>5 DEF RoomLeft
  <2>3. CASE u = "data"
    <3>1. /\ calls'["main"] = calls["main"] /\ phase'["main"] = phase["main"]
          /\ todo'["main"] = todo["main"]
      BY <1>2, <2>3, UsersAreTwo
    <3>2. Len(data) # DataCap
      BY <1>3, <1>6, <2>1, <2>3, NoStep DEF RoomLeft
    <3>. QED  BY <1>2, <2>1, <3>1, <3>2 DEF RoomLeft, FlushNext
  <2>. QED  BY <2>2, <2>3, UsersAreTwo
<1>11. EndIsLast'
  <2>1. EndIsLast /\ CallsFit
    BY DEF SinkInv
  <2>2. CASE u = "main"
    <3>1. /\ calls'["main"] = rest /\ calls'["data"] = calls["data"]
          /\ \A v \in Sink!Users : outcome'[v] = outcome[v]
      BY <1>2, <2>2, UsersAreTwo
    <3>0. /\ call = calls["main"][1] /\ 1 \in 1 .. Len(calls["main"])
          /\ Len(rest) = Len(calls["main"]) - 1 /\ Len(calls["main"]) \in Nat
      BY <1>4, <2>2
    <3>2. call = "end" <=> Len(calls["main"]) = 2
      <4>1. calls["main"][1] = "end" <=> 1 = Len(calls["main"]) - 1
        BY <2>1, <3>0 DEF CallsFit
      <4>. QED  BY <3>0, <4>1
    <3>3. call = "end" => outcome["data"] = "ok"
      <4>1. call = "end" => ~Sink!WriterFailed /\ outcome["data"] # "running"
        BY <2>2, Zenon DEF Proceeds, Sink!MayCall, call
      <4>. QED  BY <1>1, <4>1, UsersAreTwo DEF Sink!WriterFailed, UsersTyped, Outcomes
    <3>4. Len(calls["main"]) <= 1 => call = "check"
      BY <1>4, <2>1, <2>2 DEF CallsFit
    <3>5. (Len(calls["main"]) <= 1 => outcome["data"] # "running")'
      <4>1. Len(rest) <= 1 => Len(calls["main"]) = 2 \/ Len(calls["main"]) <= 1
        <5>1. \A n \in Nat : n - 1 <= 1 => n = 2 \/ n <= 1
          OBVIOUS
        <5>. QED  BY <3>0, <5>1
      <4>. QED  BY <2>1, <3>1, <3>2, <3>3, <4>1, UsersAreTwo DEF EndIsLast
    <3>6. (Has(todo["main"], "sendEnd") => outcome["data"] = "ok" /\ Len(calls["main"]) <= 1)'
      BY <1>4, <1>5, <2>2, <3>1, <3>2, <3>3, UsersAreTwo DEF Begun, call
    <3>7. call = "check" => todo'["main"] = <<>>
      BY <1>5, <2>2 DEF Begun, call
    <3>8. Len(calls["main"]) <= 1 => Len(rest) <= 1
      BY <1>4, <2>2
    <3>. QED  BY <1>2, <2>1, <3>1, <3>4, <3>5, <3>6, <3>7, <3>8, UsersAreTwo DEF EndIsLast
  <2>3. CASE u = "data"
    <3>1. /\ calls'["main"] = calls["main"] /\ todo'["main"] = todo["main"]
          /\ \A v \in Sink!Users : outcome'[v] = outcome[v]
      BY <1>2, <2>3, UsersAreTwo
    <3>. QED  BY <1>2, <1>6, <2>1, <2>3, <3>1, UsersAreTwo DEF EndIsLast
  <2>. QED  BY <2>2, <2>3, UsersAreTwo
<1>12. AllCounted'
  <2>1. AllCounted /\ CallsFit
    BY DEF SinkInv
  <2>2. CASE u = "main"
    BY <1>2, <2>1, <2>2, UsersAreTwo DEF AllCounted, WritesLeft, Sink!NumberOf
  <2>3. CASE u = "data"
    <3>1. calls'["data"] = rest /\ outcome'["data"] = outcome["data"]
      BY <1>2, <2>3, UsersAreTwo
    <3>2. call = IF Len(calls["data"]) = 1 THEN "close" ELSE "write"
      BY <1>4, <2>1, <2>3 DEF CallsFit
    <3>3. Has(todo'["data"], "putData") <=> call = "write"
      BY <1>5, <2>3 DEF Begun, call
    <3>4. ~Has(todo["data"], "putData")
      BY <1>6, <2>3, NoStep
    <3>5. WritesLeft' = WritesLeft
      <4>1. /\ calls["data"] # <<>> /\ Len(rest) = Len(calls["data"]) - 1
            /\ Len(calls["data"]) \in Nat /\ (rest = <<>> <=> Len(calls["data"]) = 1)
        BY <1>3, <1>4, <2>3
      <4>2. CASE Len(calls["data"]) = 1
        BY <3>1, <3>2, <3>3, <3>4, <4>1, <4>2 DEF WritesLeft
      <4>3. CASE Len(calls["data"]) # 1
        BY <3>1, <3>2, <3>3, <3>4, <4>1, <4>3 DEF WritesLeft
      <4>. QED  BY <4>2, <4>3
    <3>. QED  BY <1>2, <2>1, <3>1, <3>5 DEF AllCounted, Sink!NumberOf
  <2>. QED  BY <2>2, <2>3, UsersAreTwo
<1>. QED  BY <1>7, <1>8, <1>9, <1>10, <1>11, <1>12, ProceedingKeepsType DEF SinkInv

(***************************************************************************)
(* Steps that move a user on in its call and nothing else.                 *)
(***************************************************************************)
Quiet ==
  UNCHANGED <<scenario, calls, frame, outcome, Sink!bufferVars, closed, broken, cancelling,
  asyncError,
              keep, Sink!stopVars>>

MovesOn(u) ==
  /\ UNCHANGED <<calls, frame, outcome, data, control, wire, accepted, closed, broken>>
  /\ \A v \in Sink!Users : v # u =>
       phase'[v] = phase[v] /\ todo'[v] = todo[v] /\ (sendLock' = v <=> sendLock = v)
  /\ phase[u] # "over"
  /\ \A x : Has(todo'[u], x) => Has(todo[u], x)
  /\ Has(todo[u], "putData") => Has(todo'[u], "putData")
  /\ data # <<>> /\ Has(todo[u], "flushData") => Has(todo'[u], "flushData")
  /\ control # <<>> /\ Has(todo[u], "flushControl") => Has(todo'[u], "flushControl")
  /\ todo[u] = <<>> => todo'[u] = <<>>
  /\ InOp(u) => todo'[u] = <<>> \/ (InOp(u)' /\ todo'[u] = todo[u])
  /\ InFlight(u)' <=> InFlight(u)

(* What holds of the user that moves on is enough for the whole.           *)
LEMMA MovingOnKeeps ==
  ASSUME SinkInv, NEW u \in Sink!Users, MovesOn(u), (PhaseFits(u) /\ FrameFits(u)
  /\ FlushedFirst(u))'
  PROVE  (UsersFit /\ InOrder /\ CallsFit /\ RoomLeft /\ EndIsLast /\ AllCounted)'
<1>1. UsersTyped /\ BuffersTyped /\ DataCap \in Nat \ {0}
  BY TypeHasParts DEF SinkInv, Sink!SinkBounds
<1>2. /\ calls' = calls /\ frame' = frame /\ outcome' = outcome /\ data' = data
         /\ control' = control
      /\ wire' = wire /\ accepted' = accepted /\ closed' = closed /\ broken' = broken
  BY DEF MovesOn
<1>3. UsersFit'
  <2> SUFFICES ASSUME NEW v \in Sink!Users, v # u  PROVE (PhaseFits(v) /\ FrameFits(v)
      /\ FlushedFirst(v))'
    BY DEF UsersFit
  <2>1. PhaseFits(v) /\ FrameFits(v) /\ FlushedFirst(v)
    BY DEF SinkInv, UsersFit
  <2>2. phase'[v] = phase[v] /\ todo'[v] = todo[v] /\ (sendLock' = v <=> sendLock = v)
    BY DEF MovesOn
  <2>. QED  BY <1>2, <2>1, <2>2 DEF PhaseFits, FrameFits, FlushedFirst, InOp, Reads, Holds, InFlight
<1>4. InOrder'
  <2>1. InOrder
    BY DEF SinkInv
  <2>2. InFlight("main")' <=> InFlight("main")
    <3>1. CASE u = "main"
      BY <3>1 DEF MovesOn
    <3>2. CASE u # "main"
      BY <3>2, UsersAreTwo DEF InFlight, InOp, MovesOn
    <3>. QED  BY <3>1, <3>2
  <2>3. Sink!Alive' <=> Sink!Alive
    BY <1>2 DEF Sink!Alive
  <2>. QED  BY <1>2, <2>1, <2>2, <2>3 DEF InOrder, Waiting
<1>5. CallsFit'
  BY <1>2 DEF SinkInv, CallsFit
<1>6. RoomLeft'
  <2>1. RoomLeft
    BY DEF SinkInv
  <2>2. Len(data) = DataCap => data # <<>>
    BY <1>1 DEF BuffersTyped
  <2>3. CASE u = "main"
    <3>1. phase'["data"] = phase["data"] /\ todo'["data"] = todo["data"]
      BY <2>3, UsersAreTwo DEF MovesOn
    <3>. QED  BY <1>2, <2>1, <2>3, <3>1 DEF RoomLeft, FlushNext, MovesOn
  <2>4. CASE u = "data"
    <3>1. phase'["main"] = phase["main"] /\ todo'["main"] = todo["main"]
      BY <2>4, UsersAreTwo DEF MovesOn
    <3>. QED  BY <1>2, <2>1, <2>2, <2>4, <3>1 DEF RoomLeft, FlushNext, MovesOn
  <2>. QED  BY <2>3, <2>4, UsersAreTwo
<1>7. EndIsLast'
  <2>1. EndIsLast
    BY DEF SinkInv
  <2>2. CASE u = "main"
    BY <1>2, <2>1, <2>2 DEF EndIsLast, MovesOn
  <2>3. CASE u = "data"
    <3>1. phase'["main"] = phase["main"] /\ todo'["main"] = todo["main"]
      BY <2>3, UsersAreTwo DEF MovesOn
    <3>. QED  BY <1>2, <2>1, <2>3, <3>1 DEF EndIsLast, InOp
  <2>. QED  BY <2>2, <2>3, UsersAreTwo
<1>8. AllCounted'
  <2>1. AllCounted
    BY DEF SinkInv
  <2>2. Has(todo'["data"], "putData") <=> Has(todo["data"], "putData")
    <3>1. CASE u = "data"
      BY <3>1 DEF MovesOn
    <3>2. CASE u # "data"
      BY <3>2, UsersAreTwo DEF MovesOn
    <3>. QED  BY <3>1, <3>2
  <2>. QED  BY <1>2, <2>1, <2>2 DEF AllCounted, WritesLeft, Sink!NumberOf
<1>. QED  BY <1>3, <1>4, <1>5, <1>6, <1>7, <1>8

(* The type of such a step.                                                *)
LEMMA QuietType ==
  ASSUME SinkInv, Quiet, phase' \in [Sink!Users -> Phases],
  todo' \in [Sink!Users -> Seq(Sink!Steps)],
         sendLock' \in Sink!Users \cup {Sink!Free}, opLock' \in Sink!Users \cup {Sink!Free,
         "keepalive"}
  PROVE  Sink!TypeOK'
<1>1. UsersTyped /\ BuffersTyped /\ LocksTyped /\ RestTyped
  BY TypeHasParts DEF SinkInv
<1>2. UsersTyped'
  BY <1>1 DEF UsersTyped, Quiet
<1>3. BuffersTyped'
  BY <1>1 DEF BuffersTyped, Quiet, Sink!bufferVars, Sink!Asked
<1>4. LocksTyped'
  BY <1>1 DEF LocksTyped, Quiet
<1>5. RestTyped'
  BY <1>1, Zenon DEF RestTyped, Quiet, Sink!stopVars
<1>. QED  BY <1>2, <1>3, <1>4, <1>5, TypePartsNext

(* The lock is taken by a user that waits for it, ...                      *)
LEMMA TakeSendLockKeeps ==
  ASSUME SinkInv, NEW u \in Sink!Users, Sink!TakeSendLock(u)
  PROVE  SinkInv'
<1>1. UsersTyped /\ LocksTyped /\ PhaseFits(u) /\ FrameFits(u) /\ FlushedFirst(u)
  BY TypeHasParts DEF SinkInv, UsersFit
<1>2. /\ Quiet /\ phase[u] = "lock" /\ phase' = [phase EXCEPT ![u] = "work"] /\ todo' = todo
      /\ sendLock = Sink!Free /\ sendLock' = u /\ opLock' = opLock
  BY DEF Sink!TakeSendLock, Quiet
<1>3. /\ phase'[u] = "work" /\ \A v \in Sink!Users : v # u => phase'[v] = phase[v]
      /\ phase' \in [Sink!Users -> Phases]
  BY <1>1, <1>2 DEF UsersTyped, Phases
<1>4. ~Reads(u) /\ ~InOp(u) /\ ~InOp(u)' /\ frame'[u] = frame[u] /\ outcome'[u] = outcome[u]
  BY <1>1, <1>2, <1>3 DEF PhaseFits, InOp, Quiet
<1>5. MovesOn(u)
  BY <1>1, <1>2, <1>3, <1>4, UsersAreTwo DEF MovesOn, InFlight, Quiet, Sink!bufferVars
<1>6. PhaseFits(u)'
  BY <1>1, <1>2, <1>3, <1>4 DEF PhaseFits, InOp, Reads, Holds
<1>7. FrameFits(u)'
  BY <1>1, <1>4 DEF FrameFits, InFlight
<1>8. FlushedFirst(u)'
  <2>1. ~Holds(u)
    BY <1>1, <1>2, UsersAreTwo DEF PhaseFits
  <2>. QED  BY <1>1, <1>2, <2>1 DEF FlushedFirst
<1>9. Sink!TypeOK'
  BY <1>1, <1>2, <1>3, QuietType DEF UsersTyped, LocksTyped
<1>. QED  BY <1>5, <1>6, <1>7, <1>8, <1>9, MovingOnKeeps DEF SinkInv

(* ... an empty buffer needs no frame, ...                                 *)
LEMMA FlushEmptyKeeps ==
  ASSUME SinkInv, NEW u \in Sink!Users, Sink!FlushEmpty(u)
  PROVE  SinkInv'
<1>1. UsersTyped /\ LocksTyped /\ PhaseFits(u) /\ FrameFits(u) /\ FlushedFirst(u)
  BY TypeHasParts DEF SinkInv, UsersFit
<1>2. /\ Quiet /\ phase[u] = "work" /\ phase' = phase /\ todo[u] # <<>>
      /\ todo' = [todo EXCEPT ![u] = <<>> \o Tail(@)]
      /\ sendLock' = sendLock /\ opLock' = opLock
      /\ \/ Head(todo[u]) = "flushData" /\ data = <<>>
         \/ Head(todo[u]) = "flushControl" /\ control = <<>>
  BY DEF Sink!FlushEmpty, Quiet, Sink!Working, Sink!Then
<1>3. RestFits(u, todo[u])
  BY <1>1, TodoIsOrdered DEF PhaseFits
<1>4. /\ todo'[u] = <<>> \o Tail(todo[u]) /\ \A v \in Sink!Users : v # u => todo'[v] = todo[v]
      /\ todo' \in [Sink!Users -> Seq(Sink!Steps)]
      /\ todo'[u] \in Todos(u) /\ \A x : Has(todo'[u], x) <=> Has(todo[u], x) /\ x # Head(todo[u])
  <2>1. <<>> \o Tail(todo[u]) \in Todos(u)
    BY <1>2, <1>3 DEF RestFits
  <2>2. <<>> \o Tail(todo[u]) \in Seq(Sink!Steps)
    BY <2>1, TodoIsOrdered DEF RestFits
  <2>. QED  BY <1>1, <1>2, <1>3, <2>1, <2>2 DEF UsersTyped, RestFits
<1>5. ~Reads(u) /\ ~Reads(u)' /\ ~InOp(u) /\ ~InOp(u)' /\ Holds(u) /\ Holds(u)'
      /\ frame'[u] = frame[u] /\ outcome'[u] = outcome[u] /\ data' = data /\ control' = control
  BY <1>1, <1>2, <1>4 DEF PhaseFits, InOp, Quiet, Holds, Reads, Sink!bufferVars
<1>6. MovesOn(u)
  <2>1. Head(todo[u]) # "putData"
    BY <1>2
  <2>. QED  BY <1>2, <1>4, <1>5, <2>1 DEF MovesOn, InFlight, Quiet, Sink!bufferVars
<1>7. PhaseFits(u)'
  BY <1>1, <1>2, <1>4, <1>5 DEF PhaseFits
<1>8. FrameFits(u)'
  BY <1>1, <1>5 DEF FrameFits, InFlight
<1>9. FlushedFirst(u)'
  BY <1>1, <1>2, <1>4, <1>5 DEF FlushedFirst
<1>10. Sink!TypeOK'
  BY <1>1, <1>2, <1>4, QuietType DEF UsersTyped, LocksTyped
<1>. QED  BY <1>6, <1>7, <1>8, <1>9, <1>10, MovingOnKeeps DEF SinkInv

(* ... and the lock goes with the end of the call.                         *)
LEMMA EndCallKeeps ==
  ASSUME SinkInv, NEW u \in Sink!Users, Sink!EndCall(u)
  PROVE  SinkInv'
<1>1. UsersTyped /\ LocksTyped /\ PhaseFits(u) /\ FrameFits(u) /\ FlushedFirst(u)
  BY TypeHasParts DEF SinkInv, UsersFit
<1>2. /\ Quiet /\ phase[u] = "work" /\ phase' = [phase EXCEPT ![u] = "idle"]
      /\ todo[u] = <<>> /\ todo' = todo /\ sendLock' = Sink!Free /\ opLock' = opLock
  BY DEF Sink!EndCall, Quiet
<1>3. /\ phase'[u] = "idle" /\ \A v \in Sink!Users : v # u => phase'[v] = phase[v]
      /\ phase' \in [Sink!Users -> Phases]
  BY <1>1, <1>2 DEF UsersTyped, Phases
<1>4. sendLock = u /\ ~InOp(u) /\ ~InOp(u)' /\ frame'[u] = frame[u] /\ outcome'[u] = outcome[u]
  BY <1>1, <1>2, <1>3 DEF PhaseFits, InOp, Quiet, Holds
<1>5. MovesOn(u)
  BY <1>1, <1>2, <1>3, <1>4, UsersAreTwo DEF MovesOn, InFlight, Quiet, Sink!bufferVars
<1>6. PhaseFits(u)'
  BY <1>1, <1>2, <1>3, <1>4, NoStep, UsersAreTwo DEF PhaseFits, Reads, Holds, InOp
<1>7. FrameFits(u)'
  BY <1>1, <1>4 DEF FrameFits, InFlight
<1>8. FlushedFirst(u)'
  BY <1>2, NoStep DEF FlushedFirst
<1>9. Sink!TypeOK'
  BY <1>1, <1>2, <1>3, QuietType DEF UsersTyped, LocksTyped
<1>. QED  BY <1>5, <1>6, <1>7, <1>8, <1>9, MovingOnKeeps DEF SinkInv

(* operation_mutex is taken inside.                                        *)
LEMMA TakeOpKeeps ==
  ASSUME SinkInv, NEW u \in Sink!Users, Sink!TakeOp(u)
  PROVE  SinkInv'
<1>1. UsersTyped /\ LocksTyped /\ PhaseFits(u) /\ FrameFits(u) /\ FlushedFirst(u)
  BY TypeHasParts DEF SinkInv, UsersFit
<1>2. /\ Quiet /\ phase[u] = "op" /\ phase' = [phase EXCEPT ![u] = "socket"]
      /\ todo' = todo /\ sendLock' = sendLock /\ opLock' = u
  BY DEF Sink!TakeOp, Quiet
<1>3. /\ phase'[u] = "socket" /\ \A v \in Sink!Users : v # u => phase'[v] = phase[v]
      /\ phase' \in [Sink!Users -> Phases]
  BY <1>1, <1>2 DEF UsersTyped, Phases
<1>4. InOp(u) /\ InOp(u)' /\ frame'[u] = frame[u] /\ outcome'[u] = outcome[u] /\ data' = data
      /\ control' = control
  BY <1>2, <1>3 DEF InOp, Quiet, Sink!bufferVars
<1>5. MovesOn(u)
  BY <1>2, <1>3, <1>4 DEF MovesOn, InFlight, Quiet, Sink!bufferVars
<1>6. PhaseFits(u)'
  BY <1>1, <1>2, <1>3, <1>4 DEF PhaseFits, Reads, Holds
<1>7. FrameFits(u)'
  BY <1>1, <1>2, <1>4 DEF FrameFits, InFlight, Reads
<1>8. FlushedFirst(u)'
  BY <1>1, <1>2, <1>3, <1>4 DEF FlushedFirst, Holds, Reads
<1>9. Sink!TypeOK'
  BY <1>1, <1>2, <1>3, QuietType DEF UsersTyped, LocksTyped
<1>. QED  BY <1>5, <1>6, <1>7, <1>8, <1>9, MovingOnKeeps DEF SinkInv

(* An answer is read without send_mutex.                                   *)
LEMMA ReadAnswerKeeps ==
  ASSUME SinkInv, NEW u \in Sink!Users, Sink!ReadAnswer(u)
  PROVE  SinkInv'
<1>1. /\ UsersTyped /\ BuffersTyped /\ LocksTyped /\ RestTyped
      /\ PhaseFits(u) /\ FrameFits(u) /\ FlushedFirst(u)
  BY TypeHasParts DEF SinkInv, UsersFit
<1>2. /\ phase[u] = "socket" /\ phase' = [phase EXCEPT ![u] = "idle"]
      /\ todo[u] = <<"read">> /\ todo' = [todo EXCEPT ![u] = <<>>]
      /\ answers < Sink!Asked /\ answers' = answers + 1
      /\ sendLock' = sendLock /\ opLock' = Sink!Free
      /\ UNCHANGED <<scenario, calls, frame, outcome, data, control, active, wire, accepted,
                     closed, broken, cancelling, asyncError, keep, Sink!stopVars>>
  BY DEF Sink!ReadAnswer
<1>3. /\ phase'[u] = "idle" /\ todo'[u] = <<>>
      /\ \A v \in Sink!Users : v # u => phase'[v] = phase[v] /\ todo'[v] = todo[v]
      /\ phase' \in [Sink!Users -> Phases] /\ todo' \in [Sink!Users -> Seq(Sink!Steps)]
  BY <1>1, <1>2 DEF UsersTyped, Phases
<1>4. Reads(u) /\ Head(todo[u]) = "read"
  BY <1>2, OneStep DEF Reads, Sink!Steps
<1>5. /\ InOp(u) /\ ~InFlight(u) /\ ~InOp(u)' /\ ~InFlight(u)' /\ ~Holds(u) /\ ~Holds(u)'
         /\ ~Reads(u)'
      /\ frame'[u] = <<>> /\ frame[u] = <<>>
  BY <1>1, <1>2, <1>3, <1>4, NoStep DEF InOp, InFlight, Holds, Sends, FrameFits, Reads
<1>6. MovesOn(u)
  <2>1. \A x : Has(todo[u], x) => x = "read"
    BY <1>2, OneStep DEF Sink!Steps
  <2>. QED  BY <1>2, <1>3, <1>5, <2>1, NoStep DEF MovesOn
<1>7. PhaseFits(u)'
  BY <1>1, <1>2, <1>3, <1>5 DEF PhaseFits, Todos, MainTodos, DataTodos
<1>8. FrameFits(u)' /\ FlushedFirst(u)'
  BY <1>3, <1>5, NoStep DEF FrameFits, FlushedFirst
<1>9. Sink!TypeOK'
  <2>1. UsersTyped' /\ LocksTyped'
    BY <1>1, <1>2, <1>3 DEF UsersTyped, LocksTyped
  <2>2. Sink!Asked \in Nat /\ Sink!Asked' = Sink!Asked
    BY <1>1, <1>2, NumberIsFinite DEF BuffersTyped, Sink!Asked
  <2>3. BuffersTyped'
    BY <1>1, <1>2, <2>2 DEF BuffersTyped
  <2>4. RestTyped'
    BY <1>1, <1>2, Zenon DEF RestTyped, Sink!stopVars
  <2>. QED  BY <2>1, <2>3, <2>4, TypePartsNext
<1>. QED  BY <1>6, <1>7, <1>8, <1>9, MovingOnKeeps DEF SinkInv

(***************************************************************************)
(* A user that is through with its calls.                                  *)
(***************************************************************************)
LEMMA EndUserKeeps ==
  ASSUME SinkInv, NEW u \in Sink!Users, Sink!EndUser(u)
  PROVE  SinkInv'
<1>1. /\ UsersTyped /\ BuffersTyped /\ LocksTyped /\ RestTyped
      /\ PhaseFits(u) /\ FrameFits(u) /\ FlushedFirst(u)
  BY TypeHasParts DEF SinkInv, UsersFit
<1>2. /\ phase[u] = "idle" /\ calls[u] = <<>> /\ phase' = [phase EXCEPT ![u] = "over"]
      /\ outcome' = [outcome EXCEPT ![u] = "ok"]
      /\ UNCHANGED <<scenario, calls, todo, frame, data, control, active, wire, answers, accepted,
                     sendLock, opLock, closed, broken, cancelling, asyncError, keep, Sink!stopVars>>
  BY DEF Sink!EndUser, Sink!bufferVars
<1>3. /\ phase'[u] = "over" /\ outcome'[u] = "ok" /\ todo[u] = <<>> /\ outcome[u] = "running"
      /\ \A v \in Sink!Users : v # u => phase'[v] = phase[v] /\ outcome'[v] = outcome[v]
      /\ ~InOp(u) /\ ~InOp(u)' /\ ~Holds(u) /\ ~Holds(u)'
  BY <1>1, <1>2 DEF UsersTyped, PhaseFits, InOp, Holds
<1>4. UsersFit'
  <2> SUFFICES ASSUME NEW v \in Sink!Users  PROVE (PhaseFits(v) /\ FrameFits(v) /\ FlushedFirst(v))'
    BY DEF UsersFit
  <2>1. CASE v = u
    BY <1>1, <1>2, <1>3, <2>1, NoStep DEF PhaseFits, FrameFits, FlushedFirst, Reads, InFlight
  <2>2. CASE v # u
    <3>1. PhaseFits(v) /\ FrameFits(v) /\ FlushedFirst(v)
      BY DEF SinkInv, UsersFit
    <3>. QED  BY <1>2, <1>3, <2>2, <3>1 DEF PhaseFits, FrameFits, FlushedFirst, InOp, Reads, Holds,
        InFlight
  <2>. QED  BY <2>1, <2>2
<1>5. InOrder'
  <2>1. InOrder
    BY DEF SinkInv
  <2>2. InFlight("main")' <=> InFlight("main")
    <3>1. CASE u = "main"
      BY <1>3, <3>1 DEF InFlight
    <3>2. CASE u # "main"
      BY <1>2, <1>3, <3>2, UsersAreTwo DEF InFlight, InOp
    <3>. QED  BY <3>1, <3>2
  <2>3. Sink!Alive' <=> Sink!Alive
    BY <1>2 DEF Sink!Alive
  <2>. QED  BY <1>2, <2>1, <2>2, <2>3 DEF InOrder, Waiting
<1>6. CallsFit'
  BY <1>2 DEF SinkInv, CallsFit
<1>7. RoomLeft'
  <2>1. RoomLeft
    BY DEF SinkInv
  <2>. QED  BY <1>2, <1>3, <2>1, UsersAreTwo DEF RoomLeft, FlushNext
<1>8. EndIsLast' /\ AllCounted'
  <2>1. EndIsLast /\ AllCounted
    BY DEF SinkInv
  <2>2. CASE u = "main"
    <3>1. outcome'["data"] = outcome["data"]
      BY <1>3, <2>2, UsersAreTwo
    <3>2. Len(calls["main"]) <= 1
      BY <1>2, <2>2
    <3>3. EndIsLast'
      BY <1>2, <1>3, <2>1, <2>2, <3>1, <3>2, NoStep DEF EndIsLast
    <3>4. AllCounted'
      BY <1>2, <2>1, <3>1 DEF AllCounted, WritesLeft, Sink!NumberOf
    <3>. QED  BY <3>3, <3>4
  <2>3. CASE u = "data"
    <3>1. outcome'["main"] = outcome["main"] /\ phase'["main"] = phase["main"]
      BY <1>3, <2>3, UsersAreTwo
    <3>2. EndIsLast'
      BY <1>2, <1>3, <2>1, <2>3, <3>1 DEF EndIsLast, InOp
    <3>3. AllCounted'
      BY <1>2, <1>3, <2>1, <2>3 DEF AllCounted, WritesLeft, Sink!NumberOf
    <3>. QED  BY <3>2, <3>3
  <2>. QED  BY <2>2, <2>3, UsersAreTwo
<1>9. Sink!TypeOK'
  <2>1. UsersTyped' /\ LocksTyped'
    BY <1>1, <1>2 DEF UsersTyped, LocksTyped, Phases, Outcomes
  <2>2. BuffersTyped'
    BY <1>1, <1>2 DEF BuffersTyped, Sink!Asked
  <2>3. RestTyped'
    BY <1>1, <1>2, Zenon DEF RestTyped, Sink!stopVars
  <2>. QED  BY <2>1, <2>2, <2>3, TypePartsNext
<1>. QED  BY <1>4, <1>5, <1>6, <1>7, <1>8, <1>9 DEF SinkInv

(***************************************************************************)
(* A frame is made. What is in a buffer was accepted before; what is sent  *)
(* behind the buffers is accepted now.                                     *)
(***************************************************************************)
FrameMade(u) ==
  /\ phase[u] = "work" /\ todo[u] # <<>>
  /\ \/ Head(todo[u]) = "flushData" /\ data # <<>> /\ frame'[u] = data /\ accepted' = accepted
     \/ Head(todo[u]) = "flushControl" /\ control # <<>> /\ frame'[u] = control
        /\ accepted' = accepted
     \/ /\ Head(todo[u]) \in Sends
        /\ \E x \in Sink!Unit : /\ frame'[u] = <<x>> /\ accepted' = Append(accepted, x)
                                /\ x[1] # "data"
                                /\ x = End => Head(todo[u]) = "sendEnd"
  /\ frame' = [frame EXCEPT ![u] = frame'[u]]
  /\ phase' = [phase EXCEPT ![u] = "op"]
  /\ UNCHANGED <<todo, outcome, sendLock, opLock>>
  /\ UNCHANGED <<scenario, calls, data, control, active, wire, answers, closed, broken,
                 cancelling, asyncError, keep, Sink!stopVars>>

(* The unit a step behind the buffers sends.                               *)
LEMMA SentUnit ==
  ASSUME SinkInv, NEW u \in Sink!Users, todo[u] # <<>>, Head(todo[u]) \in Sends
  PROVE  \E x \in Sink!Unit : Sink!Frame(u) = <<x>> /\ x[1] # "data"
         /\ (x = End => Head(todo[u]) = "sendEnd")
<1>1. accepted \in Seq(Sink!Unit)
  BY TypeHasParts DEF SinkInv, BuffersTyped
<1>2. Sink!NumberOf("control", accepted) + 1 \in Nat
  <2>1. Sink!NumberOf("control", accepted) \in Nat
    BY <1>1, NumberIsNatural
  <2>. QED  BY <2>1
<1>3. CASE Head(todo[u]) = "sendBegin"
  <2>1. Sink!Frame(u) = << <<"event", 1>> >>
    BY <1>3 DEF Sink!Frame
  <2>. QED  BY <2>1 DEF Sink!Unit, End
<1>4. CASE Head(todo[u]) = "sendEnd"
  <2>1. Sink!Frame(u) = << <<"event", 2>> >>
    BY <1>4 DEF Sink!Frame
  <2>. QED  BY <1>4, <2>1 DEF Sink!Unit
<1>5. CASE Head(todo[u]) = "sendLarge"
  <2>1. Sink!Frame(u) = << <<"control", Sink!NumberOf("control", accepted) + 1>> >>
    BY <1>5 DEF Sink!Frame, Sink!NextUnit
  <2>2. <<"control", Sink!NumberOf("control", accepted) + 1>> \in Sink!Unit
    BY <1>2 DEF Sink!Unit
  <2>. QED  BY <2>1, <2>2 DEF End
<1>. QED  BY <1>3, <1>4, <1>5 DEF Sends

(* Sending goes ahead unless the call is refused.                          *)
LEMMA MakesFrame ==
  ASSUME SinkInv, NEW u \in Sink!Users, Sink!StartFrame(u), ~(Sink!Refusing
  /\ Sink!Throw(u, Sink!Refusal) /\ accepted' = accepted)
  PROVE  FrameMade(u)
<1>1. UsersTyped /\ BuffersTyped
  BY TypeHasParts DEF SinkInv
<1>2. /\ frame' = [frame EXCEPT ![u] = Sink!Frame(u)]
      /\ accepted' = IF Head(todo[u]) \in {"flushData", "flushControl"} THEN accepted
                     ELSE accepted \o Sink!Frame(u)
      /\ phase' = [phase EXCEPT ![u] = "op"]
      /\ UNCHANGED <<todo, outcome, sendLock, opLock>>
      /\ UNCHANGED <<scenario, calls, data, control, active, wire, answers, closed, broken,
                     cancelling, asyncError, keep, Sink!stopVars>>
  BY DEF Sink!StartFrame
<1>3. frame'[u] = Sink!Frame(u) /\ frame' = [frame EXCEPT ![u] = frame'[u]]
  BY <1>1, <1>2 DEF UsersTyped
<1>4. /\ phase[u] = "work" /\ todo[u] # <<>>
      /\ \/ Head(todo[u]) = "flushData" /\ data # <<>>
         \/ Head(todo[u]) = "flushControl" /\ control # <<>>
         \/ Head(todo[u]) \in Sends
  BY DEF Sink!StartFrame, Sink!Working, Sends
<1>5. CASE Head(todo[u]) = "flushData" /\ data # <<>>
  <2>1. Sink!Frame(u) = data
    BY <1>5 DEF Sink!Frame
  <2>. QED  BY <1>2, <1>3, <1>4, <1>5, <2>1 DEF FrameMade
<1>6. CASE Head(todo[u]) = "flushControl" /\ control # <<>>
  <2>1. Sink!Frame(u) = control
    BY <1>6 DEF Sink!Frame
  <2>. QED  BY <1>2, <1>3, <1>4, <1>6, <2>1 DEF FrameMade
<1>7. CASE Head(todo[u]) \in Sends
  <2>1. PICK x \in Sink!Unit : Sink!Frame(u) = <<x>> /\ x[1] # "data"
        /\ (x = End => Head(todo[u]) = "sendEnd")
    BY <1>4, <1>7, SentUnit
  <2>2. accepted' = accepted \o <<x>>
    BY <1>2, <1>7, <2>1 DEF Sends
  <2>3. accepted' = Append(accepted, x)
    BY <1>1, <2>2, OneBehind DEF BuffersTyped
  <2>4. /\ Head(todo[u]) \in Sends
        /\ \E y \in Sink!Unit : /\ frame'[u] = <<y>> /\ accepted' = Append(accepted, y)
                                /\ y[1] # "data"
                                /\ y = End => Head(todo[u]) = "sendEnd"
    BY <1>3, <1>7, <2>1, <2>3
  <2>. QED  BY <1>2, <1>3, <1>4, <2>4 DEF FrameMade
<1>. QED  BY <1>4, <1>5, <1>6, <1>7

(* A frame is made of units.                                               *)
LEMMA FrameKeepsType ==
  ASSUME SinkInv, NEW u \in Sink!Users, FrameMade(u)
  PROVE  Sink!TypeOK'
<1>1. UsersTyped /\ BuffersTyped /\ LocksTyped /\ RestTyped
  BY TypeHasParts DEF SinkInv
<1>2. frame'[u] \in Seq(Sink!Unit) /\ accepted' \in Seq(Sink!Unit)
  <2>1. CASE Head(todo[u]) \in Sends
    <3>1. PICK x \in Sink!Unit : frame'[u] = <<x>> /\ accepted' = Append(accepted, x)
      BY <2>1 DEF FrameMade, Sends
    <3>. QED  BY <1>1, <3>1 DEF BuffersTyped
  <2>2. CASE Head(todo[u]) \notin Sends
    BY <1>1, <2>2 DEF FrameMade, BuffersTyped
  <2>. QED  BY <2>1, <2>2
<1>3. UsersTyped'
  BY <1>1, <1>2 DEF UsersTyped, FrameMade, Phases
<1>4. BuffersTyped'
  BY <1>1, <1>2 DEF BuffersTyped, FrameMade, Sink!Asked
<1>5. LocksTyped'
  BY <1>1 DEF LocksTyped, FrameMade
<1>6. RestTyped'
  BY <1>1, Zenon DEF RestTyped, FrameMade, Sink!stopVars
<1>. QED  BY <1>3, <1>4, <1>5, <1>6, TypePartsNext

(* What is sent behind the buffers is sent when both are empty, so it is   *)
(* next on the wire; and after the end nothing is accepted.                *)
LEMMA MakingFrameKeeps ==
  ASSUME SinkInv, NEW u \in Sink!Users, FrameMade(u)
  PROVE  SinkInv'
<1>1. UsersTyped /\ BuffersTyped /\ PhaseFits(u) /\ FrameFits(u) /\ FlushedFirst(u)
  BY TypeHasParts DEF SinkInv, UsersFit
<1>2. /\ phase[u] = "work" /\ phase'[u] = "op" /\ todo[u] # <<>>
      /\ \A v \in Sink!Users : v # u => phase'[v] = phase[v] /\ frame'[v] = frame[v]
      /\ UNCHANGED <<todo, outcome, sendLock, calls, data, control, wire, closed, broken>>
  BY <1>1 DEF FrameMade, UsersTyped
<1>3. RestFits(u, todo[u]) /\ ~Reads(u) /\ ~Reads(u)' /\ ~InOp(u) /\ InOp(u)' /\ Holds(u)
      /\ Holds(u)'
  BY <1>1, <1>2, TodoIsOrdered DEF PhaseFits, InOp, Reads, Holds
<1>4. UsersFit'
  <2> SUFFICES ASSUME NEW v \in Sink!Users  PROVE (PhaseFits(v) /\ FrameFits(v) /\ FlushedFirst(v))'
    BY DEF UsersFit
  <2>1. CASE v = u
    <3>1. PhaseFits(u)'
      <4>1. Head(todo[u]) \notin {"putData", "putControl"}
        BY DEF FrameMade, Sends
      <4>. QED  BY <1>1, <1>2, <1>3, <4>1 DEF PhaseFits
    <3>2. FrameFits(u)'
      <4>1. CASE Head(todo[u]) \in Sends
        <5>1. PICK x \in Sink!Unit : frame'[u] = <<x>>
          BY <4>1 DEF FrameMade, Sends
        <5>2. frame'[u] # <<>> /\ Len(frame'[u]) = 1
          BY <5>1
        <5>. QED  BY <1>2, <1>3, <4>1, <5>2 DEF FrameFits, InFlight, Sends
      <4>2. CASE Head(todo[u]) \notin Sends
        <5>1. \/ Head(todo[u]) = "flushData" /\ data # <<>> /\ frame'[u] = data
              \/ Head(todo[u]) = "flushControl" /\ control # <<>> /\ frame'[u] = control
          BY <4>2 DEF FrameMade
        <5>. QED  BY <1>2, <1>3, <4>2, <5>1 DEF FrameFits, InFlight
      <4>. QED  BY <4>1, <4>2
    <3>3. FlushedFirst(u)'
      BY <1>1, <1>2, <1>3 DEF FlushedFirst
    <3>. QED  BY <2>1, <3>1, <3>2, <3>3
  <2>2. CASE v # u
    <3>1. PhaseFits(v) /\ FrameFits(v) /\ FlushedFirst(v)
      BY DEF SinkInv, UsersFit
    <3>. QED  BY <1>2, <2>2, <3>1 DEF PhaseFits, FrameFits, FlushedFirst, InOp, Reads, Holds,
        InFlight
  <2>. QED  BY <2>1, <2>2
<1>5. CallsFit'
  BY <1>2 DEF SinkInv, CallsFit
<1>6. RoomLeft'
  <2>1. RoomLeft
    BY DEF SinkInv
  <2>2. phase'["data"] = "over" <=> phase["data"] = "over"
    BY <1>2, UsersAreTwo
  <2>3. phase'["main"] = "over" <=> phase["main"] = "over"
    BY <1>2, UsersAreTwo
  <2>. QED  BY <1>2, <2>1, <2>2, <2>3 DEF RoomLeft, FlushNext
<1>7. Sink!Alive' <=> Sink!Alive
  BY <1>2 DEF Sink!Alive
<1>8. u = "data" => InFlight("main")' = InFlight("main")
  BY <1>2, UsersAreTwo DEF InFlight, InOp
<1>9. CASE Head(todo[u]) \in Sends
  <2>1. PICK x \in Sink!Unit : /\ frame'[u] = <<x>> /\ accepted' = Append(accepted, x)
                               /\ x[1] # "data" /\ (x = End => Head(todo[u]) = "sendEnd")
    BY <1>9 DEF FrameMade, Sends
  <2>2. u = "main"
    BY <1>2, <1>3, <1>9, UsersAreTwo DEF RestFits, Sends
  <2>3. data = <<>> /\ control = <<>>
    <3>1. \A y : Has(todo[u], y) <=> y = Head(todo[u])
      BY <1>1, <1>2, <1>9, LastStep DEF PhaseFits, Sends
    <3>. QED  BY <1>1, <1>9, <3>1 DEF FlushedFirst, BehindData, BehindControl, Sends
  <2>4. /\ Len(accepted) \in Nat /\ Len(accepted') = Len(accepted) + 1
        /\ \A i \in 1 .. Len(accepted) : accepted'[i] = accepted[i]
        /\ accepted'[Len(accepted) + 1] = x
    BY <1>1, <2>1 DEF BuffersTyped
  <2>5. InOrder'
    <3>1. InOrder
      BY DEF SinkInv
    <3>2. ~InFlight("main") /\ InFlight("main")'
      BY <1>2, <1>3, <1>9, <2>2 DEF InFlight
    <3>3. Sink!Alive => accepted = wire
      BY <1>1, <2>3, <3>1, <3>2, Behind DEF InOrder, Waiting, BuffersTyped
    <3>4. Sink!Alive => accepted' = wire \o <<x>>
      BY <1>1, <2>1, <3>3, OneBehind DEF BuffersTyped
    <3>5. Len(wire) \in Nat
      BY <1>1 DEF BuffersTyped
    <3>6. Len(wire) <= Len(accepted') /\ \A i \in 1 .. Len(wire) : wire[i] = accepted'[i]
      BY <2>4, <3>1, <3>5 DEF InOrder
    <3>. QED  BY <1>2, <1>7, <2>1, <2>2, <2>3, <3>2, <3>4, <3>6 DEF InOrder, Waiting
  <2>6. EndIsLast'
    <3>1. EndIsLast
      BY DEF SinkInv
    <3>2. \A i \in 1 .. Len(accepted) : accepted[i] # End
      BY <1>2, <1>3, <2>2, <3>1 DEF EndIsLast
    <3>3. Head(todo["main"]) = "sendEnd" => outcome["data"] = "ok" /\ Len(calls["main"]) <= 1
      BY <1>2, <1>3, <2>2, <3>1 DEF EndIsLast, RestFits
    <3>4. ASSUME NEW i \in 1 .. Len(accepted'), accepted'[i] = End
          PROVE  i = Len(accepted') /\ x = End
      BY <2>4, <3>2, <3>4
    <3>. QED  BY <1>2, <1>3, <2>1, <2>2, <3>1, <3>3, <3>4 DEF EndIsLast
  <2>7. AllCounted'
    <3>1. Sink!NumberOf("data", accepted') = Sink!NumberOf("data", accepted)
      <4>1. Sink!NumberOf("data", Append(accepted, x)) = Sink!NumberOf("data", accepted) + 0
        BY <1>1, <2>1, NumberCountsOne DEF BuffersTyped
      <4>2. Sink!NumberOf("data", accepted) \in Nat
        BY <1>1, NumberIsNatural DEF BuffersTyped
      <4>. QED  BY <2>1, <4>1, <4>2
    <3>2. Sink!NumberOf("data", accepted)' = Sink!NumberOf("data", accepted')
      BY DEF Sink!NumberOf
    <3>. QED  BY <1>2, <3>1, <3>2 DEF SinkInv, AllCounted, WritesLeft
  <2>. QED  BY <1>4, <1>5, <1>6, <2>5, <2>6, <2>7, FrameKeepsType DEF SinkInv
<1>10. CASE Head(todo[u]) \notin Sends
  <2>1. accepted' = accepted
    BY <1>10 DEF FrameMade
  <2>2. InFlight("main")' <=> InFlight("main")
    <3>1. CASE u = "main"
      BY <1>2, <1>3, <1>10, <3>1 DEF InFlight
    <3>. QED  BY <1>8, <3>1, UsersAreTwo
  <2>3. InOrder'
    <3>1. InOrder
      BY DEF SinkInv
    <3>2. InFlight("main") => frame'["main"] = frame["main"]
      BY <1>2, <1>3, UsersAreTwo DEF InFlight
    <3>. QED  BY <1>2, <1>7, <2>1, <2>2, <3>1, <3>2 DEF InOrder, Waiting
  <2>4. EndIsLast'
    <3>1. EndIsLast
      BY DEF SinkInv
    <3>2. CASE u = "main"
      BY <1>2, <1>3, <2>1, <3>1, <3>2 DEF EndIsLast
    <3>3. CASE u = "data"
      <4>1. phase'["main"] = phase["main"]
        BY <1>2, <3>3, UsersAreTwo
      <4>. QED  BY <1>2, <2>1, <3>1, <4>1 DEF EndIsLast, InOp
    <3>. QED  BY <3>2, <3>3, UsersAreTwo
  <2>5. AllCounted'
    BY <1>2, <2>1 DEF SinkInv, AllCounted, WritesLeft, Sink!NumberOf
  <2>. QED  BY <1>4, <1>5, <1>6, <2>3, <2>4, <2>5, FrameKeepsType DEF SinkInv
<1>. QED  BY <1>9, <1>10

(***************************************************************************)
(* A unit goes into a buffer.                                              *)
(***************************************************************************)

(* The next unit is one of its kind.                                       *)
LEMMA NextIsUnit ==
  ASSUME accepted \in Seq(Sink!Unit), NEW kind \in {"data", "control"}
  PROVE  Sink!NextUnit(kind) \in Sink!Unit /\ Sink!NextUnit(kind)[1] = kind
         /\ Sink!NextUnit(kind) # End
<1>1. Sink!NumberOf(kind, accepted) \in Nat
  BY NumberIsNatural
<1>2. Sink!NextUnit(kind) = <<kind, Sink!NumberOf(kind, accepted) + 1>>
  BY DEF Sink!NextUnit
<1>3. Sink!NumberOf(kind, accepted) + 1 \in Nat
  BY <1>1
<1>4. Sink!NextUnit(kind) \in Sink!Unit
  BY <1>2, <1>3 DEF Sink!Unit
<1>5. Sink!NextUnit(kind)[1] = kind /\ End[1] = "event"
  BY <1>2 DEF End
<1>. QED  BY <1>4, <1>5

(* A user that is not at the socket with a frame has none in flight.       *)
LEMMA NotInFlight ==
  ASSUME UsersFit, NEW u \in Sink!Users, ~Holds(u)
  PROVE  ~InFlight(u)
<1>1. PhaseFits(u)
  BY DEF UsersFit
<1>2. RestFits(u, todo[u])
  BY <1>1, TodoIsOrdered DEF PhaseFits
<1>. QED  BY <1>1, <1>2 DEF InFlight, Holds, PhaseFits, RestFits, Reads, Sends

(* The step that comes last leaves what it puts first.                     *)
LEMMA NothingBehind ==
  ASSUME NEW s \in Seq(Sink!Steps)
  PROVE  s \o <<>> = s
  OBVIOUS

(* The control buffer is empty when data is put, so the new unit is behind *)
(* everything that waits; there is room, as a full buffer is flushed       *)
(* first.                                                                  *)
LEMMA PutDataKeeps ==
  ASSUME SinkInv, NEW u \in Sink!Users, Sink!PutData(u)
  PROVE  SinkInv'
<1> DEFINE x == Sink!NextUnit("data")
<1>1. /\ UsersTyped /\ BuffersTyped /\ LocksTyped /\ RestTyped
      /\ PhaseFits(u) /\ FrameFits(u) /\ FlushedFirst(u) /\ DataCap \in Nat \ {0}
  BY TypeHasParts DEF SinkInv, Sink!SinkBounds, UsersFit
<1>2. /\ phase[u] = "work" /\ todo[u] # <<>> /\ Head(todo[u]) = "putData"
      /\ data' = Append(data, x) /\ accepted' = Append(accepted, x)
      /\ \/ todo' = [todo EXCEPT ![u] = <<"flushData">> \o Tail(@)]
         \/ Len(data') < DataCap /\ todo' = [todo EXCEPT ![u] = <<>> \o Tail(@)]
      /\ UNCHANGED <<scenario, calls, phase, frame, outcome, control, active, wire, answers,
                     sendLock, opLock, closed, broken, cancelling, asyncError, keep, Sink!stopVars>>
  BY DEF Sink!PutData, Sink!Working, Sink!Then
<1>3. x \in Sink!Unit /\ x[1] = "data" /\ x # End
  BY <1>1, NextIsUnit DEF BuffersTyped
<1> HIDE DEF x
<1>4. RestFits(u, todo[u]) /\ (\A y : Has(todo[u], y) <=> y = "putData") /\ Tail(todo[u]) = <<>>
  BY <1>1, <1>2, TodoIsOrdered, LastStep DEF PhaseFits
<1>5. u = "data"
  BY <1>2, <1>4, UsersAreTwo DEF RestFits
<1>6. /\ todo'[u] = <<"flushData">> \/ (todo'[u] = <<>> /\ Len(data') < DataCap)
      /\ todo'["main"] = todo["main"] /\ todo' \in [Sink!Users -> Seq(Sink!Steps)]
  <2>1. <<"flushData">> \in Seq(Sink!Steps) /\ <<>> \in Seq(Sink!Steps)
    BY DEF Sink!Steps
  <2>2. <<"flushData">> \o <<>> = <<"flushData">> /\ <<>> \o <<>> = <<>>
    BY <2>1, NothingBehind
  <2>3. PICK t \in Seq(Sink!Steps) :
          /\ todo' = [todo EXCEPT ![u] = t]
          /\ t = <<"flushData">> \/ (t = <<>> /\ Len(data') < DataCap)
    BY <1>2, <1>4, <2>1, <2>2
  <2>4. "main" # u
    BY <1>5
  <2>5. todo'[u] = t /\ todo'["main"] = todo["main"] /\ todo' \in [Sink!Users -> Seq(Sink!Steps)]
    BY <1>1, <2>3, <2>4, UsersAreTwo DEF UsersTyped
  <2>. QED  BY <2>3, <2>5
<1>7. \A y : Has(todo'[u], y) => y = "flushData"
  BY <1>6, NoStep, OneStep DEF Sink!Steps
<1>8. /\ ~Reads(u) /\ ~Reads(u)' /\ ~InOp(u) /\ ~InOp(u)' /\ Holds(u) /\ Holds(u)'
      /\ outcome[u] = "running" /\ frame[u] = <<>>
  BY <1>1, <1>2, <1>4, <1>7 DEF PhaseFits, FrameFits, InOp, Reads, Holds
<1>9. ~Holds("main") /\ ~InFlight("main") /\ ~InFlight("main")'
  <2>1. ~Holds("main") /\ ~InFlight("main")
    BY <1>5, <1>8, OneHolds, NotInFlight, UsersAreTwo DEF SinkInv
  <2>. QED  BY <1>2, <1>6, <2>1 DEF InFlight, InOp
<1>10. control = <<>>
  BY <1>1, <1>4 DEF FlushedFirst, BehindControl
<1>11. UsersFit'
  <2>1. PhaseFits(u)'
    BY <1>1, <1>2, <1>5, <1>6, <1>8, UsersAreTwo DEF PhaseFits, Todos, DataTodos
  <2>2. FrameFits(u)' /\ FlushedFirst(u)'
    BY <1>2, <1>7, <1>8 DEF FrameFits, FlushedFirst, BehindData, BehindControl, Sends, InFlight
  <2>3. (PhaseFits("main") /\ FrameFits("main") /\ FlushedFirst("main"))'
    BY <1>2, <1>6, <1>9, OtherUndisturbed, UsersAreTwo DEF SinkInv
  <2>. QED  BY <1>5, <2>1, <2>2, <2>3, UsersAreTwo DEF UsersFit
<1>12. InOrder'
  <2>1. InOrder
    BY DEF SinkInv
  <2>2. Sink!Alive => accepted = wire \o data
    BY <1>9, <1>10, <2>1 DEF InOrder, Waiting
  <2>3. Sink!Alive => accepted' = wire \o data'
    <3>1. Append(wire \o data, x) = wire \o Append(data, x)
      BY <1>1, <1>3, AppendBehind DEF BuffersTyped
    <3>. QED  BY <1>2, <2>2, <3>1
  <2>4. Sink!Alive' <=> Sink!Alive
    BY <1>2 DEF Sink!Alive
  <2>5. Waiting' = data'
    BY <1>2, <1>9, <1>10 DEF Waiting
  <2>6. Len(wire) <= Len(accepted') /\ \A i \in 1 .. Len(wire) : wire[i] = accepted'[i]
    <3>1. /\ Len(accepted) \in Nat /\ Len(accepted') = Len(accepted) + 1 /\ Len(wire) \in Nat
          /\ \A i \in 1 .. Len(accepted) : accepted'[i] = accepted[i]
      BY <1>1, <1>2, <1>3 DEF BuffersTyped
    <3>. QED  BY <2>1, <3>1 DEF InOrder
  <2>. QED  BY <1>2, <1>10, <2>3, <2>4, <2>5, <2>6 DEF InOrder
<1>13. CallsFit'
  BY <1>2 DEF SinkInv, CallsFit
<1>14. RoomLeft'
  <2>1. RoomLeft
    BY DEF SinkInv
  <2>2. Len(data') = DataCap => todo'[u] = <<"flushData">>
    BY <1>1, <1>6
  <2>3. Has(<<"flushData">>, "flushData")
    BY OneStep DEF Sink!Steps
  <2>. QED  BY <1>2, <1>5, <1>6, <1>10, <2>1, <2>2, <2>3 DEF RoomLeft, FlushNext
<1>15. EndIsLast'
  <2>1. EndIsLast
    BY DEF SinkInv
  <2>2. \A i \in 1 .. Len(accepted) : accepted[i] # End
    BY <1>5, <1>8, <2>1 DEF EndIsLast
  <2>3. \A i \in 1 .. Len(accepted') : accepted'[i] # End
    <3>1. /\ Len(accepted) \in Nat /\ Len(accepted') = Len(accepted) + 1
          /\ \A i \in 1 .. Len(accepted) : accepted'[i] = accepted[i]
          /\ accepted'[Len(accepted) + 1] = x
      BY <1>1, <1>2, <1>3 DEF BuffersTyped
    <3>. QED  BY <1>3, <2>2, <3>1
  <2>. QED  BY <1>2, <1>6, <2>1, <2>3 DEF EndIsLast
<1>16. AllCounted'
  <2>1. Sink!NumberOf("data", accepted)' = Sink!NumberOf("data", accepted) + 1
    <3>1. Sink!NumberOf("data", Append(accepted, x)) = Sink!NumberOf("data", accepted) + 1
      BY <1>1, <1>3, NumberCountsOne DEF BuffersTyped
    <3>2. Sink!NumberOf("data", accepted)' = Sink!NumberOf("data", accepted')
      BY DEF Sink!NumberOf
    <3>. QED  BY <1>2, <3>1, <3>2
  <2>2. Sink!NumberOf("data", accepted) \in Nat /\ Len(calls["data"]) \in Nat
    BY <1>1, NumberIsNatural, UsersAreTwo DEF BuffersTyped, UsersTyped
  <2>3. Has(todo["data"], "putData") /\ ~Has(todo'["data"], "putData")
    BY <1>4, <1>5, <1>7
  <2>. QED  BY <1>2, <2>1, <2>2, <2>3 DEF SinkInv, AllCounted, WritesLeft
<1>17. Sink!TypeOK'
  <2>1. UsersTyped' /\ LocksTyped'
    BY <1>1, <1>2, <1>6 DEF UsersTyped, LocksTyped
  <2>2. Len(data) # DataCap
    BY <1>2, <1>4, <1>5 DEF SinkInv, RoomLeft
  <2>3. data' \in Seq(Sink!Unit) /\ accepted' \in Seq(Sink!Unit) /\ Len(data') <= DataCap
    BY <1>1, <1>2, <1>3, <2>2 DEF BuffersTyped
  <2>4. BuffersTyped'
    BY <1>1, <1>2, <2>3 DEF BuffersTyped, Sink!Asked
  <2>5. RestTyped'
    BY <1>1, <1>2, Zenon DEF RestTyped, Sink!stopVars
  <2>. QED  BY <2>1, <2>4, <2>5, TypePartsNext
<1>. QED  BY <1>11, <1>12, <1>13, <1>14, <1>15, <1>16, <1>17 DEF SinkInv

(* The record is left for later, ...                                       *)
ControlPut(u) ==
  /\ control' = Append(control, Sink!NextUnit("control"))
  /\ accepted' = Append(accepted, Sink!NextUnit("control"))
  /\ \/ todo' = [todo EXCEPT ![u] = <<"flushControl">>]
     \/ todo' = [todo EXCEPT ![u] = <<>>]

(* ... or sent at once, behind what the buffer holds.                      *)
ControlLarge(u) ==
  /\ control' = control /\ accepted' = accepted
  /\ todo' = [todo EXCEPT ![u] = <<"flushControl", "sendLarge">>]

(* What a control message may leave to do.                                 *)
LEMMA ControlSteps ==
  /\ <<"flushControl">> \in Seq(Sink!Steps) /\ <<>> \in Seq(Sink!Steps)
  /\ <<"flushControl", "sendLarge">> \in Seq(Sink!Steps)
BY DEF Sink!Steps

(* Only the main thread puts messages, and does so last.                   *)
LEMMA PutControlIs ==
  ASSUME SinkInv, NEW u \in Sink!Users, Sink!PutControl(u)
  PROVE  /\ u = "main" /\ phase[u] = "work" /\ todo[u] # <<>>
         /\ \A y : Has(todo[u], y) <=> y = "putControl"
         /\ ControlPut(u) \/ ControlLarge(u)
         /\ UNCHANGED <<scenario, calls, phase, frame, outcome, data, active, wire, answers,
                        sendLock, opLock, closed, broken, cancelling, asyncError, keep,
                        Sink!stopVars>>
<1>1. PhaseFits(u)
  BY DEF SinkInv, UsersFit
<1>2. /\ phase[u] = "work" /\ todo[u] # <<>> /\ Head(todo[u]) = "putControl"
      /\ \/ /\ todo' = [todo EXCEPT ![u] = <<"flushControl", "sendLarge">> \o Tail(@)]
            /\ UNCHANGED <<control, accepted>>
         \/ /\ control' = Append(control, Sink!NextUnit("control"))
            /\ accepted' = Append(accepted, Sink!NextUnit("control"))
            /\ \/ todo' = [todo EXCEPT ![u] = <<"flushControl">> \o Tail(@)]
               \/ todo' = [todo EXCEPT ![u] = <<>> \o Tail(@)]
      /\ UNCHANGED <<scenario, calls, phase, frame, outcome, data, active, wire, answers,
                     sendLock, opLock, closed, broken, cancelling, asyncError, keep, Sink!stopVars>>
  BY DEF Sink!PutControl, Sink!Working, Sink!Then
<1>3. RestFits(u, todo[u]) /\ (\A y : Has(todo[u], y) <=> y = "putControl") /\ Tail(todo[u]) = <<>>
  BY <1>1, <1>2, TodoIsOrdered, LastStep DEF PhaseFits
<1>4. u = "main"
  BY <1>2, <1>3, UsersAreTwo DEF RestFits
<1>5. /\ <<"flushControl">> \o <<>> = <<"flushControl">> /\ <<>> \o <<>> = <<>>
      /\ <<"flushControl", "sendLarge">> \o <<>> = <<"flushControl", "sendLarge">>
  BY ControlSteps, NothingBehind
<1>6. ControlPut(u) \/ ControlLarge(u)
  BY <1>2, <1>3, <1>5 DEF ControlPut, ControlLarge
<1>. QED  BY <1>2, <1>3, <1>4, <1>6

(* Both buffers are empty when a message is put.                           *)
LEMMA PutControlKeeps ==
  ASSUME SinkInv, NEW u \in Sink!Users, Sink!PutControl(u)
  PROVE  SinkInv'
<1> DEFINE x == Sink!NextUnit("control")
<1>1. /\ UsersTyped /\ BuffersTyped /\ LocksTyped /\ RestTyped
      /\ PhaseFits(u) /\ FrameFits(u) /\ FlushedFirst(u) /\ ControlCap \in Nat \ {0}
  BY TypeHasParts DEF SinkInv, Sink!SinkBounds, UsersFit
<1>2. /\ u = "main" /\ phase[u] = "work" /\ todo[u] # <<>>
      /\ \A y : Has(todo[u], y) <=> y = "putControl"
      /\ ControlPut(u) \/ ControlLarge(u)
      /\ UNCHANGED <<scenario, calls, phase, frame, outcome, data, active, wire, answers,
                     sendLock, opLock, closed, broken, cancelling, asyncError, keep, Sink!stopVars>>
  BY PutControlIs
<1>3. x \in Sink!Unit /\ x[1] = "control" /\ x # End
  BY <1>1, NextIsUnit DEF BuffersTyped
<1>4. data = <<>> /\ control = <<>>
  <2>1. RoomLeft
    BY DEF SinkInv
  <2>. QED  BY <1>1, <1>2, <2>1 DEF FlushedFirst, BehindData, RoomLeft
<1>5. \/ control' = <<x>> /\ accepted' = Append(accepted, x)
      \/ control' = <<>> /\ accepted' = accepted
  <2>1. Append(<<>>, x) = <<x>>
    OBVIOUS
  <2>. QED  BY <1>2, <1>4, <2>1 DEF ControlPut, ControlLarge
<1>6. /\ todo'[u] \in {<<"flushControl">>, <<"flushControl", "sendLarge">>, <<>>}
      /\ todo'["data"] = todo["data"] /\ todo' \in [Sink!Users -> Seq(Sink!Steps)]
      /\ control' # <<>> => todo'[u] \in {<<"flushControl">>, <<>>}
  <2>1. PICK t \in Seq(Sink!Steps) :
          /\ todo' = [todo EXCEPT ![u] = t]
          /\ t \in {<<"flushControl">>, <<>>} \/ (t = <<"flushControl", "sendLarge">>
             /\ control' = <<>>)
    BY <1>2, <1>4, ControlSteps DEF ControlPut, ControlLarge
  <2>2. "data" # u
    BY <1>2
  <2>3. todo'[u] = t /\ todo'["data"] = todo["data"] /\ todo' \in [Sink!Users -> Seq(Sink!Steps)]
    BY <1>1, <2>1, <2>2, UsersAreTwo DEF UsersTyped
  <2>. QED  BY <2>1, <2>3
<1>7. /\ \A y : Has(todo'[u], y) => y = "flushControl" \/ y = "sendLarge"
      /\ Has(todo'[u], "sendLarge") => Has(todo'[u], "flushControl")
      /\ todo'[u] # <<>> => Has(todo'[u], "flushControl")
  BY <1>6, NoStep, OneStep, TwoSteps DEF Sink!Steps
<1> HIDE DEF x
<1>8. /\ ~Reads(u) /\ ~Reads(u)' /\ ~InOp(u) /\ ~InOp(u)' /\ Holds(u) /\ Holds(u)'
         /\ frame[u] = <<>>
      /\ ~InFlight(u) /\ ~InFlight(u)'
  BY <1>1, <1>2, <1>7 DEF PhaseFits, FrameFits, InOp, Reads, Holds, InFlight
<1>9. ~Holds("data")
  BY <1>2, <1>8, OneHolds, UsersAreTwo DEF SinkInv
<1>10. UsersFit'
  <2>1. PhaseFits(u)'
    BY <1>1, <1>2, <1>6, <1>8 DEF PhaseFits, Todos, MainTodos
  <2>2. FrameFits(u)'
    BY <1>2, <1>8 DEF FrameFits
  <2>3. FlushedFirst(u)'
    BY <1>2, <1>4, <1>7, <1>8 DEF FlushedFirst, BehindData, BehindControl, Sends
  <2>4. (PhaseFits("data") /\ FrameFits("data") /\ FlushedFirst("data"))'
    BY <1>2, <1>6, <1>9, OtherUndisturbed, UsersAreTwo DEF SinkInv
  <2>. QED  BY <1>2, <2>1, <2>2, <2>3, <2>4, UsersAreTwo DEF UsersFit
<1>11. /\ Len(accepted) \in Nat /\ Len(wire) \in Nat
       /\ \/ accepted' = accepted
          \/ /\ Len(accepted') = Len(accepted) + 1 /\ accepted'[Len(accepted) + 1] = x
             /\ \A i \in 1 .. Len(accepted) : accepted'[i] = accepted[i]
  <2>1. CASE accepted' = accepted
    BY <1>1, <2>1 DEF BuffersTyped
  <2>2. CASE accepted' = Append(accepted, x)
    BY <1>1, <1>3, <2>2 DEF BuffersTyped
  <2>. QED  BY <1>5, <2>1, <2>2
<1>12. InOrder'
  <2>1. InOrder
    BY DEF SinkInv
  <2>2. Sink!Alive => accepted = wire
    BY <1>1, <1>2, <1>4, <1>8, <2>1, Behind DEF InOrder, Waiting, BuffersTyped
  <2>3. Sink!Alive => accepted' = wire \o control'
    BY <1>1, <1>3, <1>5, <2>2, OneBehind, Behind DEF BuffersTyped
  <2>4. Sink!Alive' <=> Sink!Alive
    BY <1>2 DEF Sink!Alive
  <2>5. Waiting' = control'
    BY <1>2, <1>4, <1>8 DEF Waiting
  <2>6. Len(wire) <= Len(accepted') /\ \A i \in 1 .. Len(wire) : wire[i] = accepted'[i]
    BY <1>11, <2>1 DEF InOrder
  <2>. QED  BY <1>2, <1>4, <2>3, <2>4, <2>5, <2>6 DEF InOrder
<1>13. CallsFit'
  BY <1>2 DEF SinkInv, CallsFit
<1>14. RoomLeft'
  <2>1. RoomLeft /\ FlushNext
    BY <1>2 DEF SinkInv, RoomLeft
  <2>2. Has(todo'[u], "flushControl") \/ (todo'[u] = <<>> /\ FlushNext')
    BY <1>2, <1>7, <2>1 DEF FlushNext
  <2>3. ~Has(todo'[u], "putControl")
    BY <1>7
  <2>. QED  BY <1>2, <1>6, <2>1, <2>2, <2>3 DEF RoomLeft
<1>15. EndIsLast'
  <2>1. EndIsLast
    BY DEF SinkInv
  <2>2. \A i \in 1 .. Len(accepted) : accepted[i] # End
    BY <1>2, <1>8, <2>1 DEF EndIsLast
  <2>3. \A i \in 1 .. Len(accepted') : accepted'[i] # End
    BY <1>3, <1>11, <2>2
  <2>4. ~Has(todo'["main"], "sendEnd")
    BY <1>2, <1>7
  <2>. QED  BY <1>2, <2>1, <2>3, <2>4 DEF EndIsLast
<1>16. AllCounted'
  <2>1. Sink!NumberOf("data", accepted)' = Sink!NumberOf("data", accepted)
    <3>1. Sink!NumberOf("data", Append(accepted, x)) = Sink!NumberOf("data", accepted) + 0
      BY <1>1, <1>3, NumberCountsOne DEF BuffersTyped
    <3>2. Sink!NumberOf("data", accepted) \in Nat
      BY <1>1, NumberIsNatural DEF BuffersTyped
    <3>3. Sink!NumberOf("data", accepted)' = Sink!NumberOf("data", accepted')
      BY DEF Sink!NumberOf
    <3>4. CASE accepted' = accepted
      BY <3>3, <3>4
    <3>5. CASE accepted' = Append(accepted, x)
      BY <3>1, <3>2, <3>3, <3>5
    <3>. QED  BY <1>5, <3>4, <3>5
  <2>. QED  BY <1>2, <1>6, <2>1 DEF SinkInv, AllCounted, WritesLeft
<1>17. Sink!TypeOK'
  <2>1. UsersTyped' /\ LocksTyped'
    BY <1>1, <1>2, <1>6 DEF UsersTyped, LocksTyped
  <2>2. control' \in Seq(Sink!Unit) /\ accepted' \in Seq(Sink!Unit) /\ Len(control') <= ControlCap
    <3>1. accepted' \in Seq(Sink!Unit)
      <4>1. accepted \in Seq(Sink!Unit) /\ Append(accepted, x) \in Seq(Sink!Unit)
        BY <1>1, <1>3 DEF BuffersTyped
      <4>. QED  BY <1>5, <4>1
    <3>2. control' \in Seq(Sink!Unit) /\ Len(control') <= ControlCap
      <4>1. <<x>> \in Seq(Sink!Unit) /\ Len(<<x>>) = 1 /\ <<>> \in Seq(Sink!Unit) /\ Len(<<>>) = 0
        BY <1>3
      <4>2. 1 <= ControlCap /\ 0 <= ControlCap
        BY <1>1
      <4>3. CASE control' = <<x>>
        BY <4>1, <4>2, <4>3
      <4>4. CASE control' = <<>>
        BY <4>1, <4>2, <4>4
      <4>. QED  BY <1>5, <4>3, <4>4
    <3>. QED  BY <3>1, <3>2
  <2>3. BuffersTyped'
    BY <1>1, <1>2, <2>2 DEF BuffersTyped, Sink!Asked
  <2>4. RestTyped'
    BY <1>1, <1>2, Zenon DEF RestTyped, Sink!stopVars
  <2>. QED  BY <2>1, <2>3, <2>4, TypePartsNext
<1>. QED  BY <1>10, <1>12, <1>13, <1>14, <1>15, <1>16, <1>17 DEF SinkInv

(***************************************************************************)
(* A frame reaches the peer: what was waiting is on the wire, and nothing  *)
(* waits any more.                                                         *)
(***************************************************************************)
LEMMA WriteFrameIs ==
  ASSUME SinkInv, NEW u \in Sink!Users, Sink!WriteFrame(u)
  PROVE  /\ phase[u] = "socket" /\ Sink!Alive /\ frame[u] # <<>> /\ todo[u] # <<>>
         /\ frame[u] = Waiting
         /\ data' = <<>> /\ control' = <<>> /\ wire' = wire \o frame[u] /\ wire' = accepted
         /\ Head(todo[u]) # "putData"
         /\ ~Reads(u) /\ Holds(u) /\ outcome[u] = "running"
<1>1. UsersTyped /\ BuffersTyped /\ PhaseFits(u) /\ FrameFits(u) /\ FlushedFirst(u) /\ InOrder
  BY TypeHasParts DEF SinkInv, UsersFit
<1>2. /\ phase[u] = "socket" /\ Sink!Alive /\ frame[u] # <<>> /\ wire' = wire \o frame[u]
      /\ data' = IF Head(todo[u]) = "flushData" THEN <<>> ELSE data
      /\ control' = IF Head(todo[u]) = "flushControl" THEN <<>> ELSE control
  BY DEF Sink!WriteFrame, Sink!Emptied
<1>3. InOp(u) /\ ~Reads(u) /\ Holds(u) /\ todo[u] # <<>> /\ outcome[u] = "running"
  BY <1>1, <1>2 DEF InOp, FrameFits, PhaseFits, Holds
<1>4. RestFits(u, todo[u])
  BY <1>1, TodoIsOrdered DEF PhaseFits
<1>5. Head(todo[u]) \in {"flushData", "flushControl"} \cup Sends
  BY <1>1, <1>3, <1>4 DEF PhaseFits, RestFits, Reads, Sink!Steps, Sends
<1>6. Head(todo[u]) \notin Sends => ~InFlight("main")
  <2>1. CASE u = "main"
    BY <2>1 DEF InFlight
  <2>2. CASE u # "main"
    BY <1>3, <2>2, OneHolds, NotInFlight, UsersAreTwo DEF SinkInv
  <2>. QED  BY <2>1, <2>2
<1>7. frame[u] = Waiting /\ data' = <<>> /\ control' = <<>>
  <2>1. CASE Head(todo[u]) = "flushData"
    <3>1. frame[u] = data
      BY <1>1, <1>3, <2>1 DEF FrameFits
    <3>2. control = <<>>
      BY <1>1, <1>2, <3>1 DEF InOrder
    <3>. QED  BY <1>2, <1>6, <2>1, <3>1, <3>2 DEF Waiting, Sends
  <2>2. CASE Head(todo[u]) = "flushControl"
    <3>1. frame[u] = control
      BY <1>1, <1>3, <2>2 DEF FrameFits
    <3>2. data = <<>>
      BY <1>1, <1>2, <3>1 DEF InOrder
    <3>. QED  BY <1>2, <1>6, <2>2, <3>1, <3>2 DEF Waiting, Sends
  <2>3. CASE Head(todo[u]) \in Sends
    <3>1. u = "main"
      BY <1>3, <1>4, <2>3, UsersAreTwo DEF RestFits, Sends
    <3>2. \A y : Has(todo[u], y) <=> y = Head(todo[u])
      BY <1>1, <1>3, <2>3, LastStep DEF PhaseFits, Sends
    <3>3. data = <<>> /\ control = <<>>
      BY <1>1, <2>3, <3>2 DEF FlushedFirst, BehindData, BehindControl, Sends
    <3>4. InFlight("main")
      BY <1>3, <2>3, <3>1 DEF InFlight
    <3>. QED  BY <1>2, <2>3, <3>1, <3>3, <3>4 DEF Waiting, Sends
  <2>. QED  BY <1>5, <2>1, <2>2, <2>3
<1>8. wire' = accepted
  BY <1>1, <1>2, <1>7 DEF InOrder
<1>9. Head(todo[u]) # "putData"
  BY <1>5 DEF Sends
<1>. QED  BY <1>2, <1>3, <1>7, <1>8, <1>9

(* The user that sent is the only one with a frame in flight.              *)
LEMMA WriteFrameKeeps ==
  ASSUME SinkInv, NEW u \in Sink!Users, Sink!WriteFrame(u)
  PROVE  SinkInv'
<1>1. /\ UsersTyped /\ BuffersTyped /\ LocksTyped /\ RestTyped
      /\ PhaseFits(u) /\ FrameFits(u) /\ FlushedFirst(u)
      /\ DataCap \in Nat \ {0} /\ ControlCap \in Nat \ {0}
  BY TypeHasParts DEF SinkInv, Sink!SinkBounds, UsersFit
<1>2. /\ phase' = [phase EXCEPT ![u] = "work"] /\ frame' = [frame EXCEPT ![u] = <<>>]
      /\ todo' = [todo EXCEPT ![u] = <<>> \o Tail(@)] /\ opLock' = Sink!Free
      /\ UNCHANGED <<scenario, calls, outcome, answers, accepted, sendLock, closed, broken,
                     cancelling, asyncError, keep, Sink!stopVars>>
  BY DEF Sink!WriteFrame, Sink!Then
<1>3. /\ phase[u] = "socket" /\ Sink!Alive /\ frame[u] # <<>> /\ todo[u] # <<>>
      /\ data' = <<>> /\ control' = <<>> /\ wire' = wire \o frame[u] /\ wire' = accepted
      /\ Head(todo[u]) # "putData"
      /\ ~Reads(u) /\ Holds(u) /\ outcome[u] = "running"
  BY WriteFrameIs
<1>4. RestFits(u, todo[u])
  BY <1>1, TodoIsOrdered DEF PhaseFits
<1>5. /\ <<>> \o Tail(todo[u]) \in Todos(u) /\ <<>> \o Tail(todo[u]) \in Seq(Sink!Steps)
  <2>1. <<>> \o Tail(todo[u]) \in Todos(u)
    BY <1>3, <1>4 DEF RestFits
  <2>. QED  BY <2>1, TodoIsOrdered DEF RestFits
<1>6. /\ phase'[u] = "work" /\ frame'[u] = <<>> /\ todo'[u] = <<>> \o Tail(todo[u])
      /\ \A v \in Sink!Users : v # u => phase'[v] = phase[v] /\ frame'[v] = frame[v]
         /\ todo'[v] = todo[v]
      /\ phase' \in [Sink!Users -> Phases] /\ todo' \in [Sink!Users -> Seq(Sink!Steps)]
      /\ frame' \in [Sink!Users -> Seq(Sink!Unit)]
  <2>1. <<>> \in Seq(Sink!Unit) /\ "work" \in Phases
    BY DEF Phases
  <2>. QED  BY <1>1, <1>2, <1>5, <2>1 DEF UsersTyped
<1>7. /\ \A y : Has(todo'[u], y) <=> Has(todo[u], y) /\ y # Head(todo[u])
      /\ Head(todo[u]) = "sendEnd" => todo'[u] = <<>>
  <2>1. \A y : Has(<<>> \o Tail(todo[u]), y) <=> Has(todo[u], y) /\ y # Head(todo[u])
    BY <1>3, <1>4 DEF RestFits
  <2>2. Head(todo[u]) = "sendEnd" => Tail(todo[u]) = <<>>
    BY <1>3, <1>4 DEF RestFits
  <2>3. <<>> \o <<>> = <<>>
    BY ControlSteps, NothingBehind
  <2>. QED  BY <1>6, <2>1, <2>2, <2>3
<1>8. ~Reads(u)' /\ InOp(u) /\ ~InOp(u)' /\ Holds(u)'
  BY <1>3, <1>6, <1>7 DEF Reads, InOp, Holds
<1>9. \A v \in Sink!Users : v # u => ~Holds(v) /\ ~InFlight(v)
  BY <1>3, OneHolds, NotInFlight DEF SinkInv
<1>10. UsersFit'
  <2> SUFFICES ASSUME NEW v \in Sink!Users  PROVE (PhaseFits(v) /\ FrameFits(v) /\ FlushedFirst(v))'
    BY DEF UsersFit
  <2>1. CASE v = u
    <3>1. PhaseFits(u)'
      BY <1>1, <1>2, <1>3, <1>5, <1>6, <1>8 DEF PhaseFits
    <3>2. FrameFits(u)' /\ FlushedFirst(u)'
      BY <1>1, <1>3, <1>6, <1>7, <1>8 DEF FrameFits, FlushedFirst, InFlight
    <3>. QED  BY <2>1, <3>1, <3>2
  <2>2. CASE v # u
    BY <1>2, <1>6, <1>9, <2>2, OtherUndisturbed DEF SinkInv
  <2>. QED  BY <2>1, <2>2
<1>11. InOrder'
  <2>1. ~InFlight("main")'
    <3>1. CASE u = "main"
      BY <1>8, <3>1 DEF InFlight
    <3>2. CASE u # "main"
      BY <1>6, <1>9, <3>2, UsersAreTwo DEF InFlight, InOp
    <3>. QED  BY <3>1, <3>2
  <2>2. Waiting' = <<>>
    BY <1>3, <2>1 DEF Waiting
  <2>3. wire' \o <<>> = wire' /\ Len(wire') \in Nat
    BY <1>1, <1>3, Behind DEF BuffersTyped
  <2>. QED  BY <1>2, <1>3, <2>2, <2>3 DEF InOrder
<1>12. CallsFit'
  BY <1>2 DEF SinkInv, CallsFit
<1>13. RoomLeft'
  <2>1. RoomLeft
    BY DEF SinkInv
  <2>2. Len(data') # DataCap
    BY <1>1, <1>3
  <2>3. Has(todo'["main"], "putControl") => Has(todo["main"], "putControl")
    BY <1>6, <1>7, UsersAreTwo
  <2>. QED  BY <1>2, <1>3, <2>1, <2>2, <2>3 DEF RoomLeft, FlushNext
<1>14. EndIsLast'
  <2>1. EndIsLast
    BY DEF SinkInv
  <2>2. CASE u = "main"
    <3>1. \A i \in 1 .. Len(accepted) : accepted[i] = End => todo'["main"] = <<>>
      BY <1>3, <1>7, <2>1, <2>2 DEF EndIsLast
    <3>. QED  BY <1>2, <1>7, <2>1, <2>2, <3>1 DEF EndIsLast
  <2>3. CASE u = "data"
    <3>1. \A i \in 1 .. Len(accepted) : accepted[i] # End
      BY <1>3, <2>1, <2>3 DEF EndIsLast
    <3>2. todo'["main"] = todo["main"]
      BY <1>6, <2>3, UsersAreTwo
    <3>. QED  BY <1>2, <2>1, <3>1, <3>2 DEF EndIsLast
  <2>. QED  BY <2>2, <2>3, UsersAreTwo
<1>15. AllCounted'
  <2>1. Has(todo'["data"], "putData") <=> Has(todo["data"], "putData")
    BY <1>3, <1>6, <1>7, UsersAreTwo
  <2>. QED  BY <1>2, <2>1 DEF SinkInv, AllCounted, WritesLeft, Sink!NumberOf
<1>16. Sink!TypeOK'
  <2>1. UsersTyped'
    BY <1>1, <1>2, <1>6 DEF UsersTyped
  <2>2. LocksTyped'
    BY <1>1, <1>2 DEF LocksTyped
  <2>3. RestTyped'
    BY <1>1, <1>2, Zenon DEF RestTyped, Sink!stopVars
  <2>4. active' \in BOOLEAN
    <3>1. active' = CASE Head(todo[u]) = "sendBegin" -> TRUE
                      [] Head(todo[u]) = "sendEnd"   -> FALSE
                      [] OTHER                       -> active
      BY DEF Sink!WriteFrame
    <3>2. active \in BOOLEAN
      BY <1>1 DEF BuffersTyped
    <3>3. CASE Head(todo[u]) = "sendBegin"
      BY <3>1, <3>3
    <3>4. CASE Head(todo[u]) = "sendEnd"
      BY <3>1, <3>4
    <3>5. CASE Head(todo[u]) \notin {"sendBegin", "sendEnd"}
      <4>1. active' = active
        BY <3>1, <3>5
      <4>. QED  BY <3>2, <4>1, Zenon
    <3>. QED  BY <3>3, <3>4, <3>5
  <2>5. answers' \in 0 .. Sink!Asked'
    <3>1. wire \in Seq(Sink!Unit) /\ frame[u] \in Seq(Sink!Unit)
      BY <1>1 DEF BuffersTyped, UsersTyped
    <3>2. Sink!Asked \in Nat /\ Sink!NumberOf("control", wire \o frame[u]) \in Nat
          /\ Sink!Asked <= Sink!NumberOf("control", wire \o frame[u])
      BY <3>1, NumberIsNatural, NumberGrows, Behind DEF Sink!Asked
    <3>3. Sink!Asked' = Sink!NumberOf("control", wire')
      BY DEF Sink!Asked, Sink!NumberOf
    <3>4. answers' = answers /\ answers \in 0 .. Sink!Asked
      BY <1>1, <1>2 DEF BuffersTyped
    <3>. QED  BY <1>3, <3>2, <3>3, <3>4
  <2>6. BuffersTyped'
    <3>1. <<>> \in Seq(Sink!Unit) /\ Len(<<>>) = 0 /\ 0 <= DataCap /\ 0 <= ControlCap
      BY <1>1
    <3>2. data' \in Seq(Sink!Unit) /\ Len(data') <= DataCap /\ control' \in Seq(Sink!Unit)
          /\ Len(control') <= ControlCap
      BY <1>3, <3>1
    <3>3. wire' \in Seq(Sink!Unit) /\ accepted' \in Seq(Sink!Unit)
      BY <1>1, <1>2, <1>3 DEF BuffersTyped
    <3>. QED  BY <2>4, <2>5, <3>2, <3>3 DEF BuffersTyped
  <2>. QED  BY <2>1, <2>2, <2>3, <2>6, TypePartsNext
<1>. QED  BY <1>10, <1>11, <1>12, <1>13, <1>14, <1>15, <1>16 DEF SinkInv

(***************************************************************************)
(* Steps beside the transfer: the keepalive thread, and whoever stops it.  *)
(***************************************************************************)
Aside == UNCHANGED <<scenario, Sink!callVars, Sink!bufferVars, sendLock>>

(* They leave alone what the invariant relates.                            *)
LEMMA AsideKeeps ==
  ASSUME SinkInv, Aside, Sink!Alive' => Sink!Alive, RestTyped',
  opLock' \in Sink!Users \cup {Sink!Free, "keepalive"}
  PROVE  SinkInv'
<1>1. UsersTyped /\ BuffersTyped /\ LocksTyped
  BY TypeHasParts DEF SinkInv
<1>2. UNCHANGED <<scenario, calls, phase, todo, frame, outcome, data, control, active, wire, answers,
                  accepted, sendLock>>
  BY DEF Aside, Sink!callVars, Sink!bufferVars
<1>3. UsersFit'
  <2> SUFFICES ASSUME NEW v \in Sink!Users  PROVE (PhaseFits(v) /\ FrameFits(v) /\ FlushedFirst(v))'
    BY DEF UsersFit
  <2>1. PhaseFits(v) /\ FrameFits(v) /\ FlushedFirst(v)
    BY DEF SinkInv, UsersFit
  <2>. QED  BY <1>2, <2>1 DEF PhaseFits, FrameFits, FlushedFirst, InOp, Reads, Holds, InFlight
<1>4. InOrder'
  <2>1. InOrder
    BY DEF SinkInv
  <2>. QED  BY <1>2, <2>1 DEF InOrder, Waiting, InFlight, InOp
<1>5. CallsFit' /\ RoomLeft'
  <2>1. CallsFit /\ RoomLeft
    BY DEF SinkInv
  <2>. QED  BY <1>2, <2>1 DEF CallsFit, RoomLeft, FlushNext
<1>6. EndIsLast' /\ AllCounted'
  <2>1. EndIsLast /\ AllCounted
    BY DEF SinkInv
  <2>. QED  BY <1>2, <2>1 DEF EndIsLast, AllCounted, WritesLeft, Sink!NumberOf, InOp
<1>7. UsersTyped' /\ BuffersTyped' /\ LocksTyped'
  <2>1. UsersTyped'
    BY <1>1, <1>2 DEF UsersTyped
  <2>2. BuffersTyped'
    BY <1>1, <1>2 DEF BuffersTyped, Sink!Asked
  <2>3. LocksTyped'
    BY <1>1, <1>2 DEF LocksTyped
  <2>. QED  BY <2>1, <2>2, <2>3
<1>8. Sink!TypeOK'
  BY <1>7, TypePartsNext
<1>. QED  BY <1>3, <1>4, <1>5, <1>6, <1>8 DEF SinkInv

(* A connection that is gone does not come back.                           *)
LEMMA KeepStepKeeps ==
  ASSUME SinkInv, Sink!KeepStep
  PROVE  SinkInv'
<1>1. RestTyped /\ LocksTyped
  BY TypeHasParts DEF SinkInv
<1>2. Aside
  BY DEF Sink!KeepStep, Sink!KeepLeaves, Sink!KeepIdle, Sink!KeepTakesOp, Sink!Ping,
      Sink!PingFails, Sink!KeepStoresError, Sink!KeepCloses, Aside
<1>3. closed' \in {closed, TRUE} /\ broken' = broken /\ cancelling' = cancelling
      /\ asyncError' \in {asyncError, TRUE} /\ stopKeep' = stopKeep /\ reaped' = reaped
      /\ stopper' = stopper /\ opLock' \in {opLock, Sink!Free, "keepalive"}
  BY DEF Sink!KeepStep, Sink!KeepLeaves, Sink!KeepIdle, Sink!KeepTakesOp, Sink!Ping,
      Sink!PingFails, Sink!KeepStoresError, Sink!KeepCloses,
         Sink!stopVars
<1>4. keep' \in {"wait", "op", "ping", "skip", "failed", "exited"}
  BY <1>1 DEF RestTyped, Sink!KeepStep, Sink!KeepLeaves, Sink!KeepIdle, Sink!KeepTakesOp,
      Sink!Ping, Sink!PingFails,
              Sink!KeepStoresError, Sink!KeepCloses
<1>5. RestTyped'
  BY <1>1, <1>3, <1>4, Zenon DEF RestTyped
<1>6. opLock' \in Sink!Users \cup {Sink!Free, "keepalive"}
  BY <1>1, <1>3 DEF LocksTyped
<1>7. Sink!Alive' => Sink!Alive
  BY <1>3 DEF Sink!Alive
<1>. QED  BY <1>2, <1>5, <1>6, <1>7, AsideKeeps

(* The socket is closed, by whoever stops the keepalive thread.            *)
LEMMA StopStepKeeps ==
  ASSUME SinkInv, NEW s \in Sink!Stoppers, Sink!StopStep(s) \/ Sink!Cancel
  PROVE  SinkInv'
<1>1. RestTyped /\ LocksTyped
  BY TypeHasParts DEF SinkInv
<1>2. Aside
  BY DEF Sink!StopStep, Sink!MainStops, Sink!RequestStop, Sink!JoinKeepalive,
      Sink!CloseLowestLayer, Sink!Cancel, Aside
<1>3. closed' \in {closed, TRUE} /\ broken' = broken /\ cancelling' \in {cancelling, TRUE}
      /\ asyncError' = asyncError /\ stopKeep' \in {stopKeep, TRUE} /\ reaped' \in {reaped, TRUE}
      /\ keep' = keep /\ opLock' = opLock
  BY DEF Sink!StopStep, Sink!MainStops, Sink!RequestStop, Sink!JoinKeepalive,
      Sink!CloseLowestLayer, Sink!Cancel
<1>4. \E r \in Sink!Stoppers : \E at \in {"request", "join", "close", "stopped"} :
        stopper' = [stopper EXCEPT ![r] = at]
  BY DEF Sink!StopStep, Sink!MainStops, Sink!RequestStop, Sink!JoinKeepalive,
      Sink!CloseLowestLayer, Sink!Cancel, Sink!Stoppers
<1>5. stopper' \in [Sink!Stoppers -> {"none", "request", "join", "close", "stopped"}]
  BY <1>1, <1>4 DEF RestTyped
<1>6. RestTyped'
  BY <1>1, <1>3, <1>5, Zenon DEF RestTyped
<1>7. opLock' \in Sink!Users \cup {Sink!Free, "keepalive"}
  BY <1>1, <1>3 DEF LocksTyped
<1>8. Sink!Alive' => Sink!Alive
  BY <1>3 DEF Sink!Alive
<1>. QED  BY <1>2, <1>6, <1>7, <1>8, AsideKeeps

(* The connection fails.                                                   *)
LEMMA LoseConnectionKeeps ==
  ASSUME SinkInv, Sink!LoseConnection
  PROVE  SinkInv'
<1>1. RestTyped /\ LocksTyped
  BY TypeHasParts DEF SinkInv
<1>2. /\ Aside /\ broken' = TRUE
      /\ UNCHANGED <<opLock, closed, cancelling, asyncError, keep, stopKeep, stopper, reaped>>
  BY DEF Sink!LoseConnection, Aside, Sink!stopVars
<1>3. RestTyped'
  BY <1>1, <1>2, Zenon DEF RestTyped
<1>4. opLock' \in Sink!Users \cup {Sink!Free, "keepalive"}
  BY <1>1, <1>2 DEF LocksTyped
<1>5. Sink!Alive' => Sink!Alive
  BY <1>2 DEF Sink!Alive
<1>. QED  BY <1>2, <1>3, <1>4, <1>5, AsideKeeps

(* Nothing changes.                                                        *)
LEMMA IdleKeeps ==
  ASSUME SinkInv, UNCHANGED Sink!vars
  PROVE  SinkInv'
<1>1. RestTyped /\ LocksTyped
  BY TypeHasParts DEF SinkInv
<1>2. /\ Aside
      /\ UNCHANGED <<opLock, closed, broken, cancelling, asyncError, keep, stopKeep, stopper,
                     reaped>>
  BY DEF Sink!vars, Aside, Sink!stopVars
<1>3. RestTyped'
  BY <1>1, <1>2, Zenon DEF RestTyped
<1>4. opLock' \in Sink!Users \cup {Sink!Free, "keepalive"}
  BY <1>1, <1>2 DEF LocksTyped
<1>5. Sink!Alive' => Sink!Alive
  BY <1>2 DEF Sink!Alive
<1>. QED  BY <1>2, <1>3, <1>4, <1>5, AsideKeeps

(***************************************************************************)
(* Every step of a user.                                                   *)
(***************************************************************************)
LEMMA StartCallKeeps ==
  ASSUME SinkInv, NEW u \in Sink!Users, Sink!StartCall(u)
  PROVE  SinkInv'
<1>1. phase[u] = "idle" /\ calls[u] # <<>> /\ Sink!MayCall(u)
  BY DEF Sink!StartCall
<1>2. PhaseFits(u) /\ UsersTyped
  BY TypeHasParts DEF SinkInv, UsersFit
<1>3. phase[u] # "over" /\ ~InFlight(u)
  BY <1>1 DEF InFlight, InOp
<1>4. Sink!Refusal \in {"cancelled", "failed"}
  BY DEF Sink!Refusal
<1>5. CASE Sink!WriterFailed /\ Sink!Throw(u, outcome["data"]) /\ calls' = calls
  <2>1. Unchanged
    BY <1>5 DEF Sink!StartCall, Unchanged
  <2>2. outcome["data"] \in {"cancelled", "failed"}
    BY <1>5 DEF Sink!WriterFailed
  <2>. QED  BY <1>3, <1>5, <2>1, <2>2, ThrowKeeps
<1>6. CASE Sink!Throw(u, Sink!Refusal) /\ calls' = calls
  <2>1. Unchanged
    BY <1>6 DEF Sink!StartCall, Unchanged
  <2>. QED  BY <1>3, <1>4, <1>6, <2>1, ThrowKeeps
<1>7. CASE ~(Sink!WriterFailed /\ Sink!Throw(u, outcome["data"]) /\ calls' = calls)
           /\ ~(Sink!Throw(u, Sink!Refusal) /\ calls' = calls)
  <2>1. Proceeds(u)
    BY <1>7 DEF Sink!StartCall, Proceeds
  <2>. QED  BY <2>1, ProceedingKeeps
<1>. QED  BY <1>5, <1>6, <1>7

(* A frame is refused or made.                                             *)
LEMMA StartFrameKeeps ==
  ASSUME SinkInv, NEW u \in Sink!Users, Sink!StartFrame(u)
  PROVE  SinkInv'
<1>1. CASE Sink!Refusing /\ Sink!Throw(u, Sink!Refusal) /\ accepted' = accepted
  <2>1. phase[u] = "work"
    BY DEF Sink!StartFrame, Sink!Working
  <2>2. Unchanged
    BY <1>1 DEF Sink!StartFrame, Unchanged, Sink!bufferVars
  <2>3. Sink!Refusal \in {"cancelled", "failed"}
    BY DEF Sink!Refusal
  <2>. QED  BY <1>1, <2>1, <2>2, <2>3, ThrowKeeps DEF InFlight, InOp
<1>2. CASE ~(Sink!Refusing /\ Sink!Throw(u, Sink!Refusal) /\ accepted' = accepted)
  BY <1>2, MakesFrame, MakingFrameKeeps
<1>. QED  BY <1>1, <1>2

(* An operation fails on a socket that is closed or broken.                *)
LEMMA OperationFailsKeeps ==
  ASSUME SinkInv, NEW u \in Sink!Users, Sink!OperationFails(u)
  PROVE  SinkInv'
<1>1. phase[u] = "socket" /\ ~Sink!Alive /\ Unchanged
  BY DEF Sink!OperationFails, Unchanged
<1>2. Sink!Throw(u, "cancelled") \/ Sink!Throw(u, "failed")
  BY DEF Sink!OperationFails
<1>. QED  BY <1>1, <1>2, ThrowKeeps

(* A main thread that is gone before the beginning has failed.             *)
LEMMA NothingToWriteKeeps ==
  ASSUME SinkInv, Sink!NothingToWrite
  PROVE  SinkInv'
<1>1. /\ UsersTyped /\ PhaseFits("data") /\ PhaseFits("main") /\ EndIsLast
  BY TypeHasParts, UsersAreTwo DEF SinkInv, UsersFit
<1>2. phase["data"] = "idle" /\ phase["main"] = "over" /\ Sink!Throw("data", outcome["main"])
  BY DEF Sink!NothingToWrite
<1>3. Unchanged
  BY DEF Sink!NothingToWrite, Unchanged
<1>4. outcome["main"] \in {"cancelled", "failed"}
  <2>1. outcome["data"] = "running" /\ outcome["main"] # "running"
    BY <1>1, <1>2 DEF PhaseFits
  <2>2. outcome["main"] # "ok"
    BY <1>1, <2>1 DEF EndIsLast
  <2>. QED  BY <1>1, <2>1, <2>2, UsersAreTwo DEF UsersTyped, Outcomes
<1>. QED  BY <1>2, <1>3, <1>4, ThrowKeeps, UsersAreTwo DEF InFlight, InOp

(***************************************************************************)
(* The theorems.                                                           *)
(***************************************************************************)
LEMMA SinkStep == SinkInv /\ [Sink!Next]_(Sink!vars) => SinkInv'
<1> SUFFICES ASSUME SinkInv, [Sink!Next]_(Sink!vars)  PROVE SinkInv'
  OBVIOUS
<1>1. ASSUME NEW u \in Sink!Users, Sink!UserStep(u)  PROVE SinkInv'
  BY <1>1, StartCallKeeps, TakeSendLockKeeps, FlushEmptyKeeps, StartFrameKeeps, PutDataKeeps,
     PutControlKeeps, EndCallKeeps, EndUserKeeps, OperationFailsKeeps, NothingToWriteKeeps
     DEF Sink!UserStep
<1>2. ASSUME NEW u \in Sink!Users, Sink!PeerStep(u)  PROVE SinkInv'
  BY <1>2, WriteFrameKeeps, ReadAnswerKeeps DEF Sink!PeerStep
<1>3. ASSUME NEW u \in Sink!Users, Sink!TakeOp(u)  PROVE SinkInv'
  BY <1>3, TakeOpKeeps
<1>4. ASSUME NEW s \in Sink!Stoppers, Sink!StopStep(s)  PROVE SinkInv'
  BY <1>4, StopStepKeeps
<1>5. CASE Sink!Cancel
  BY <1>5, StopStepKeeps DEF Sink!Stoppers
<1>6. CASE UNCHANGED Sink!vars
  BY <1>6, IdleKeeps
<1>. QED
  BY <1>1, <1>2, <1>3, <1>4, <1>5, <1>6, KeepStepKeeps, LoseConnectionKeeps DEF Sink!Next,
      Sink!Finished

(***************************************************************************)
(* The beginning.                                                          *)
(***************************************************************************)

(* One sequence behind another.                                            *)
LEMMA Joined ==
  ASSUME NEW S, NEW s \in Seq(S), NEW t \in Seq(S)
  PROVE  /\ s \o t \in Seq(S) /\ Len(s \o t) = Len(s) + Len(t) /\ Len(s) \in Nat
         /\ \A i \in 1 .. Len(s) : (s \o t)[i] = s[i]
         /\ \A i \in 1 .. Len(t) : (s \o t)[Len(s) + i] = t[i]
  OBVIOUS

(* The writes, and the close behind them.                                  *)
LEMMA DataCallsAre ==
  ASSUME Sink!SinkBounds
  PROVE  /\ Sink!DataCalls \in Seq(Sink!Calls) /\ Len(Sink!DataCalls) = Writes + 1
         /\ \A i \in 1 .. Writes + 1 : Sink!DataCalls[i] = IF i = Writes + 1 THEN "close" ELSE "write"
<1> DEFINE W == Sink!Repeat(Writes, <<"write">>)
<1>1. Writes \in Nat
  BY DEF Sink!SinkBounds
<1>2. W = [i \in 1 .. Writes |-> "write"]
  <2>1. Len(<<"write">>) = 1 /\ <<"write">>[1] = "write" /\ Writes * 1 = Writes
    BY <1>1
  <2>2. \A i \in 1 .. Writes : ((i - 1) % 1) + 1 = 1
    BY <1>1
  <2>. QED  BY <2>1, <2>2 DEF Sink!Repeat
<1>3. W \in Seq(Sink!Calls) /\ Len(W) = Writes /\ \A i \in 1 .. Writes : W[i] = "write"
  BY <1>1, <1>2 DEF Sink!Calls
<1>4. Sink!DataCalls = W \o <<"close">> /\ <<"close">> \in Seq(Sink!Calls)
  BY DEF Sink!DataCalls, Sink!Calls
<1> HIDE DEF W
<1>. QED  BY <1>1, <1>3, <1>4

(* The messages of file comparison, each with its flush.                   *)
Middle(compare) ==
  IF compare THEN Sink!Repeat(Batches, <<"message", "flush", "await">>) \o <<"message", "flush">>
  ELSE <<>>

FlushedSoon(s) ==
  /\ s \in Seq({"message", "flush", "await"})
  /\ \A i \in 1 .. Len(s) : s[i] = "message" => i + 1 \in 1 .. Len(s) /\ s[i + 1] = "flush"

(* Every batch is a message, its flush and the wait for the answer.        *)
LEMMA BatchesAreFlushed ==
  ASSUME Sink!SinkBounds
  PROVE  FlushedSoon(Sink!Repeat(Batches, <<"message", "flush", "await">>))
<1> DEFINE B == <<"message", "flush", "await">>
           R == Sink!Repeat(Batches, B)
<1>1. Batches \in Nat /\ Len(B) = 3 /\ B[1] = "message" /\ B[2] = "flush" /\ B[3] = "await"
  BY DEF Sink!SinkBounds
<1> HIDE DEF B
<1>2. R = [i \in 1 .. Batches * 3 |-> B[((i - 1) % 3) + 1]] /\ Batches * 3 \in Nat
  BY <1>1 DEF Sink!Repeat
<1>3. \A i \in 1 .. Batches * 3 :
        /\ ((i - 1) % 3) + 1 \in 1 .. 3
        /\ ((i - 1) % 3) + 1 = 1 => i + 1 \in 1 .. Batches * 3 /\ ((i + 1 - 1) % 3) + 1 = 2
  BY <1>1
<1>4. Len(R) = Batches * 3 /\ R \in Seq({"message", "flush", "await"})
  <2>1. \A i \in 1 .. Batches * 3 : B[((i - 1) % 3) + 1] \in {"message", "flush", "await"}
    BY <1>1, <1>3
  <2>. QED  BY <1>2, <2>1
<1>5. \A i \in 1 .. Batches * 3 : R[i] = B[((i - 1) % 3) + 1]
  BY <1>2
<1> HIDE DEF R
<1>6. ASSUME NEW i \in 1 .. Batches * 3, R[i] = "message"
      PROVE  i + 1 \in 1 .. Batches * 3 /\ R[i + 1] = "flush"
  <2>1. ((i - 1) % 3) + 1 = 1
    BY <1>1, <1>3, <1>5, <1>6
  <2>. QED  BY <1>1, <1>3, <1>5, <2>1
<1>. QED  BY <1>4, <1>6 DEF FlushedSoon, R, B

(* So is the message that ends the comparison.                             *)
LEMMA MiddleIsFlushed ==
  ASSUME Sink!SinkBounds, NEW compare \in BOOLEAN
  PROVE  FlushedSoon(Middle(compare))
<1>1. CASE compare
  <2> DEFINE R == Sink!Repeat(Batches, <<"message", "flush", "await">>)
             P == <<"message", "flush">>
  <2>1. FlushedSoon(R)
    BY BatchesAreFlushed
  <2>2. Middle(compare) = R \o P
    BY <1>1 DEF Middle
  <2> HIDE DEF R
  <2>3. /\ R \in Seq({"message", "flush", "await"}) /\ P \in Seq({"message", "flush", "await"})
        /\ Len(R) \in Nat /\ Len(P) = 2 /\ P[1] = "message" /\ P[2] = "flush"
    BY <2>1 DEF FlushedSoon
  <2> HIDE DEF P
  <2>4. /\ R \o P \in Seq({"message", "flush", "await"}) /\ Len(R \o P) = Len(R) + 2
        /\ \A i \in 1 .. Len(R) : (R \o P)[i] = R[i]
        /\ (R \o P)[Len(R) + 1] = "message" /\ (R \o P)[Len(R) + 2] = "flush"
    <3>1. 1 \in 1 .. Len(P) /\ 2 \in 1 .. Len(P)
      BY <2>3
    <3>. QED  BY <2>3, <3>1, Joined
  <2>5. ASSUME NEW i \in 1 .. Len(R) + 2, (R \o P)[i] = "message"
        PROVE  i + 1 \in 1 .. Len(R) + 2 /\ (R \o P)[i + 1] = "flush"
    <3>1. CASE i \in 1 .. Len(R)
      <4>1. i + 1 \in 1 .. Len(R) /\ R[i + 1] = "flush"
        BY <2>1, <2>4, <2>5, <3>1 DEF FlushedSoon
      <4>. QED  BY <2>3, <2>4, <4>1
    <3>2. CASE i = Len(R) + 1
      BY <2>3, <2>4, <3>2
    <3>3. CASE i = Len(R) + 2
      BY <2>4, <2>5, <3>3
    <3>4. i \in 1 .. Len(R) \/ i = Len(R) + 1 \/ i = Len(R) + 2
      BY <2>3
    <3>. QED  BY <3>1, <3>2, <3>3, <3>4
  <2>. QED  BY <2>2, <2>4, <2>5 DEF FlushedSoon
<1>2. CASE ~compare
  BY <1>2 DEF Middle, FlushedSoon
<1>. QED  BY <1>1, <1>2

MainCallFits(s, i) ==
  /\ s[i] \in {"begin", "message", "flush", "await", "end", "check"}
  /\ s[i] = "check" <=> i = Len(s)
  /\ s[i] = "end" <=> i = Len(s) - 1
  /\ s[i] = "message" => s[i + 1] = "flush"

(* The begin, the messages, the end and the check, in this order.          *)
LEMMA MainCallsAre ==
  ASSUME Sink!SinkBounds, NEW compare \in BOOLEAN
  PROVE  /\ Sink!MainCalls(compare) \in Seq(Sink!Calls) /\ Len(Sink!MainCalls(compare)) \in Nat
         /\ Len(Sink!MainCalls(compare)) > 1
         /\ \A i \in 1 .. Len(Sink!MainCalls(compare)) : MainCallFits(Sink!MainCalls(compare), i)
<1> DEFINE m == Middle(compare)
           s == Sink!MainCalls(compare)
           K == {"message", "flush", "await"}
<1>1. FlushedSoon(m)
  BY MiddleIsFlushed
<1>2. s = (<<"begin">> \o m) \o <<"end", "check">>
  BY DEF Sink!MainCalls, Middle
<1> HIDE DEF m, s
<1>3. m \in Seq(K) /\ Len(m) \in Nat /\ m \in Seq(Sink!Calls)
  BY <1>1 DEF FlushedSoon, Sink!Calls
<1>4. \A i \in 1 .. Len(m) : m[i] \in K
  BY <1>3
<1>5. /\ s \in Seq(Sink!Calls) /\ Len(s) = Len(m) + 3
      /\ s[1] = "begin" /\ s[Len(m) + 2] = "end" /\ s[Len(m) + 3] = "check"
      /\ \A i \in 1 .. Len(m) : s[i + 1] = m[i]
  <2> DEFINE b == <<"begin">>
             e == <<"end", "check">>
             t == b \o m
  <2>1. /\ b \in Seq(Sink!Calls) /\ Len(b) = 1 /\ b[1] = "begin"
        /\ e \in Seq(Sink!Calls) /\ Len(e) = 2 /\ e[1] = "end" /\ e[2] = "check"
    BY DEF Sink!Calls
  <2> HIDE DEF b, e
  <2>2. /\ t \in Seq(Sink!Calls) /\ Len(t) = Len(m) + 1 /\ t[1] = "begin"
        /\ \A i \in 1 .. Len(m) : t[i + 1] = m[i]
    <3>1. /\ t \in Seq(Sink!Calls) /\ Len(t) = 1 + Len(m)
          /\ \A i \in 1 .. 1 : t[i] = b[i]
          /\ \A i \in 1 .. Len(m) : t[1 + i] = m[i]
      BY <1>3, <2>1, Joined
    <3>2. \A i \in 1 .. Len(m) : 1 + i = i + 1
      BY <1>3
    <3>. QED  BY <1>3, <2>1, <3>1, <3>2
  <2> HIDE DEF t
  <2>3. s = t \o e
    BY <1>2 DEF t, b, e
  <2>4. /\ s \in Seq(Sink!Calls) /\ Len(s) = Len(m) + 3 /\ \A i \in 1 .. Len(m) + 1 : s[i] = t[i]
        /\ s[Len(m) + 2] = e[1] /\ s[Len(m) + 3] = e[2]
    <3>1. /\ s \in Seq(Sink!Calls) /\ Len(s) = Len(m) + 1 + 2
          /\ \A i \in 1 .. Len(m) + 1 : s[i] = t[i]
          /\ \A i \in 1 .. 2 : s[Len(m) + 1 + i] = e[i]
      <4>1. /\ s \in Seq(Sink!Calls) /\ Len(s) = Len(t) + Len(e)
            /\ \A i \in 1 .. Len(t) : s[i] = t[i]
            /\ \A i \in 1 .. Len(e) : s[Len(t) + i] = e[i]
        <5>1. /\ t \o e \in Seq(Sink!Calls) /\ Len(t \o e) = Len(t) + Len(e)
              /\ \A i \in 1 .. Len(t) : (t \o e)[i] = t[i]
              /\ \A i \in 1 .. Len(e) : (t \o e)[Len(t) + i] = e[i]
          <6>1. t \in Seq(Sink!Calls) /\ e \in Seq(Sink!Calls)
            BY <2>1, <2>2
          <6>. QED  BY <6>1, Joined
        <5>. QED  BY <2>3, <5>1, Zenon
      <4>. QED  BY <2>1, <2>2, <4>1
    <3>2. s[Len(m) + 1 + 1] = e[1] /\ s[Len(m) + 1 + 2] = e[2]
      BY <3>1
    <3>. QED  BY <1>3, <3>1, <3>2
  <2>. QED  BY <1>3, <2>1, <2>2, <2>4
<1>6. ASSUME NEW i \in 1 .. Len(m) + 3  PROVE MainCallFits(s, i)
  <2>1. CASE i = 1
    BY <1>3, <1>5, <2>1 DEF MainCallFits
  <2>2. CASE i \in 2 .. Len(m) + 1
    <3>1. i - 1 \in 1 .. Len(m) /\ s[i] = m[i - 1] /\ m[i - 1] \in K
      BY <1>3, <1>4, <1>5, <2>2
    <3>2. m[i - 1] = "message" => i \in 1 .. Len(m) /\ m[i] = "flush"
      BY <1>1, <1>3, <3>1 DEF FlushedSoon
    <3>3. s[i] = "message" => s[i + 1] = "flush"
      BY <1>5, <3>1, <3>2
    <3>. QED  BY <1>3, <1>5, <2>2, <3>1, <3>3 DEF MainCallFits
  <2>3. CASE i = Len(m) + 2
    BY <1>3, <1>5, <2>3 DEF MainCallFits
  <2>4. CASE i = Len(m) + 3
    BY <1>3, <1>5, <2>4 DEF MainCallFits
  <2>. QED  BY <1>3, <2>1, <2>2, <2>3, <2>4
<1>. QED  BY <1>3, <1>5, <1>6 DEF s

(* The invariant holds before the first call.                              *)
LEMMA InitSink == Sink!SinkBounds /\ Sink!Init => SinkInv
<1> SUFFICES ASSUME Sink!SinkBounds, Sink!Init  PROVE SinkInv
  OBVIOUS
<1>1. /\ Writes \in Nat /\ DataCap \in Nat \ {0} /\ ControlCap \in Nat \ {0}
      /\ scenario \in Scenarios /\ scenario.compare \in BOOLEAN
  BY DEF Sink!SinkBounds, Sink!Init
<1>2. /\ calls \in [Sink!Users -> Seq(Sink!Calls)]
      /\ calls["main"] = Sink!MainCalls(scenario.compare) /\ calls["data"] = Sink!DataCalls
  <2>1. Sink!MainCalls(scenario.compare) \in Seq(Sink!Calls)
    BY <1>1, MainCallsAre
  <2>2. Sink!DataCalls \in Seq(Sink!Calls)
    BY DataCallsAre
  <2>. QED  BY <2>1, <2>2 DEF Sink!Init, Sink!Users
<1>3. /\ \A u \in Sink!Users : /\ phase[u] = "idle" /\ todo[u] = <<>> /\ frame[u] = <<>>
                               /\ outcome[u] = "running"
      /\ data = <<>> /\ control = <<>> /\ wire = <<>> /\ accepted = <<>> /\ answers = 0
      /\ sendLock = Sink!Free /\ opLock = Sink!Free
  BY DEF Sink!Init
<1>4. Sink!TypeOK
  <2>1. UsersTyped
    BY <1>2 DEF UsersTyped, Sink!Init, Phases, Outcomes
  <2>2. Sink!Asked = 0
    BY <1>3, NumberOfNone DEF Sink!Asked
  <2>3. BuffersTyped
    <3>1. active \in BOOLEAN
      BY DEF Sink!Init
    <3>. QED  BY <1>1, <1>3, <2>2, <3>1 DEF BuffersTyped
  <2>4. LocksTyped
    BY <1>1, <1>3 DEF LocksTyped
  <2>5. RestTyped
    BY DEF RestTyped, Sink!Init
  <2>. QED  BY <2>1, <2>3, <2>4, <2>5, TypeHasParts
<1>5. UsersFit
  <2> SUFFICES ASSUME NEW u \in Sink!Users  PROVE PhaseFits(u) /\ FrameFits(u) /\ FlushedFirst(u)
    BY DEF UsersFit
  <2>1. <<>> \in Todos(u)
    BY DEF Todos, MainTodos, DataTodos
  <2>. QED  BY <1>3, <2>1, NoStep, UsersAreTwo DEF PhaseFits, FrameFits, FlushedFirst, InOp, Reads,
      Holds, InFlight
<1>6. InOrder
  <2>1. ~InFlight("main")
    BY <1>3, UsersAreTwo DEF InFlight, InOp
  <2>2. <<>> \o <<>> = <<>> /\ Len(<<>>) = 0
    OBVIOUS
  <2>. QED  BY <1>3, <2>1, <2>2 DEF InOrder, Waiting
<1>7. CallsFit
  <2>1. \A i \in 1 .. Len(calls["main"]) : MainCallFits(calls["main"], i)
    BY <1>1, <1>2, MainCallsAre
  <2>2. \A i \in 1 .. Len(calls["data"]) :
          calls["data"][i] = IF i = Len(calls["data"]) THEN "close" ELSE "write"
    BY <1>1, <1>2, DataCallsAre
  <2>. QED  BY <2>1, <2>2 DEF CallsFit, MainCallFits
<1>8. RoomLeft
  BY <1>1, <1>3, NoStep, UsersAreTwo DEF RoomLeft
<1>9. EndIsLast
  <2>1. ~(Len(calls["main"]) <= 1)
    BY <1>1, <1>2, MainCallsAre
  <2>. QED  BY <1>3, <2>1, NoStep, UsersAreTwo DEF EndIsLast
<1>10. AllCounted
  <2>1. calls["data"] # <<>> /\ Len(calls["data"]) - 1 = Writes
    BY <1>1, <1>2, DataCallsAre
  <2>2. WritesLeft = Writes
    <3>1. ~Has(todo["data"], "putData")
      BY <1>3, NoStep, UsersAreTwo
    <3>. QED  BY <1>1, <2>1, <3>1 DEF WritesLeft
  <2>. QED  BY <1>1, <1>3, <2>2, NumberOfNone DEF AllCounted
<1>. QED  BY <1>4, <1>5, <1>6, <1>7, <1>8, <1>9, <1>10 DEF SinkInv

(* The invariant holds throughout.                                         *)
LEMMA SinkInductive == Sink!SinkBounds => (Sink!Spec => []SinkInv)
<1> SUFFICES ASSUME Sink!SinkBounds  PROVE Sink!Spec => []SinkInv
  OBVIOUS
<1>1. Sink!Init => SinkInv
  BY InitSink
<1>. QED  BY <1>1, SinkStep, PTL DEF Sink!Spec

(* The wire is what was accepted, up to where the connection was lost; and *)
(* when the end is on it everything is.                                    *)
LEMMA InvGivesOrder == SinkInv => Sink!WireIsInOrder
<1> SUFFICES ASSUME SinkInv  PROVE Sink!WireIsInOrder
  OBVIOUS
<1>1. wire \in Seq(Sink!Unit) /\ accepted \in Seq(Sink!Unit)
  BY TypeHasParts DEF SinkInv, BuffersTyped
<1>2. Len(wire) <= Len(accepted) /\ \A i \in 1 .. Len(wire) : wire[i] = accepted[i]
  BY DEF SinkInv, InOrder
<1>3. Sink!IsPrefix(wire, accepted)
  BY <1>1, <1>2 DEF Sink!IsPrefix
<1>4. ASSUME End \in Sink!Range(wire)
      PROVE  Sink!Last(wire) = End /\ wire = accepted /\ Sink!NumberOf("data", wire) = Writes
  <2>1. PICK i \in DOMAIN wire : wire[i] = End
    BY <1>4 DEF Sink!Range
  <2>2. i \in 1 .. Len(wire) /\ i \in 1 .. Len(accepted) /\ accepted[i] = End
    BY <1>1, <1>2, <2>1
  <2>3. i = Len(accepted) /\ outcome["data"] = "ok" /\ todo["data"] = <<>> /\ calls["data"] = <<>>
    <3>1. i = Len(accepted) /\ outcome["data"] = "ok" /\ calls["data"] = <<>>
      BY <2>2 DEF SinkInv, EndIsLast
    <3>. QED  BY <3>1, UsersAreTwo DEF SinkInv, UsersFit, PhaseFits
  <2>4. wire = accepted
    BY <1>1, <1>2, <2>2, <2>3
  <2>5. Sink!Last(wire) = End
    BY <2>2, <2>3, <2>4 DEF Sink!Last
  <2>6. Sink!NumberOf("data", accepted) = Writes
    <3>1. WritesLeft = 0
      BY <2>3, NoStep DEF WritesLeft
    <3>2. Sink!NumberOf("data", accepted) \in Nat
      BY <1>1, NumberIsNatural
    <3>. QED  BY <2>3, <3>1, <3>2 DEF SinkInv, AllCounted
  <2>. QED  BY <2>4, <2>5, <2>6
<1>. QED  BY <1>3, <1>4 DEF Sink!WireIsInOrder, End

(* For any number of writes and batches, any capacity of the buffers and   *)
(* whatever befalls the transfer, the buffers stay within their capacity   *)
(* and no answer is read that was not asked for.                           *)
THEOREM SinkTypeCorrect == Sink!SinkBounds => (Sink!Spec => []Sink!TypeOK)
<1> SUFFICES ASSUME Sink!SinkBounds  PROVE Sink!Spec => []Sink!TypeOK
  OBVIOUS
<1>1. SinkInv => Sink!TypeOK
  BY DEF SinkInv
<1>. QED  BY <1>1, SinkInductive, PTL

(* Frames of both buffers and of both threads reach the peer in the order  *)
(* in which the calls were made, and the end event follows all of them.    *)
THEOREM FramesInOrder == Sink!SinkBounds => (Sink!Spec => []Sink!WireIsInOrder)
<1> SUFFICES ASSUME Sink!SinkBounds  PROVE Sink!Spec => []Sink!WireIsInOrder
  OBVIOUS
<1>. QED  BY InvGivesOrder, SinkInductive, PTL

=============================================================================
