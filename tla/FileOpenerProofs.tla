-------------------------- MODULE FileOpenerProofs --------------------------
(***************************************************************************)
(* Proofs about FileOpener, for any entries, any limits and any pool.      *)
(*                                                                         *)
(* The coroutine is in one place at a time (Turn), each entry it has not   *)
(* treated is untouched (Untouched), each permit has one holder (Held) and *)
(* what is emitted is numbered without a gap (Emission). That makes up the *)
(* order of the output and the conservation of permits.                    *)
(*                                                                         *)
(* That the coroutine never waits for itself needs two facts more: every   *)
(* task under way is awaited (Awaited), so a permit that is not given to   *)
(* an awaited result is already past the opener; and handlers run in the   *)
(* order in which they were posted, so of the tasks only the last one may  *)
(* be behind the coroutine, and it waits for an earlier one (Ahead). The   *)
(* last fails when only one file may be open at a time.                    *)
(***************************************************************************)
EXTENDS FileOpener, SequenceTheorems, FiniteSetTheorems, TLAPS

(* A line of tasks: each handler once, and the coroutine only at its end.  *)
Line(t) ==
  /\ t \in Seq(0 .. Entries)
  /\ \A i, j \in 1 .. Len(t) : t[i] = t[j] => i = j
  /\ \A i \in 1 .. Len(t) - 1 : t[i] # Opener

(* Where the coroutine can be, and the states of a queue.                  *)
Places == {"next", "popped", "checked", "slot", "emit", "ended", "error", "finished", "failed"}
Statuses == {"Open", "Closed", "Abandoned"}

(* The types, with the shape of the line of tasks. Flags apart: the        *)
(* provers keep Booleans and arithmetic in separate steps.                 *)
Typed ==
  /\ workers \in WorkerCounts /\ regular \in SUBSET Sequences_
  /\ Line(tasks) /\ running \in SUBSET (0 .. Entries)
  /\ Cardinality(running) <= workers
  /\ arrived \in 0 .. Entries /\ taken \in 0 .. arrived
  /\ inStatus \in Statuses /\ at \in Places
  /\ pending \in SUBSET regular /\ ready \in SUBSET Sequences_
  /\ future \in [Sequences_ -> {"none", "checked", "ok", "failed"}]
  /\ next \in 1 .. Entries + 1
  /\ out \in Seq(Sequences_) /\ Len(out) <= OutCapacity
  /\ outStatus \in Statuses
  /\ slots \in Nat /\ guards \in SUBSET regular
  /\ down \in Seq(Sequences_) /\ packed \in Nat
  /\ cancel \in 0 .. 4

(* Which operations the coroutine is parked in, and its own Booleans.      *)
Flags ==
  /\ inParked \in BOOLEAN /\ waiting \in BOOLEAN /\ ended \in BOOLEAN
  /\ outParked \in BOOLEAN /\ slotParked \in BOOLEAN

(***************************************************************************)
(* The coroutine is in one place: on a thread, the last of the tasks, or   *)
(* parked in one awaited operation; or it is over. While it is on a thread *)
(* the only task behind it is the one it has just submitted.               *)
(***************************************************************************)
Parked == inParked \/ outParked \/ slotParked
Over == at \in {"finished", "failed"}
Posted == Opener \in Range(tasks)

Turn ==
  /\ inParked => at = "next"
  /\ outParked => at = "emit"
  /\ slotParked => at = "slot" /\ slots = 0
  /\ Opener \in running \/ Posted => ~Parked /\ ~Over
  /\ Opener \in running =>
       tasks = <<>> \/ (tasks = <<taken>> /\ taken # Opener /\ at \in {"emit", "next"} /\ ~ended)
  /\ ended => at \in {"emit", "error", "finished", "failed"}

(* Entries the coroutine has not submitted or put aside yet.               *)
Fresh(n) == n > taken \/ (n = taken /\ at \in {"popped", "checked", "slot"})

Untouched ==
  \A n \in Sequences_ : Fresh(n) =>
    /\ future[n] = "none" /\ n \notin pending /\ n \notin ready
    /\ n \notin running /\ n \notin Range(tasks)
    /\ n \in guards => n = taken /\ at = "slot" /\ ~slotParked

(* Everything that waits to be emitted is next or later, and at most the   *)
(* last entry taken; with the permit the coroutine holds it for that       *)
(* entry.                                                                  *)
Numbered ==
  /\ next <= taken + 1
  /\ at \in {"popped", "checked", "slot"} => next <= taken
  /\ at = "slot" => taken \in regular /\ (~slotParked => taken \in guards)
  /\ \A n \in pending \cup ready : next <= n
  /\ pending \cap ready = {}

(* The tasks under way, each with its permit.                              *)
Opening ==
  /\ \A n \in Range(tasks) \ {Opener} : n \in guards /\ n \notin running /\ future[n] = "none"
  /\ \A n \in running \ {Opener} : n \in guards /\ future[n] \in {"none", "checked"}
  /\ \A n \in pending : ~HasResult(n) => n \in running \/ n \in Range(tasks)

(* The entries that are through.                                           *)
Opened(n) == n \in regular => future[n] = "ok"

Results ==
  /\ \A n \in ready : Opened(n) /\ (n \in regular => Opener \in running /\ at = "emit" /\ n = next)
  /\ \A n \in Range(out) : Opened(n)
  /\ \A n \in Range(down) : Opened(n)
  /\ outParked => Opened(ParkedFile)

(* Whoever holds the permit of n.                                          *)
Holder(n) ==
  \/ n \in running \/ n \in Range(tasks)
  \/ n \in pending /\ future[n] = "ok"
  \/ n \in ready \/ n \in Range(out) \/ n \in Range(down)
  \/ outParked /\ n = ParkedFile
  \/ at = "slot" /\ n = taken

(* No permit is held by nobody.                                            *)
Held == \A n \in guards : Holder(n)

(* What was emitted.                                                       *)
Emission ==
  /\ \A i \in 1 .. Len(down) : down[i] = packed + i
  /\ \A i \in 1 .. Len(out) : out[i] = packed + Len(down) + i
  /\ LET held == packed + Len(down) + Len(out) + (IF outParked THEN 1 ELSE 0)
     IN  held < next /\ (outStatus # "Abandoned" => held + 1 = next)
  /\ outStatus = "Abandoned" => out = <<>> /\ ~outParked
  /\ outStatus = "Closed" => Over

(* No entry is taken while too many results are awaited, and in the end    *)
(* none is.                                                                *)
Window ==
  /\ at \in {"next", "popped", "checked", "slot"} => Cardinality(pending) < Concurrency
  /\ Over => pending = {} /\ ready = {}

(* The permits, given and left, are all there are.                         *)
Conserved == slots + Cardinality(guards) = Concurrency

(* The inductive invariant.                                                *)
IInv ==
  Typed /\ Turn /\ Untouched /\ Numbered /\ Opening /\ Results /\ Held /\ Emission /\ Window
    /\ Conserved

(* Once the coroutine waits for the next result, its task is not the one   *)
(* it has just submitted: when several files may be open at once.          *)
Ahead == Opener \in running /\ at = "emit" /\ tasks # <<>> /\ waiting => next < taken

(* Until the coroutine is over, every task under way has its result        *)
(* awaited.                                                                *)
Awaited == ~Over => (running \cup Range(tasks)) \ {Opener} \subseteq pending

(***************************************************************************)
(* Sequences and sets.                                                     *)
(***************************************************************************)
LEMMA Constants ==
  /\ Entries \in Nat /\ Concurrency \in Nat \ {0} /\ OutCapacity \in Nat \ {0}
  /\ Opener = 0 /\ Opener \notin Sequences_ /\ Sequences_ \subseteq Nat
  /\ Sequences_ \subseteq 0 .. Entries /\ Opener \in 0 .. Entries
  /\ IsFiniteSet(0 .. Entries) /\ IsFiniteSet(Sequences_)
<1>1. /\ Entries \in Nat /\ Concurrency \in Nat \ {0} /\ OutCapacity \in Nat \ {0}
  BY OpenerAssumption DEF OpenerAssumption
<1>2. IsFiniteSet(0 .. Entries) /\ IsFiniteSet(1 .. Entries)
  BY <1>1, FS_Interval
<1>3. QED
  BY <1>1, <1>2 DEF Opener, Sequences_

(* What is in a sequence when something is added or taken off.             *)
LEMMA RangeOfAppend ==
  ASSUME NEW S, NEW t \in Seq(S), NEW e
  PROVE  Range(Append(t, e)) = Range(t) \cup {e}
<1>1. /\ DOMAIN Append(t, e) = 1 .. Len(t) + 1 /\ DOMAIN t = 1 .. Len(t) /\ Len(t) \in Nat
      /\ Append(t, e)[Len(t) + 1] = e /\ \A i \in 1 .. Len(t) : Append(t, e)[i] = t[i]
  OBVIOUS
<1>2. 1 .. Len(t) + 1 = (1 .. Len(t)) \cup {Len(t) + 1}
  BY <1>1
<1>3. QED
  BY <1>1, <1>2 DEF Range

(* What is left when the first is taken off.                               *)
LEMMA RangeOfTail ==
  ASSUME NEW S, NEW t \in Seq(S), t # <<>>
  PROVE  /\ Range(t) = {Head(t)} \cup Range(Tail(t))
         /\ Head(t) \in S /\ Tail(t) \in Seq(S) /\ Len(t) > 0 /\ Len(Tail(t)) = Len(t) - 1
         /\ \A i \in 1 .. Len(t) - 1 : Tail(t)[i] = t[i + 1]
<1>1. /\ DOMAIN t = 1 .. Len(t) /\ Len(t) \in Nat \ {0} /\ Head(t) = t[1] /\ Tail(t) \in Seq(S)
      /\ DOMAIN Tail(t) = 1 .. Len(t) - 1 /\ Len(Tail(t)) = Len(t) - 1
      /\ \A i \in 1 .. Len(t) - 1 : Tail(t)[i] = t[i + 1]
  OBVIOUS
<1>2. ASSUME NEW x \in Range(t) PROVE x = Head(t) \/ x \in Range(Tail(t))
  <2>1. PICK i \in 1 .. Len(t) : x = t[i]
    BY <1>1 DEF Range
  <2>2. CASE i = 1
    BY <1>1, <2>1, <2>2
  <2>3. CASE i # 1
    <3>1. i - 1 \in 1 .. Len(t) - 1 /\ (i - 1) + 1 = i
      BY <1>1, <2>3
    <3>2. x = Tail(t)[i - 1]
      BY <1>1, <2>1, <3>1
    <3>3. QED
      BY <1>1, <3>1, <3>2 DEF Range
  <2>4. QED
    BY <2>2, <2>3
<1>3. ASSUME NEW x, x = Head(t) \/ x \in Range(Tail(t)) PROVE x \in Range(t)
  <2>1. CASE x = Head(t)
    <3>1. 1 \in 1 .. Len(t)
      BY <1>1
    <3>2. QED
      BY <1>1, <2>1, <3>1 DEF Range
  <2>2. CASE x \in Range(Tail(t))
    <3>1. PICK i \in 1 .. Len(t) - 1 : x = Tail(t)[i]
      BY <1>1, <2>2 DEF Range
    <3>2. i + 1 \in 1 .. Len(t) /\ x = t[i + 1]
      BY <1>1, <3>1
    <3>3. QED
      BY <1>1, <3>2 DEF Range
  <2>3. QED
    BY <1>3, <2>1, <2>2
<1>4. Range(t) = {Head(t)} \cup Range(Tail(t))
  BY <1>2, <1>3
<1>5. Head(t) \in S
  BY <1>1
<1>6. QED
  BY <1>1, <1>4, <1>5

(* Nothing is in an empty sequence.                                        *)
LEMMA RangeOfNone == Range(<<>>) = {}
BY DEF Range

(* The elements of a sequence over S are in S.                             *)
LEMMA RangeIsIn ==
  ASSUME NEW S, NEW t \in Seq(S)
  PROVE  Range(t) \subseteq S
BY DEF Range

(* Lines of tasks.                                                         *)
LEMMA LineGrows ==
  ASSUME NEW t, Line(t), NEW e \in 0 .. Entries, e \notin Range(t), Opener \notin Range(t)
  PROVE  Line(Append(t, e)) /\ Range(Append(t, e)) = Range(t) \cup {e}
<1>1. /\ t \in Seq(0 .. Entries) /\ Len(t) \in Nat /\ DOMAIN t = 1 .. Len(t)
      /\ \A i, j \in 1 .. Len(t) : t[i] = t[j] => i = j
  BY DEF Line
<1>2. /\ Len(Append(t, e)) = Len(t) + 1 /\ Append(t, e) \in Seq(0 .. Entries)
      /\ Append(t, e)[Len(t) + 1] = e /\ \A i \in 1 .. Len(t) : Append(t, e)[i] = t[i]
  BY <1>1
<1>3. \A i \in 1 .. Len(t) : t[i] # e /\ t[i] # Opener
  BY <1>1 DEF Range
<1>4. \A i \in 1 .. Len(t) + 1 : i \in 1 .. Len(t) \/ i = Len(t) + 1
  BY <1>1
<1>5. \A i, j \in 1 .. Len(t) + 1 : Append(t, e)[i] = Append(t, e)[j] => i = j
  BY <1>1, <1>2, <1>3, <1>4
<1>6. Len(t) + 1 - 1 = Len(t)
  BY <1>1
<1>7. Range(Append(t, e)) = Range(t) \cup {e}
  BY <1>1, RangeOfAppend
<1>8. QED
  BY <1>2, <1>3, <1>5, <1>6, <1>7 DEF Line

(* The first of a line of tasks leaves it.                                 *)
LEMMA LineShrinks ==
  ASSUME NEW t, Line(t), t # <<>>
  PROVE  /\ Line(Tail(t)) /\ Range(t) = {Head(t)} \cup Range(Tail(t)) /\ Head(t) \in 0 .. Entries
         /\ Head(t) \notin Range(Tail(t))
         /\ Head(t) = Opener => Tail(t) = <<>>
<1>1. /\ t \in Seq(0 .. Entries) /\ Len(t) \in Nat /\ DOMAIN t = 1 .. Len(t)
      /\ \A i, j \in 1 .. Len(t) : t[i] = t[j] => i = j
      /\ \A i \in 1 .. Len(t) - 1 : t[i] # Opener
  BY DEF Line
<1>2. /\ Range(t) = {Head(t)} \cup Range(Tail(t))
      /\ Head(t) \in 0 .. Entries /\ Tail(t) \in Seq(0 .. Entries) /\ Len(t) > 0 /\ Len(Tail(t)) = Len(t) - 1
      /\ \A i \in 1 .. Len(t) - 1 : Tail(t)[i] = t[i + 1]
  BY <1>1, RangeOfTail
<1>3. Head(t) = t[1] /\ DOMAIN Tail(t) = 1 .. Len(t) - 1
  BY <1>1, <1>2
<1>4. Line(Tail(t))
  <2>1. \A i \in 1 .. Len(t) - 1 : i + 1 \in 1 .. Len(t)
    BY <1>1
  <2>2. \A i, j \in 1 .. Len(t) - 1 : Tail(t)[i] = Tail(t)[j] => i = j
    <3> SUFFICES ASSUME NEW i \in 1 .. Len(t) - 1, NEW j \in 1 .. Len(t) - 1, Tail(t)[i] = Tail(t)[j]
                 PROVE  i = j
      OBVIOUS
    <3>1. i + 1 = j + 1
      BY <1>1, <1>2, <2>1
    <3>2. QED
      BY <3>1
  <2>3. \A i \in 1 .. Len(t) - 1 - 1 : i \in 1 .. Len(t) - 1 /\ i + 1 \in 1 .. Len(t) - 1
    BY <1>1
  <2>4. \A i \in 1 .. Len(t) - 1 - 1 : Tail(t)[i] # Opener
    BY <1>1, <1>2, <2>3
  <2>5. QED
    BY <1>2, <2>2, <2>4 DEF Line
<1>5. Head(t) \notin Range(Tail(t))
  <2>1. SUFFICES ASSUME NEW i \in 1 .. Len(t) - 1, t[1] = Tail(t)[i] PROVE FALSE
    BY <1>3 DEF Range
  <2>2. i + 1 \in 1 .. Len(t) /\ 1 \in 1 .. Len(t) /\ i + 1 # 1 /\ t[1] = t[i + 1]
    BY <1>1, <1>2, <2>1
  <2>3. QED
    BY <1>1, <2>2
<1>6. ASSUME Head(t) = Opener PROVE Tail(t) = <<>>
  <2>1. ~ (1 \in 1 .. Len(t) - 1)
    BY <1>1, <1>3, <1>6
  <2>2. Len(Tail(t)) = 0
    BY <1>1, <1>2, <2>1
  <2>3. QED
    BY <1>2, <2>2, EmptySeq
<1>7. QED
  BY <1>2, <1>4, <1>5, <1>6

(* Numbers of permits.                                                     *)
LEMMA GuardsAreFinite ==
  ASSUME Typed
  PROVE  /\ IsFiniteSet(guards) /\ IsFiniteSet(running) /\ IsFiniteSet(pending)
         /\ Cardinality(guards) \in Nat /\ Cardinality(running) \in Nat /\ Cardinality(pending) \in Nat
<1>1. guards \subseteq 0 .. Entries /\ running \subseteq 0 .. Entries /\ pending \subseteq 0 .. Entries
  BY Constants DEF Typed
<1>2. IsFiniteSet(guards) /\ IsFiniteSet(running) /\ IsFiniteSet(pending)
  BY <1>1, Constants, FS_Subset
<1>3. QED
  BY <1>2, FS_CardinalityType

(* A handler that leaves its thread keeps the bound on threads.            *)
LEMMA FewerRun ==
  ASSUME Typed, NEW n
  PROVE  Cardinality(running \ {n}) <= workers /\ running \ {n} \in SUBSET (0 .. Entries)
<1>1. Cardinality(running \ {n}) <= Cardinality(running) /\ Cardinality(running \ {n}) \in Nat
  BY GuardsAreFinite, FS_Subset, FS_CardinalityType
<1>2. workers \in Nat
  BY OpenerAssumption DEF Typed, OpenerAssumption
<1>3. /\ Cardinality(running) \in Nat /\ Cardinality(running) <= workers
      /\ running \in SUBSET (0 .. Entries)
  BY GuardsAreFinite DEF Typed
<1>4. running \ {n} \in SUBSET (0 .. Entries)
  BY <1>3
<1>5. Cardinality(running \ {n}) <= workers
  BY <1>1, <1>2, <1>3
<1>6. QED
  BY <1>4, <1>5

(* What returning permits does.                                            *)
Woken(freed) == IF Resumes(freed) THEN {taken} ELSE {}

(* Free gives the permits back or hands one to the parked coroutine.       *)
LEMMA Freeing ==
  ASSUME Typed, Turn, Untouched, Numbered, Conserved, NEW freed \in SUBSET guards, Free(freed)
  PROVE  /\ guards' = (guards \ freed) \cup Woken(freed)
         /\ guards' \in SUBSET regular /\ slots' \in Nat
         /\ slots' + Cardinality(guards') = Concurrency
         /\ slotParked' => slotParked /\ slots' = 0 /\ ~Resumes(freed)
         /\ ~slotParked' /\ slotParked => Resumes(freed)
         /\ Resumes(freed) => ~slotParked' /\ at = "slot" /\ taken \in regular
<1> DEFINE n == Cardinality(freed)
<1>1. IsFiniteSet(freed) /\ n \in Nat /\ IsFiniteSet(guards) /\ Cardinality(guards) \in Nat
  BY GuardsAreFinite, FS_Subset, FS_CardinalityType
<1>2. Cardinality(guards \ freed) = Cardinality(guards) - n
  <2>1. guards \cap freed = freed
    OBVIOUS
  <2>2. QED
    BY <1>1, <2>1, FS_Difference
<1>3. (n > 0) <=> (freed # {})
  BY <1>1, FS_EmptySet
<1>4. slots \in Nat /\ slots + Cardinality(guards) = Concurrency /\ Concurrency \in Nat
  BY Constants DEF Typed, Conserved
<1>5. CASE slotParked /\ n > 0
  <2>1. /\ guards' = (guards \ freed) \cup {taken} /\ slotParked' = FALSE /\ slots' = slots + n - 1
    BY <1>5 DEF Free
  <2>2. Resumes(freed) /\ Woken(freed) = {taken}
    BY <1>3, <1>5 DEF Resumes, Woken
  <2>3. at = "slot" /\ taken \in regular
    BY <1>5 DEF Turn, Numbered
  <2>4. taken \notin guards
    BY <1>5, <2>3 DEF Untouched, Fresh, Typed
  <2>5. Cardinality((guards \ freed) \cup {taken}) = Cardinality(guards) - n + 1
    <3>1. IsFiniteSet(guards \ freed)
      BY <1>1, FS_Difference
    <3>2. QED
      BY <1>2, <2>4, <3>1, FS_AddElement
  <2>6. slots' \in Nat /\ slots' + Cardinality(guards') = Concurrency
    BY <1>1, <1>4, <1>5, <2>1, <2>5
  <2>7. guards' \in SUBSET regular
    BY <2>1, <2>3 DEF Typed
  <2>8. QED
    BY <2>1, <2>2, <2>3, <2>6, <2>7
<1>6. CASE ~(slotParked /\ n > 0)
  <2>1. guards' = guards \ freed /\ slots' = slots + n /\ slotParked' = slotParked
    BY <1>6 DEF Free
  <2>2. ~Resumes(freed) /\ Woken(freed) = {}
    BY <1>3, <1>6 DEF Resumes, Woken
  <2>3. slots' \in Nat /\ slots' + Cardinality(guards') = Concurrency
    BY <1>1, <1>2, <1>4, <2>1
  <2>4. slotParked' => slots' = 0
    <3>1. slotParked => n = 0 /\ slots = 0
      BY <1>1, <1>6 DEF Turn
    <3>2. QED
      BY <1>4, <2>1, <3>1
  <2>5. guards' \in SUBSET regular
    BY <2>1 DEF Typed
  <2>6. QED
    BY <2>1, <2>2, <2>3, <2>4, <2>5
<1>7. QED
  BY <1>5, <1>6

(***************************************************************************)
(* Steps of the coroutine.                                                 *)
(***************************************************************************)
LEMMA OnThread ==
  ASSUME IInv, Opener \in running
  PROVE  /\ Opener \notin Range(tasks) /\ ~inParked /\ ~outParked /\ ~slotParked /\ ~Over
         /\ Typed /\ Turn /\ Untouched /\ Numbered /\ Opening /\ Results /\ Held /\ Emission
         /\ Window /\ Conserved
<1>1. Turn
  BY DEF IInv
<1>2. Opener \notin Range(<<>>) /\ (taken # Opener => Opener \notin Range(<<taken>>))
  BY DEF Range
<1>3. Opener \notin Range(tasks)
  BY <1>1, <1>2 DEF Turn
<1>4. QED
  BY <1>1, <1>3 DEF IInv, Turn, Parked

(* The exception: what the coroutine owned goes with it.                   *)
LEMMA ThrowKeepsInvariant ==
  ASSUME IInv, Opener \in running, at # "slot", Throw, UNCHANGED <<fixed, input, taken, cancel>>
  PROVE  IInv'
<1> DEFINE lost == {n \in pending : future[n] = "ok"} \cup ready
           freed == lost \cap guards
<1>1. /\ Opener \notin Range(tasks) /\ ~inParked /\ ~outParked /\ ~slotParked
      /\ Typed /\ Turn /\ Untouched /\ Numbered /\ Opening /\ Results /\ Held /\ Emission
      /\ Window /\ Conserved
  BY OnThread
<1>2. /\ at' = "failed" /\ running' = running \ {Opener} /\ pending' = {} /\ ready' = {}
      /\ Free(freed)
      /\ outStatus' = IF outStatus = "Open" THEN "Closed" ELSE outStatus
      /\ UNCHANGED <<tasks, inParked, waiting, ended, future, next, out, outParked, down, packed>>
      /\ UNCHANGED <<workers, regular, arrived, inStatus, taken, cancel>>
  BY DEF Throw, fixed, input
<1>3. freed \in SUBSET guards /\ \A n \in Sequences_ : n \in freed <=> n \in lost /\ n \in guards
  OBVIOUS
<1>4. Woken(freed) = {}
  BY <1>1 DEF Woken, Resumes
<1> HIDE DEF freed
<1>5. /\ guards' = guards \ freed /\ guards' \in SUBSET regular /\ slots' \in Nat
      /\ slots' + Cardinality(guards') = Concurrency /\ ~slotParked'
  BY <1>1, <1>2, <1>3, <1>4, Freeing
<1>6. guards \subseteq regular /\ regular \subseteq Sequences_ /\ Opener \notin Sequences_
  BY <1>1, Constants DEF Typed
<1>7. Typed'
  BY <1>1, <1>2, <1>5, FewerRun DEF Typed, Places, Statuses
<1>8. Turn'
  BY <1>1, <1>2, <1>5 DEF Turn, Parked, Posted
<1>9. Untouched'
  BY <1>1, <1>2, <1>5 DEF Untouched, Fresh
<1>10. Numbered'
  BY <1>1, <1>2 DEF Numbered
<1>11. Opening'
  <2>1. ASSUME NEW n \in Range(tasks) \cup running, n # Opener PROVE n \in guards /\ n \notin lost
    <3>1. n \in guards /\ future[n] \in {"none", "checked"} /\ n \in regular
      BY <1>1, <1>6, <2>1 DEF Opening
    <3>2. n \notin ready
      BY <1>1, <3>1 DEF Results, Opened
    <3>3. QED
      BY <3>1, <3>2
  <2>2. \A n \in Range(tasks) \cup running : n # Opener => n \in guards'
    BY <1>3, <1>5, <1>6, <2>1
  <2>3. QED
    BY <1>1, <1>2, <2>2 DEF Opening
<1>12. Results'
  BY <1>1, <1>2 DEF Results, Opened, ParkedFile
<1>13. Held'
  <2>1. SUFFICES ASSUME NEW n \in guards' PROVE Holder(n)'
    BY DEF Held
  <2>2. n \in guards /\ n \notin lost /\ n # Opener /\ Holder(n)
    BY <1>1, <1>3, <1>5, <1>6 DEF Held
  <2>3. QED
    BY <1>1, <1>2, <2>2 DEF Holder
<1>14. Emission'
  BY <1>1, <1>2 DEF Emission, Over
<1>15. Window' /\ Conserved'
  BY <1>2, <1>5 DEF Window, Conserved
<1>16. QED
  BY <1>7, <1>8, <1>9, <1>10, <1>11, <1>12, <1>13, <1>14, <1>15 DEF IInv

(* A free thread takes the oldest handler.                                 *)
LEMMA DispatchKeepsInvariant ==
  ASSUME IInv, Dispatch
  PROVE  IInv'
<1>1. /\ Typed /\ Turn /\ Untouched /\ Numbered /\ Opening /\ Results /\ Held /\ Emission
      /\ Window /\ Conserved
  BY DEF IInv
<1>2. PICK h : h = Head(tasks)
  OBVIOUS
<1>3. /\ tasks # <<>> /\ Cardinality(running) < workers
      /\ running' = running \cup {h} /\ tasks' = Tail(tasks)
      /\ UNCHANGED <<workers, regular, arrived, inStatus, taken, inParked, at, waiting, ended,
                     pending, future, ready, next, out, outParked, outStatus, down, packed,
                     slots, slotParked, guards, cancel>>
  BY <1>2 DEF Dispatch, fixed, input, results, output, sems
<1>4. /\ Line(tasks') /\ Range(tasks) = {h} \cup Range(tasks') /\ h \in 0 .. Entries
      /\ h \notin Range(tasks') /\ (h = Opener => tasks' = <<>>)
  BY <1>1, <1>2, <1>3, LineShrinks DEF Typed
<1>5. Typed'
  <2>1. Cardinality(running \cup {h}) <= workers
    <3>1. IsFiniteSet(running) /\ Cardinality(running) \in Nat /\ workers \in Nat
      BY <1>1, GuardsAreFinite, OpenerAssumption DEF Typed, OpenerAssumption
    <3>2. Cardinality(running \cup {h}) <= Cardinality(running) + 1 /\ Cardinality(running \cup {h}) \in Nat
      <4>1. Cardinality(running \cup {h}) \in {Cardinality(running), Cardinality(running) + 1}
        BY <3>1, FS_AddElement
      <4>2. QED
        BY <3>1, <4>1
    <3>3. QED
      BY <1>3, <3>1, <3>2
  <2>2. running \cup {h} \in SUBSET (0 .. Entries)
    BY <1>1, <1>4 DEF Typed
  <2>3. QED
    BY <1>1, <1>3, <1>4, <2>1, <2>2 DEF Typed
<1>6. Turn'
  <2>1. Opener \in running' => tasks' = <<>> /\ (Opener \in running \/ Posted)
    <3>1. CASE Opener \in running
      <4>1. Tail(<<taken>>) = <<>>
        OBVIOUS
      <4>2. tasks = <<taken>>
        BY <1>1, <1>3, <3>1 DEF Turn
      <4>3. QED
        BY <1>3, <3>1, <4>1, <4>2
    <3>2. CASE Opener = h
      BY <1>4, <3>2 DEF Posted
    <3>3. QED
      BY <1>3, <3>1, <3>2
  <2>2. Posted' => Posted
    BY <1>4 DEF Posted
  <2>3. QED
    BY <1>1, <1>3, <2>1, <2>2 DEF Turn, Parked, Over
<1>7. Untouched'
  BY <1>1, <1>3, <1>4 DEF Untouched, Fresh
<1>8. Numbered'
  BY <1>1, <1>3 DEF Numbered
<1>9. Opening'
  <2>1. \A n \in Range(tasks') \ {Opener} : n \in guards' /\ n \notin running' /\ future'[n] = "none"
    BY <1>1, <1>3, <1>4 DEF Opening
  <2>2. \A n \in running' \ {Opener} : n \in guards' /\ future'[n] \in {"none", "checked"}
    BY <1>1, <1>3, <1>4 DEF Opening
  <2>3. \A n \in pending' : ~HasResult(n)' => n \in running' \/ n \in Range(tasks')
    BY <1>1, <1>3, <1>4 DEF Opening, HasResult
  <2>4. QED
    BY <2>1, <2>2, <2>3 DEF Opening, HasResult
<1>10. Results' /\ Emission' /\ Window' /\ Conserved'
  BY <1>1, <1>3 DEF Results, Opened, ParkedFile, Emission, Over, Window, Conserved
<1>11. Held'
  BY <1>1, <1>3, <1>4 DEF Held, Holder, ParkedFile
<1>12. QED
  BY <1>5, <1>6, <1>7, <1>8, <1>9, <1>10, <1>11 DEF IInv

(* The coroutine leaves its thread, and may be posted at once.             *)
LEMMA Suspending ==
  ASSUME IInv, Opener \in running, NEW r \in BOOLEAN, Suspend(r), r \/ tasks' = tasks
  PROVE  /\ Line(tasks') /\ running' = running \ {Opener}
         /\ Cardinality(running') <= workers /\ running' \in SUBSET (0 .. Entries)
         /\ Range(tasks') \ {Opener} = Range(tasks)
         /\ Range(tasks) \subseteq Range(tasks')
         /\ ~r => tasks' = tasks /\ Opener \notin Range(tasks')
<1>1. Typed /\ Opener \notin Range(tasks)
  BY OnThread
<1>2. running' = running \ {Opener} /\ tasks' = IF r THEN Append(tasks, Opener) ELSE tasks
  BY DEF Suspend
<1>3. Line(tasks) /\ Opener \in 0 .. Entries
  BY <1>1, Constants DEF Typed
<1>4. /\ Line(Append(tasks, Opener))
      /\ Range(Append(tasks, Opener)) = Range(tasks) \cup {Opener}
  BY <1>1, <1>3, LineGrows
<1>5. Cardinality(running') <= workers /\ running' \in SUBSET (0 .. Entries)
  BY <1>1, <1>2, FewerRun
<1>6. CASE r
  BY <1>1, <1>2, <1>4, <1>5, <1>6
<1>7. CASE ~r
  BY <1>1, <1>2, <1>3, <1>5, <1>7
<1>8. QED
  BY <1>6, <1>7

(* A coroutine that leaves its thread changes nothing for the tasks.       *)
LEMMA SuspendingKeepsOpening ==
  ASSUME Typed, Opening, running' = running \ {Opener}, Range(tasks') \ {Opener} = Range(tasks),
         guards \subseteq guards', UNCHANGED <<future, pending>>
  PROVE  Opening'
<1>1. /\ \A n \in pending : n # Opener
      /\ \A n \in Range(tasks') \ {Opener} : n \in Range(tasks)
      /\ \A n : n # Opener => (n \in running <=> n \in running')
  BY Constants DEF Typed
<1>2. \A n \in Range(tasks') \ {Opener} : n \in guards' /\ n \notin running' /\ future'[n] = "none"
  BY <1>1 DEF Opening
<1>3. \A n \in running' \ {Opener} : n \in guards' /\ future'[n] \in {"none", "checked"}
  BY DEF Opening
<1>4. \A n \in pending' : ~HasResult(n)' => n \in running' \/ n \in Range(tasks')
  BY <1>1 DEF Opening, HasResult
<1>5. QED
  BY <1>2, <1>3, <1>4 DEF Opening

(* The pop: an entry, the end of the entries, or parked.                   *)
LEMMA NextEntryKeepsInvariant ==
  ASSUME IInv, NextEntry
  PROVE  IInv'
<1>1. /\ Opener \in running /\ at = "next"
      /\ UNCHANGED <<workers, regular, arrived, inStatus, waiting, ended, pending, future, ready, next,
                     out, outParked, outStatus, down, packed, slots, slotParked, guards, cancel>>
  BY DEF NextEntry, At, fixed, input, results, output, sems
<1>2. /\ Opener \notin Range(tasks) /\ ~inParked /\ ~outParked /\ ~slotParked
      /\ Typed /\ Turn /\ Untouched /\ Numbered /\ Opening /\ Results /\ Held /\ Emission
      /\ Window /\ Conserved
  BY <1>1, OnThread
<1>3. PICK r \in BOOLEAN :
        /\ Suspend(r) /\ r = ~inParked'
        /\ \/ r /\ arrived > taken /\ taken' = taken + 1 /\ at' = "popped"
           \/ r /\ taken' = taken /\ at' \in {"ended", "error"}
           \/ ~r /\ taken' = taken /\ at' = "next"
  <2>1. CASE arrived > taken /\ taken' = taken + 1 /\ Suspend(TRUE) /\ at' = "popped" /\ inParked' = inParked
    BY <1>2, <2>1
  <2>2. CASE Suspend(TRUE) /\ at' \in {"ended", "error"} /\ UNCHANGED <<taken, inParked>>
    BY <1>2, <2>2
  <2>3. CASE inParked' = TRUE /\ Suspend(FALSE) /\ UNCHANGED <<taken, at>>
    BY <1>1, <2>3
  <2>4. QED
    BY <2>1, <2>2, <2>3 DEF NextEntry
<1>4. /\ Line(tasks') /\ running' = running \ {Opener}
      /\ Cardinality(running') <= workers /\ running' \in SUBSET (0 .. Entries)
      /\ Range(tasks') \ {Opener} = Range(tasks)
      /\ Range(tasks) \subseteq Range(tasks')
      /\ ~r => tasks' = tasks /\ Opener \notin Range(tasks')
  <2>1. r \/ tasks' = tasks
    BY <1>3 DEF Suspend
  <2>2. QED
    BY <1>1, <1>3, <2>1, Suspending
<1>5. /\ taken \in Nat /\ arrived \in Nat /\ taken <= arrived /\ Opener \notin Sequences_
      /\ Sequences_ \subseteq Nat
  BY <1>2, Constants DEF Typed
<1>6. Typed'
  <2>1. taken' \in 0 .. arrived
    BY <1>3, <1>5
  <2>2. at' \in Places
    BY <1>3 DEF Places
  <2>3. QED
    BY <1>1, <1>2, <1>4, <2>1, <2>2 DEF Typed
<1>7. Turn'
  BY <1>1, <1>2, <1>3, <1>4 DEF Turn, Parked, Posted, Over
<1>8. Untouched'
  <2>1. SUFFICES ASSUME NEW n \in Sequences_, Fresh(n)'
                 PROVE  n > taken /\ (at' # "slot" /\ n \notin running' /\ n \notin Range(tasks'))
    BY <1>1, <1>2, <1>5 DEF Untouched, Fresh
  <2>2. n > taken
    BY <1>1, <1>3, <1>5, <2>1 DEF Fresh
  <2>3. n \notin running /\ n \notin Range(tasks) /\ n # Opener
    BY <1>2, <1>5, <2>2 DEF Untouched, Fresh
  <2>4. QED
    BY <1>3, <1>4, <2>2, <2>3
<1>9. Numbered'
  <2>1. next \in Nat /\ next <= taken + 1
    BY <1>2, Constants DEF Numbered, Typed
  <2>2. next <= taken' + 1 /\ (at' = "popped" => next <= taken') /\ at' \notin {"checked", "slot"}
    BY <1>3, <1>5, <2>1
  <2>3. QED
    BY <1>1, <1>2, <2>2 DEF Numbered
<1>10. Opening'
  BY <1>1, <1>2, <1>4, SuspendingKeepsOpening
<1>11. Results'
  BY <1>1, <1>2 DEF Results, Opened, ParkedFile
<1>12. Held'
  <2>1. SUFFICES ASSUME NEW n \in guards PROVE Holder(n)'
    BY <1>1 DEF Held
  <2>2. n # Opener /\ Holder(n)
    BY <1>2, <1>5, <2>1 DEF Held, Typed
  <2>3. QED
    BY <1>1, <1>2, <1>4, <2>2 DEF Holder
<1>13. Emission' /\ Window' /\ Conserved'
  BY <1>1, <1>2, <1>3 DEF Emission, Window, Conserved, Over
<1>14. QED
  BY <1>6, <1>7, <1>8, <1>9, <1>10, <1>11, <1>12, <1>13 DEF IInv

(* The check of the cancel event after the pop.                            *)
LEMMA CheckEntryKeepsInvariant ==
  ASSUME IInv, CheckEntry
  PROVE  IInv'
<1>1. /\ Opener \in running /\ at = "popped" /\ UNCHANGED <<fixed, input, taken, cancel>>
  BY DEF CheckEntry, At
<1>2. CASE Throw
  BY <1>1, <1>2, ThrowKeepsInvariant
<1>3. CASE ~Throw
  <2>1. /\ at' = "checked"
        /\ UNCHANGED <<workers, regular, arrived, inStatus, taken, cancel, running, tasks, inParked,
                       waiting, ended, pending, future, ready, next, out, outParked, outStatus, down,
                       packed, slots, slotParked, guards>>
    BY <1>1, <1>3 DEF CheckEntry, fixed, input, results, output, sems
  <2>2. /\ Opener \notin Range(tasks) /\ ~inParked /\ ~outParked /\ ~slotParked
        /\ Typed /\ Turn /\ Untouched /\ Numbered /\ Opening /\ Results /\ Held /\ Emission
        /\ Window /\ Conserved
    BY <1>1, OnThread
  <2>3. Typed' /\ Turn'
    BY <1>1, <2>1, <2>2 DEF Typed, Turn, Parked, Posted, Over, Places
  <2>4. Untouched' /\ Numbered'
    BY <1>1, <2>1, <2>2 DEF Untouched, Fresh, Numbered
  <2>5. Opening' /\ Results' /\ Held'
    BY <1>1, <2>1, <2>2 DEF Opening, HasResult, Results, Opened, ParkedFile, Held, Holder
  <2>6. Emission' /\ Window' /\ Conserved'
    BY <1>1, <2>1, <2>2 DEF Emission, Window, Conserved, Over
  <2>7. QED
    BY <2>3, <2>4, <2>5, <2>6 DEF IInv
<1>4. QED
  BY <1>2, <1>3

(* An entry is ready as it is, or waits for its permit.                    *)
LEMMA TakeEntryKeepsInvariant ==
  ASSUME IInv, TakeEntry
  PROVE  IInv'
<1>1. /\ Opener \in running /\ at = "checked"
      /\ UNCHANGED <<workers, regular, arrived, inStatus, taken, inParked, ended, pending, future, next,
                     out, outParked, outStatus, down, packed, cancel>>
  BY DEF TakeEntry, At, fixed, input, output
<1>2. /\ Opener \notin Range(tasks) /\ ~inParked /\ ~outParked /\ ~slotParked
      /\ Typed /\ Turn /\ Untouched /\ Numbered /\ Opening /\ Results /\ Held /\ Emission
      /\ Window /\ Conserved
  BY <1>1, OnThread
<1>3. /\ taken \in Sequences_ /\ taken \notin ready /\ taken \notin pending /\ taken \notin guards
      /\ Fresh(taken) /\ future[taken] = "none" /\ next <= taken /\ tasks = <<>>
      /\ taken \notin running /\ taken \notin Range(tasks)
  <2>1. taken \in Nat /\ taken <= Entries /\ next <= taken /\ next \in 1 .. Entries + 1 /\ Entries \in Nat
    BY <1>1, <1>2, Constants DEF Typed, Numbered
  <2>2. taken \in Sequences_
    BY <2>1 DEF Sequences_
  <2>3. Fresh(taken) /\ at # "slot"
    BY <1>1 DEF Fresh
  <2>4. QED
    BY <1>1, <1>2, <2>1, <2>2, <2>3 DEF Untouched, Turn
<1>4. taken \in Nat /\ Sequences_ \subseteq Nat /\ Opener \notin Sequences_ /\ slots \in Nat
  BY <1>3, Constants, <1>2 DEF Typed
<1>5. CASE taken \notin regular
  <2>1. /\ ready' = ready \cup {taken} /\ at' = "emit" /\ waiting' = FALSE
        /\ UNCHANGED <<running, tasks, slots, slotParked, guards>>
    BY <1>5 DEF TakeEntry, sems
  <2>2. Typed' /\ Turn'
    BY <1>1, <1>2, <1>3, <2>1 DEF Typed, Turn, Parked, Posted, Over, Places
  <2>3. Untouched'
    BY <1>1, <1>2, <1>3, <1>4, <2>1 DEF Untouched, Fresh
  <2>4. Numbered'
    BY <1>1, <1>2, <1>3, <2>1 DEF Numbered
  <2>5. Opening' /\ Results'
    BY <1>1, <1>2, <1>5, <2>1 DEF Opening, HasResult, Results, Opened, ParkedFile
  <2>6. Held'
    BY <1>1, <1>2, <2>1 DEF Held, Holder, ParkedFile
  <2>7. Emission' /\ Window' /\ Conserved'
    BY <1>1, <1>2, <2>1 DEF Emission, Window, Conserved, Over
  <2>8. QED
    BY <2>2, <2>3, <2>4, <2>5, <2>6, <2>7 DEF IInv
<1>6. CASE taken \in regular
  <2>1. PICK r \in BOOLEAN :
          /\ Suspend(r) /\ UNCHANGED <<ready, waiting>>
          /\ \/ r /\ at' = "error" /\ UNCHANGED <<slots, slotParked, guards>>
             \/ /\ r /\ at' = "slot" /\ slots > 0 /\ slots' = slots - 1
                /\ guards' = guards \cup {taken} /\ slotParked' = slotParked
             \/ /\ ~r /\ at' = "slot" /\ slots = 0 /\ slotParked' = TRUE
                /\ UNCHANGED <<slots, guards>>
    <3>1. \/ at' = "error" /\ Suspend(TRUE) /\ UNCHANGED <<ready, waiting, slots, slotParked, guards>>
          \/ /\ slots > 0 /\ slots' = slots - 1 /\ guards' = guards \cup {taken} /\ at' = "slot"
             /\ Suspend(TRUE) /\ UNCHANGED <<ready, waiting, slotParked>>
          \/ /\ slots = 0 /\ slotParked' = TRUE /\ at' = "slot" /\ Suspend(FALSE)
             /\ UNCHANGED <<ready, waiting, slots, guards>>
      BY <1>6, Zenon DEF TakeEntry, sems
    <3>2. TRUE \in BOOLEAN /\ FALSE \in BOOLEAN
      OBVIOUS
    <3>3. QED
      BY <3>1, <3>2, Zenon
  <2>2. /\ Line(tasks') /\ running' = running \ {Opener}
        /\ Cardinality(running') <= workers /\ running' \in SUBSET (0 .. Entries)
        /\ Range(tasks') \ {Opener} = Range(tasks)
        /\ Range(tasks) \subseteq Range(tasks')
        /\ ~r => tasks' = tasks /\ Opener \notin Range(tasks')
    <3>1. r \/ tasks' = tasks
      BY <2>1 DEF Suspend
    <3>2. QED
      BY <1>1, <2>1, <3>1, Suspending
  <2>3. /\ guards' \in {guards, guards \cup {taken}} /\ guards \subseteq guards'
        /\ taken \in guards' <=> (at' = "slot" /\ ~slotParked')
    BY <1>2, <1>3, <2>1
  <2>4. slots' \in Nat /\ slots' + Cardinality(guards') = Concurrency /\ guards' \in SUBSET regular
    <3>1. Cardinality(guards \cup {taken}) = Cardinality(guards) + 1
      BY <1>2, <1>3, GuardsAreFinite, FS_AddElement
    <3>2. Cardinality(guards) \in Nat /\ Concurrency \in Nat /\ slots + Cardinality(guards) = Concurrency
      BY <1>2, GuardsAreFinite, Constants DEF Conserved
    <3>3. slots' \in Nat /\ slots' + Cardinality(guards') = Concurrency
      BY <1>4, <2>1, <3>1, <3>2
    <3>4. guards' \in SUBSET regular
      BY <1>2, <1>6, <2>3 DEF Typed
    <3>5. QED
      BY <3>3, <3>4
  <2>5. Typed'
    <3>1. at' \in Places
      BY <2>1 DEF Places
    <3>2. QED
      BY <1>1, <1>2, <2>1, <2>2, <2>4, <3>1 DEF Typed
  <2>6. Turn'
    BY <1>1, <1>2, <2>1, <2>2 DEF Turn, Parked, Posted, Over
  <2>7. Untouched'
    <3>1. SUFFICES ASSUME NEW n \in Sequences_, Fresh(n)'
                   PROVE  /\ Fresh(n) /\ n \notin running' /\ n \notin Range(tasks')
                          /\ (n \in guards' => n = taken /\ at' = "slot" /\ ~slotParked')
      BY <1>1, <1>2, <2>1 DEF Untouched
    <3>2. Fresh(n) /\ n # Opener
      BY <1>1, <1>4, <3>1 DEF Fresh
    <3>3. n \notin running /\ n \notin Range(tasks) /\ n \notin guards
      BY <1>1, <1>2, <3>2 DEF Untouched
    <3>4. QED
      BY <2>2, <2>3, <3>2, <3>3
  <2>8. Numbered'
    BY <1>1, <1>2, <1>3, <1>6, <2>1, <2>3 DEF Numbered
  <2>9. Opening'
    BY <1>1, <1>2, <2>2, <2>3, SuspendingKeepsOpening
  <2>10. Results'
    BY <1>1, <1>2, <2>1 DEF Results, Opened, ParkedFile
  <2>11. Held'
    <3>1. SUFFICES ASSUME NEW n \in guards' PROVE Holder(n)'
      BY DEF Held
    <3>2. CASE n = taken
      BY <1>1, <2>3, <3>1, <3>2 DEF Holder
    <3>3. CASE n # taken
      <4>1. n \in guards /\ n # Opener
        BY <1>2, <1>4, <2>3, <3>1, <3>3 DEF Typed
      <4>2. Holder(n)
        BY <1>2, <4>1 DEF Held
      <4>3. QED
        BY <1>1, <1>2, <2>1, <2>2, <4>1, <4>2 DEF Holder
    <3>4. QED
      BY <3>2, <3>3
  <2>12. Emission' /\ Window' /\ Conserved'
    BY <1>1, <1>2, <2>1, <2>4 DEF Emission, Window, Conserved, Over
  <2>13. QED
    BY <2>5, <2>6, <2>7, <2>8, <2>9, <2>10, <2>11, <2>12 DEF IInv
<1>7. QED
  BY <1>5, <1>6

(* The task that opens the file goes to the end of the line.               *)
LEMMA SubmitKeepsInvariant ==
  ASSUME IInv, Submit
  PROVE  IInv'
<1>1. /\ Opener \in running /\ at = "slot" /\ at' = "emit"
      /\ tasks' = Append(tasks, taken) /\ pending' = pending \cup {taken}
      /\ UNCHANGED <<workers, regular, running, arrived, inStatus, taken, inParked, ended, future, ready,
                     next, out, outParked, outStatus, down, packed, slots, slotParked, guards, cancel>>
  BY DEF Submit, At, fixed, input, output, sems
<1>2. /\ Opener \notin Range(tasks) /\ ~inParked /\ ~outParked /\ ~slotParked
      /\ Typed /\ Turn /\ Untouched /\ Numbered /\ Opening /\ Results /\ Held /\ Emission
      /\ Window /\ Conserved
  BY <1>1, OnThread
<1>3. /\ taken \in regular /\ taken \in guards /\ taken \in Sequences_ /\ taken # Opener
      /\ taken \in 0 .. Entries /\ Fresh(taken) /\ next <= taken
  BY <1>1, <1>2, Constants DEF Numbered, Typed, Fresh
<1>4. /\ future[taken] = "none" /\ taken \notin pending /\ taken \notin ready /\ taken \notin running
      /\ taken \notin Range(tasks)
  BY <1>2, <1>3 DEF Untouched
<1>5. Line(tasks') /\ Range(tasks') = Range(tasks) \cup {taken}
  BY <1>1, <1>2, <1>3, <1>4, LineGrows DEF Typed
<1>6. Typed'
  BY <1>1, <1>2, <1>3, <1>5 DEF Typed, Places
<1>7. Turn'
  <2>1. tasks = <<>> /\ ~ended
    BY <1>1, <1>2 DEF Turn
  <2>2. tasks' = <<taken>>
    BY <1>1, <2>1
  <2>3. QED
    BY <1>1, <1>2, <1>3, <1>5, <2>1, <2>2 DEF Turn, Parked, Posted, Over
<1>8. Untouched'
  <2>1. SUFFICES ASSUME NEW n \in Sequences_, Fresh(n)' PROVE n # taken /\ Fresh(n)
    BY <1>1, <1>2, <1>5 DEF Untouched, Fresh
  <2>2. taken \in Nat
    BY <1>3, Constants
  <2>3. QED
    BY <1>1, <2>1, <2>2 DEF Fresh
<1>9. Numbered'
  BY <1>1, <1>2, <1>3, <1>4 DEF Numbered
<1>10. Opening'
  BY <1>1, <1>2, <1>3, <1>4, <1>5 DEF Opening, HasResult
<1>11. Results'
  BY <1>1, <1>2 DEF Results, Opened, ParkedFile
<1>12. Held'
  BY <1>1, <1>2, <1>5 DEF Held, Holder, ParkedFile
<1>13. Emission' /\ Window' /\ Conserved'
  BY <1>1, <1>2 DEF Emission, Window, Conserved, Over
<1>14. QED
  BY <1>6, <1>7, <1>8, <1>9, <1>10, <1>11, <1>12, <1>13 DEF IInv

(* The next result in order goes to out_opened, or into its waiting push,  *)
(* or is lost because the queue was abandoned.                             *)
LEMMA EmitReadyKeepsInvariant ==
  ASSUME IInv, EmitReady
  PROVE  IInv'
<1>1. /\ Opener \in running /\ at = "emit" /\ next \in ready
      /\ ready' = ready \ {next} /\ next' = next + 1
      /\ UNCHANGED <<workers, regular, arrived, inStatus, taken, inParked, waiting, ended, pending, future,
                     outStatus, down, packed, cancel>>
  BY DEF EmitReady, At, fixed, input
<1>2. /\ Opener \notin Range(tasks) /\ ~inParked /\ ~outParked /\ ~slotParked
      /\ Typed /\ Turn /\ Untouched /\ Numbered /\ Opening /\ Results /\ Held /\ Emission
      /\ Window /\ Conserved
  BY <1>1, OnThread
<1> DEFINE freed == {next} \cap guards
<1>3. PICK r \in BOOLEAN :
        /\ Suspend(r)
        /\ \/ /\ r /\ outStatus = "Open" /\ Len(out) < OutCapacity /\ out' = Append(out, next)
              /\ UNCHANGED <<at, outParked, slots, slotParked, guards>>
           \/ /\ ~r /\ outStatus = "Open" /\ outParked' = TRUE
              /\ UNCHANGED <<at, out, slots, slotParked, guards>>
           \/ /\ r /\ outStatus # "Open" /\ at' = "error" /\ Free(freed) /\ UNCHANGED <<out, outParked>>
  <2>1. TRUE \in BOOLEAN /\ FALSE \in BOOLEAN
    OBVIOUS
  <2>2. QED
    BY <2>1, Zenon DEF EmitReady, sems
<1>4. /\ Line(tasks') /\ running' = running \ {Opener}
      /\ Cardinality(running') <= workers /\ running' \in SUBSET (0 .. Entries)
      /\ Range(tasks') \ {Opener} = Range(tasks)
      /\ Range(tasks) \subseteq Range(tasks')
      /\ ~r => tasks' = tasks /\ Opener \notin Range(tasks')
  <2>1. r \/ tasks' = tasks
    BY <1>3 DEF Suspend
  <2>2. QED
    BY <1>1, <1>3, <2>1, Suspending
<1>5. /\ next \in Sequences_ /\ next \notin pending /\ next # Opener /\ Opened(next) /\ ~Fresh(next)
      /\ next <= taken /\ next \in Nat /\ taken \in Nat /\ Entries \in Nat /\ next <= Entries
  <2>1. next \in Sequences_ /\ next \notin pending /\ next # Opener /\ Opened(next) /\ ~Fresh(next)
    BY <1>1, <1>2, Constants DEF Typed, Numbered, Results, Untouched
  <2>2. taken \in Nat /\ Entries \in Nat
    BY <1>2, Constants DEF Typed
  <2>3. next \in Nat /\ next <= Entries /\ next <= taken
    BY <2>1, <2>2 DEF Fresh, Sequences_
  <2>4. QED
    BY <2>1, <2>2, <2>3
<1>6. /\ guards' \subseteq guards /\ (guards' = guards \/ (guards' = guards \ {next} /\ at' = "error"))
      /\ guards' \in SUBSET regular /\ slots' \in Nat /\ ~slotParked'
      /\ slots' + Cardinality(guards') = Concurrency
  <2>1. CASE UNCHANGED <<slots, slotParked, guards>>
    BY <1>2, <2>1 DEF Typed, Conserved
  <2>2. CASE Free(freed) /\ at' = "error"
    <3>1. freed \in SUBSET guards /\ Woken(freed) = {} /\ guards \ freed = guards \ {next}
      BY <1>2 DEF Woken, Resumes
    <3> HIDE DEF freed
    <3>2. /\ guards' = guards \ {next} /\ guards' \in SUBSET regular /\ slots' \in Nat
          /\ slots' + Cardinality(guards') = Concurrency /\ ~slotParked'
      BY <1>2, <2>2, <3>1, Freeing
    <3>3. QED
      BY <2>2, <3>2
  <2>3. QED
    BY <1>3, <2>1, <2>2
<1>7. at' \in {"emit", "error"} /\ (outParked' => ~r /\ at' = "emit") /\ (outStatus = "Open" => at' = "emit")
      /\ inParked' = inParked
  BY <1>1, <1>2, <1>3
<1>8. out' = out \/ (out' = Append(out, next) /\ Len(out) < OutCapacity)
  BY <1>3
<1>9. /\ out \in Seq(Sequences_) /\ out' \in Seq(Sequences_) /\ Len(out') <= OutCapacity
      /\ Range(out) \subseteq Range(out') /\ Range(out') \subseteq Range(out) \cup {next}
  <2>1. out \in Seq(Sequences_) /\ Len(out) \in Nat /\ Len(out) <= OutCapacity /\ OutCapacity \in Nat
    BY <1>2, Constants DEF Typed
  <2>2. Append(out, next) \in Seq(Sequences_) /\ Len(Append(out, next)) = Len(out) + 1
    BY <1>5, <2>1
  <2>3. Range(Append(out, next)) = Range(out) \cup {next}
    BY <2>1, RangeOfAppend
  <2>4. CASE out' = out
    BY <2>1, <2>4
  <2>5. CASE out' = Append(out, next) /\ Len(out) < OutCapacity
    <3>1. Len(out) + 1 <= OutCapacity
      BY <2>1, <2>5
    <3>2. QED
      BY <2>1, <2>2, <2>3, <2>5, <3>1
  <2>6. QED
    BY <1>8, <2>4, <2>5
<1>10. Typed'
  <2>1. next' \in 1 .. Entries + 1 /\ ready' \in SUBSET Sequences_ /\ at' \in Places
    BY <1>1, <1>2, <1>5, <1>7 DEF Typed, Places
  <2>2. QED
    BY <1>1, <1>2, <1>4, <1>6, <1>9, <2>1 DEF Typed
<1>11. Turn'
  BY <1>1, <1>2, <1>3, <1>4, <1>6, <1>7 DEF Turn, Parked, Posted, Over
<1>12. Untouched'
  <2>1. SUFFICES ASSUME NEW n \in Sequences_, Fresh(n)'
                 PROVE  /\ Fresh(n) /\ n \notin running' /\ n \notin Range(tasks') /\ n \notin guards'
    BY <1>1, <1>2 DEF Untouched
  <2>2. n > taken /\ n # Opener
    BY <1>1, <1>7, <2>1, Constants DEF Fresh
  <2>3. n \notin running /\ n \notin Range(tasks) /\ n \notin guards
    BY <1>1, <1>2, <2>1, <2>2 DEF Untouched, Fresh
  <2>4. QED
    BY <1>4, <1>6, <2>2, <2>3 DEF Fresh
<1>13. Numbered'
  <2>1. \A n \in pending' \cup ready' : next' <= n
    <3>1. \A n \in pending \cup ready : n # next => next + 1 <= n
      <4>1. \A n \in pending \cup ready : n \in Nat /\ next <= n
        BY <1>2, Constants DEF Numbered, Typed
      <4>2. QED
        BY <1>5, <4>1
    <3>2. QED
      BY <1>1, <1>5, <3>1
  <2>2. next' <= taken' + 1
    BY <1>1, <1>5
  <2>3. QED
    BY <1>1, <1>2, <1>7, <2>1, <2>2 DEF Numbered
<1>14. Opening'
  <2>1. ASSUME NEW n \in Range(tasks) \cup running, n # Opener PROVE n \in guards'
    <3>1. n \in guards /\ future[n] \in {"none", "checked"} /\ n \in regular
      BY <1>2, <2>1 DEF Opening, Typed
    <3>2. n # next
      BY <1>5, <3>1 DEF Opened
    <3>3. QED
      BY <1>6, <3>1, <3>2
  <2>2. \A n \in pending : n # Opener
    BY <1>2, Constants DEF Typed
  <2>3. \A n \in Range(tasks') \ {Opener} : n \in guards' /\ n \notin running' /\ future'[n] = "none"
    BY <1>1, <1>2, <1>4, <2>1 DEF Opening
  <2>4. \A n \in running' \ {Opener} : n \in guards' /\ future'[n] \in {"none", "checked"}
    BY <1>1, <1>2, <1>4, <2>1 DEF Opening
  <2>5. \A n \in pending' : ~HasResult(n)' => n \in running' \/ n \in Range(tasks')
    BY <1>1, <1>2, <1>4, <2>2 DEF Opening, HasResult
  <2>6. QED
    BY <2>3, <2>4, <2>5 DEF Opening
<1>15. Results'
  <2>1. ParkedFile' = next
    BY <1>1, <1>5 DEF ParkedFile
  <2>2. \A n : Opened(n)' = Opened(n)
    BY <1>1 DEF Opened
  <2>3. QED
    BY <1>1, <1>2, <1>5, <1>9, <2>1, <2>2 DEF Results
<1>16. Held'
  <2>1. SUFFICES ASSUME NEW n \in guards' PROVE Holder(n)'
    BY DEF Held
  <2>2. n \in guards /\ n # Opener /\ Holder(n)
    BY <1>2, <1>6, Constants DEF Held, Typed
  <2>3. CASE n = next
    <3>1. guards' = guards
      BY <1>6, <2>1, <2>3
    <3>2. next \in Range(out') \/ (outParked' /\ ParkedFile' = next)
      <4>1. CASE outStatus = "Open" /\ out' = Append(out, next)
        <5>1. out \in Seq(Sequences_)
          BY <1>2 DEF Typed
        <5>2. QED
          BY <4>1, <5>1, RangeOfAppend
      <4>2. CASE outParked'
        BY <1>1, <1>5, <4>2 DEF ParkedFile
      <4>3. CASE Free(freed) /\ at' = "error"
        <5>1. freed \in SUBSET guards /\ Woken(freed) = {} /\ guards \ freed = guards \ {next}
          BY <1>2 DEF Woken, Resumes
        <5> HIDE DEF freed
        <5>2. guards' = guards \ {next}
          BY <1>2, <4>3, <5>1, Freeing
        <5>3. QED
          BY <2>1, <2>3, <5>2
      <4>4. QED
        BY <1>3, <4>1, <4>2, <4>3
    <3>3. QED
      BY <2>3, <3>2 DEF Holder
  <2>4. CASE n # next
    BY <1>1, <1>2, <1>4, <1>9, <2>2, <2>4 DEF Holder
  <2>5. QED
    BY <2>3, <2>4
<1>17. Emission'
  <2>1. /\ packed \in Nat /\ Len(down) \in Nat /\ Len(out) \in Nat /\ out \in Seq(Sequences_)
        /\ packed + Len(down) + Len(out) < next
        /\ outStatus # "Abandoned" => packed + Len(down) + Len(out) + 1 = next
    BY <1>2 DEF Emission, Typed
  <2>2. CASE outStatus = "Open" /\ out' = Append(out, next) /\ outParked' = outParked
    <3>1. /\ Len(out') = Len(out) + 1 /\ out'[Len(out) + 1] = next
          /\ \A i \in 1 .. Len(out) : out'[i] = out[i]
      BY <2>1, <2>2
    <3>2. \A i \in 1 .. Len(out) + 1 : i \in 1 .. Len(out) \/ i = Len(out) + 1
      BY <2>1
    <3>3. next = packed + Len(down) + (Len(out) + 1)
      BY <1>5, <2>1, <2>2
    <3>4. \A i \in 1 .. Len(out') : out'[i] = packed + Len(down) + i
      BY <1>2, <3>1, <3>2, <3>3 DEF Emission
    <3>5. packed + Len(down) + Len(out') + 1 = next'
      BY <1>1, <1>5, <2>1, <3>1, <3>3
    <3>6. packed + Len(down) + Len(out') + 0 < next' /\ packed + Len(down) + Len(out') + 0 + 1 = next'
      BY <1>1, <1>5, <2>1, <3>1, <3>5
    <3>7. QED
      BY <1>1, <1>2, <1>7, <2>2, <3>4, <3>6 DEF Emission
  <2>3. CASE outStatus = "Open" /\ out' = out /\ outParked'
    <3>1. packed + Len(down) + Len(out) + 1 < next' /\ packed + Len(down) + Len(out) + 1 + 1 = next'
      BY <1>1, <1>5, <2>1, <2>3
    <3>2. QED
      BY <1>1, <1>2, <2>3, <3>1 DEF Emission
  <2>4. CASE outStatus # "Open" /\ UNCHANGED <<out, outParked>>
    <3>1. outStatus = "Abandoned"
      BY <1>1, <1>2, <2>4 DEF Emission, Over, Typed, Statuses
    <3>2. packed + Len(down) + Len(out) + 0 < next'
      BY <1>1, <1>5, <2>1
    <3>3. QED
      BY <1>1, <1>2, <2>4, <3>1, <3>2 DEF Emission
  <2>5. QED
    BY <1>2, <1>3, <2>2, <2>3, <2>4
<1>18. Window' /\ Conserved'
  BY <1>1, <1>2, <1>6, <1>7 DEF Window, Conserved, Over
<1>19. QED
  BY <1>10, <1>11, <1>12, <1>13, <1>14, <1>15, <1>16, <1>17, <1>18 DEF IInv

(* The next result is there: it is collected, or its failure rethrown.     *)
LEMMA CollectFutureKeepsInvariant ==
  ASSUME IInv, CollectFuture
  PROVE  IInv'
<1>1. /\ Opener \in running /\ at = "emit" /\ next \notin ready /\ next \in pending
      /\ UNCHANGED <<fixed, input, taken, cancel>>
  BY DEF CollectFuture, At
<1>2. CASE Throw
  BY <1>1, <1>2, ThrowKeepsInvariant
<1>3. CASE ~Throw
  <2>1. /\ future[next] = "ok" /\ pending' = pending \ {next} /\ ready' = ready \cup {next}
        /\ UNCHANGED <<workers, regular, arrived, inStatus, taken, cancel, tasks, running, inParked, at,
                       waiting, ended, future, next, out, outParked, outStatus, down, packed, slots,
                       slotParked, guards>>
    BY <1>1, <1>3 DEF CollectFuture, fixed, input, output, sems
  <2>2. /\ Opener \notin Range(tasks) /\ ~inParked /\ ~outParked /\ ~slotParked
        /\ Typed /\ Turn /\ Untouched /\ Numbered /\ Opening /\ Results /\ Held /\ Emission
        /\ Window /\ Conserved
    BY <1>1, OnThread
  <2>3. Typed' /\ Turn'
    BY <1>1, <2>1, <2>2 DEF Typed, Turn, Parked, Posted, Over
  <2>4. Untouched' /\ Numbered'
    BY <1>1, <2>1, <2>2 DEF Untouched, Fresh, Numbered
  <2>5. Opening' /\ Results'
    BY <1>1, <2>1, <2>2 DEF Opening, HasResult, Results, Opened, ParkedFile
  <2>6. Held'
    BY <1>1, <2>1, <2>2 DEF Held, Holder, ParkedFile
  <2>7. Emission' /\ Window' /\ Conserved'
    BY <1>1, <2>1, <2>2 DEF Emission, Window, Conserved, Over
  <2>8. QED
    BY <2>3, <2>4, <2>5, <2>6, <2>7 DEF IInv
<1>4. QED
  BY <1>2, <1>3

(* emit_ready returns: another turn, the next entry, or the end.           *)
LEMMA EmitDoneKeepsInvariant ==
  ASSUME IInv, EmitDone
  PROVE  IInv'
<1>1. /\ Opener \in running /\ at = "emit" /\ NothingToEmit
      /\ UNCHANGED <<workers, regular, tasks, arrived, inStatus, taken, inParked, ended, pending, future,
                     ready, next, out, outParked, down, packed, slots, slotParked, guards, cancel>>
  BY DEF EmitDone, At, fixed, input, results, sems
<1>2. /\ Opener \notin Range(tasks) /\ ~inParked /\ ~outParked /\ ~slotParked
      /\ Typed /\ Turn /\ Untouched /\ Numbered /\ Opening /\ Results /\ Held /\ Emission
      /\ Window /\ Conserved
  BY <1>1, OnThread
<1>3. \/ UNCHANGED <<at, running, outStatus>>
      \/ /\ at' = "finished" /\ running' = running \ {Opener} /\ pending \cup ready = {}
         /\ outStatus' = IF outStatus = "Open" THEN "Closed" ELSE outStatus
      \/ /\ at' = "next" /\ ~ended /\ ~TooManyPending /\ UNCHANGED <<running, outStatus>>
  BY <1>1 DEF EmitDone
<1>4. CASE UNCHANGED <<at, running, outStatus>>
  <2>1. Typed' /\ Turn' /\ Untouched' /\ Numbered'
    BY <1>1, <1>2, <1>4 DEF Typed, Turn, Parked, Posted, Over, Untouched, Fresh, Numbered
  <2>2. Opening' /\ Results' /\ Held'
    BY <1>1, <1>2, <1>4 DEF Opening, HasResult, Results, Opened, ParkedFile, Held, Holder
  <2>3. Emission' /\ Window' /\ Conserved'
    BY <1>1, <1>2, <1>4 DEF Emission, Window, Conserved, Over
  <2>4. QED
    BY <2>1, <2>2, <2>3 DEF IInv
<1>5. CASE /\ at' = "finished" /\ running' = running \ {Opener} /\ pending \cup ready = {}
           /\ outStatus' = IF outStatus = "Open" THEN "Closed" ELSE outStatus
  <2>1. Typed'
    BY <1>1, <1>2, <1>5, FewerRun DEF Typed, Places, Statuses
  <2>2. Turn' /\ Untouched' /\ Numbered'
    BY <1>1, <1>2, <1>5 DEF Turn, Parked, Posted, Over, Untouched, Fresh, Numbered
  <2>3. Opening'
    BY <1>1, <1>2, <1>5 DEF Opening, HasResult
  <2>4. Results'
    BY <1>1, <1>2, <1>5 DEF Results, Opened, ParkedFile
  <2>5. Held'
    <3>1. Opener \notin guards
      BY <1>2, Constants DEF Typed
    <3>2. QED
      BY <1>1, <1>2, <1>5, <3>1 DEF Held, Holder, ParkedFile
  <2>6. Emission' /\ Window' /\ Conserved'
    BY <1>1, <1>2, <1>5 DEF Emission, Window, Conserved, Over
  <2>7. QED
    BY <2>1, <2>2, <2>3, <2>4, <2>5, <2>6 DEF IInv
<1>6. CASE at' = "next" /\ ~ended /\ ~TooManyPending /\ UNCHANGED <<running, outStatus>>
  <2>1. Typed' /\ Turn'
    BY <1>1, <1>2, <1>6 DEF Typed, Turn, Parked, Posted, Over, Places
  <2>2. Untouched' /\ Numbered'
    BY <1>1, <1>2, <1>6 DEF Untouched, Fresh, Numbered
  <2>3. Opening' /\ Held'
    BY <1>1, <1>2, <1>6 DEF Opening, HasResult, Held, Holder, ParkedFile
  <2>4. Results'
    BY <1>1, <1>2, <1>6 DEF Results, Opened, ParkedFile, NothingToEmit
  <2>5. Cardinality(pending) < Concurrency
    <3>1. Cardinality(pending) \in Nat /\ Concurrency \in Nat
      BY <1>2, GuardsAreFinite, Constants
    <3>2. QED
      BY <1>6, <3>1 DEF TooManyPending
  <2>6. Emission' /\ Window' /\ Conserved'
    BY <1>1, <1>2, <1>6, <2>5 DEF Emission, Window, Conserved, Over
  <2>7. QED
    BY <2>1, <2>2, <2>3, <2>4, <2>6 DEF IInv
<1>7. QED
  BY <1>3, <1>4, <1>5, <1>6

(* The end of the entries.                                                 *)
LEMMA DrainRestKeepsInvariant ==
  ASSUME IInv, DrainRest
  PROVE  IInv'
<1>1. /\ Opener \in running /\ at = "ended" /\ ended' = TRUE /\ at' = "emit"
      /\ UNCHANGED <<workers, regular, tasks, running, arrived, inStatus, taken, inParked, pending, future,
                     ready, next, out, outParked, outStatus, down, packed, slots, slotParked, guards, cancel>>
  BY DEF DrainRest, At, fixed, input, results, output, sems
<1>2. /\ Opener \notin Range(tasks) /\ ~inParked /\ ~outParked /\ ~slotParked
      /\ Typed /\ Turn /\ Untouched /\ Numbered /\ Opening /\ Results /\ Held /\ Emission
      /\ Window /\ Conserved
  BY <1>1, OnThread
<1>3. Typed' /\ Turn' /\ Untouched' /\ Numbered'
  BY <1>1, <1>2 DEF Typed, Turn, Parked, Posted, Over, Places, Untouched, Fresh, Numbered
<1>4. Opening' /\ Results' /\ Held'
  BY <1>1, <1>2 DEF Opening, HasResult, Results, Opened, ParkedFile, Held, Holder
<1>5. Emission' /\ Window' /\ Conserved'
  BY <1>1, <1>2 DEF Emission, Window, Conserved, Over
<1>6. QED
  BY <1>3, <1>4, <1>5 DEF IInv

(* All steps of the coroutine.                                             *)
LEMMA OpenerKeepsInvariant ==
  ASSUME IInv, OpenerStep
  PROVE  IInv'
<1>1. CASE OperationFailed
  BY <1>1, ThrowKeepsInvariant DEF OperationFailed, At
<1>2. QED
  BY <1>1, NextEntryKeepsInvariant, CheckEntryKeepsInvariant, TakeEntryKeepsInvariant,
     SubmitKeepsInvariant, EmitReadyKeepsInvariant, CollectFutureKeepsInvariant,
     EmitDoneKeepsInvariant, DrainRestKeepsInvariant DEF OpenerStep

(***************************************************************************)
(* Steps of the tasks and of the stages around.                            *)
(***************************************************************************)
LEMMA Parts ==
  ASSUME IInv
  PROVE  /\ Typed /\ Turn /\ Untouched /\ Numbered /\ Opening /\ Results /\ Held /\ Emission
         /\ Window /\ Conserved
         /\ guards \subseteq regular /\ regular \subseteq Sequences_ /\ pending \subseteq Sequences_
         /\ Opener \notin Sequences_ /\ Sequences_ \subseteq Nat
         /\ taken \in Nat /\ next \in Nat /\ Entries \in Nat
BY Constants DEF IInv, Typed

(* The coroutine, parked, is posted.                                       *)
LEMMA Posting ==
  ASSUME IInv, Parked, tasks' = Append(tasks, Opener)
  PROVE  /\ Line(tasks') /\ Range(tasks') = Range(tasks) \cup {Opener}
         /\ Opener \notin running /\ Opener \notin Range(tasks)
<1>1. Line(tasks) /\ Opener \notin running /\ Opener \notin Range(tasks) /\ Opener \in 0 .. Entries
  BY Constants DEF IInv, Typed, Turn, Posted
<1>2. QED
  BY <1>1, LineGrows

(* Posting the coroutine changes nothing for the tasks.                    *)
LEMMA PostedKeepsOpening ==
  ASSUME Typed, Opening, Range(tasks') \ {Opener} = Range(tasks) \ {Opener},
         UNCHANGED <<running, guards, future, pending>>
  PROVE  Opening'
<1>1. Opener \notin pending
  BY Constants DEF Typed
<1>2. \A n : n # Opener => (n \in Range(tasks) <=> n \in Range(tasks'))
  OBVIOUS
<1>3. QED
  BY <1>1, <1>2 DEF Opening, HasResult

(* Permits come back while the coroutine stays where it is, unless it is   *)
(* the one they go to.                                                     *)
LEMMA FreeingPosts ==
  ASSUME IInv, NEW freed \in SUBSET guards, FreeAndPost(freed)
  PROVE  /\ guards' = (guards \ freed) \cup Woken(freed)
         /\ guards' \in SUBSET regular /\ slots' \in Nat
         /\ slots' + Cardinality(guards') = Concurrency
         /\ Line(tasks') /\ Range(tasks') \ {Opener} = Range(tasks) \ {Opener}
         /\ slotParked' => slotParked /\ slots' = 0
         /\ Woken(freed) \subseteq {taken}
         /\ Woken(freed) # {} => at = "slot" /\ ~slotParked' /\ slotParked
         /\ ~slotParked' /\ slotParked => taken \in guards'
         /\ Opener \in Range(tasks') \ Range(tasks) => slotParked /\ ~slotParked' /\ Opener \notin running
         /\ Opener \in running => tasks' = tasks
<1>1. /\ Typed /\ Turn /\ Untouched /\ Numbered /\ Conserved
      /\ Free(freed) /\ IF Resumes(freed) THEN tasks' = Append(tasks, Opener) ELSE tasks' = tasks
  BY DEF IInv, FreeAndPost
<1>2. /\ guards' = (guards \ freed) \cup Woken(freed)
      /\ guards' \in SUBSET regular /\ slots' \in Nat
      /\ slots' + Cardinality(guards') = Concurrency
      /\ slotParked' => slotParked /\ slots' = 0 /\ ~Resumes(freed)
      /\ ~slotParked' /\ slotParked => Resumes(freed)
      /\ Resumes(freed) => ~slotParked' /\ at = "slot"
  BY <1>1, Freeing
<1>3. CASE Resumes(freed)
  <2>1. slotParked /\ Parked /\ Woken(freed) = {taken} /\ tasks' = Append(tasks, Opener)
    BY <1>1, <1>3 DEF Resumes, Parked, Woken
  <2>2. /\ Line(tasks') /\ Range(tasks') = Range(tasks) \cup {Opener}
        /\ Opener \notin running /\ Opener \notin Range(tasks)
    BY <2>1, Posting
  <2>3. QED
    BY <1>2, <1>3, <2>1, <2>2
<1>4. CASE ~Resumes(freed)
  <2>1. Woken(freed) = {} /\ tasks' = tasks /\ Line(tasks)
    BY <1>1, <1>4 DEF Woken, Typed
  <2>2. QED
    BY <1>2, <1>4, <2>1
<1>5. QED
  BY <1>3, <1>4

(* So the coroutine stays where it was, parked or not.                     *)
LEMMA FreeingKeepsPlace ==
  ASSUME IInv, NEW freed \in SUBSET guards, FreeAndPost(freed),
         UNCHANGED <<at, taken, inParked, outParked, ended, regular, next, pending, ready>>,
         at = "slot" => taken \notin freed,
         running' \subseteq running, \A m \in Sequences_ : m \notin running => future'[m] = future[m]
  PROVE  Turn' /\ Numbered' /\ Untouched'
<1>1. /\ guards' = (guards \ freed) \cup Woken(freed)
      /\ guards' \in SUBSET regular /\ slots' \in Nat
      /\ slots' + Cardinality(guards') = Concurrency
      /\ Line(tasks') /\ Range(tasks') \ {Opener} = Range(tasks) \ {Opener}
      /\ slotParked' => slotParked /\ slots' = 0
      /\ Woken(freed) \subseteq {taken}
      /\ Woken(freed) # {} => at = "slot" /\ ~slotParked' /\ slotParked
      /\ ~slotParked' /\ slotParked => taken \in guards'
      /\ Opener \in Range(tasks') \ Range(tasks) => slotParked /\ ~slotParked' /\ Opener \notin running
      /\ Opener \in running => tasks' = tasks
  BY FreeingPosts
<1>2. /\ Typed /\ Turn /\ Untouched /\ Numbered /\ Opening /\ Results /\ Held /\ Emission
      /\ Window /\ Conserved
      /\ guards \subseteq regular /\ regular \subseteq Sequences_ /\ Opener \notin Sequences_
  BY Parts
<1>3. Turn'
  <2>1. Posted' => Posted \/ (slotParked /\ ~slotParked' /\ Opener \notin running)
    BY <1>1 DEF Posted
  <2>2. slotParked => at = "slot" /\ ~inParked /\ ~outParked
    BY <1>2 DEF Turn
  <2>3. Opener \in running' => Opener \in running /\ tasks' = tasks
    BY <1>1
  <2>4. QED
    BY <1>1, <1>2, <2>1, <2>2, <2>3 DEF Turn, Parked, Over
<1>4. Numbered'
  <2>1. at = "slot" /\ ~slotParked /\ ~slotParked' => taken \in guards'
    BY <1>1, <1>2 DEF Numbered
  <2>2. QED
    BY <1>1, <1>2, <2>1 DEF Numbered
<1>5. Untouched'
  <2>1. SUFFICES ASSUME NEW n \in Sequences_, Fresh(n)
                 PROVE  /\ n \notin running' /\ n \notin Range(tasks') /\ future'[n] = future[n]
                        /\ (n \in guards' => n = taken /\ at = "slot" /\ ~slotParked')
    BY <1>2 DEF Untouched, Fresh
  <2>2. /\ n \notin running /\ n \notin Range(tasks) /\ n # Opener
        /\ (n \in guards => n = taken /\ at = "slot" /\ ~slotParked)
    BY <1>2, <2>1 DEF Untouched
  <2>3. n \in guards' => n = taken /\ at = "slot" /\ ~slotParked'
    BY <1>1, <2>2
  <2>4. QED
    BY <1>1, <2>2, <2>3
<1>6. QED
  BY <1>3, <1>4, <1>5

(* A task looks at the event, and ends with a file or with an error.       *)
LEMMA OpenTaskKeepsInvariant ==
  ASSUME IInv, NEW n \in Sequences_, OpenTask(n)
  PROVE  IInv'
<1>1. /\ UNCHANGED <<workers, regular, arrived, inStatus, taken, inParked, at, waiting, ended, pending,
                     ready, next, out, outParked, outStatus, down, packed, cancel>>
      /\ n \in running /\ n # Opener
  BY Constants DEF OpenTask, OpenChecked, OpenDone, OpenThrows, fixed, input, output
<1>2. /\ Typed /\ Turn /\ Untouched /\ Numbered /\ Opening /\ Results /\ Held /\ Emission
      /\ Window /\ Conserved
      /\ guards \subseteq regular /\ regular \subseteq Sequences_ /\ pending \subseteq Sequences_
      /\ Opener \notin Sequences_
  BY Parts
<1>3. /\ n \in guards /\ future[n] \in {"none", "checked"} /\ n \in regular /\ ~Fresh(n)
      /\ n \notin Range(tasks)
  BY <1>1, <1>2 DEF Opening, Untouched
<1>4. ASSUME NEW f \in {"checked", "ok", "failed"}, future' = [future EXCEPT ![n] = f],
             running' \in {running, running \ {n}}
      PROVE  /\ future' \in [Sequences_ -> {"none", "checked", "ok", "failed"}]
             /\ future'[n] = f /\ \A m \in Sequences_ : m # n => future'[m] = future[m]
             /\ Results'
  <2>1. /\ future' \in [Sequences_ -> {"none", "checked", "ok", "failed"}]
        /\ future'[n] = f /\ \A m \in Sequences_ : m # n => future'[m] = future[m]
    BY <1>2, <1>4 DEF Typed
  <2>2. \A m : Opened(m) => Opened(m)'
    BY <1>1, <1>2, <1>3, <2>1 DEF Opened
  <2>3. QED
    BY <1>1, <1>2, <1>4, <2>1, <2>2 DEF Results, ParkedFile
<1>5. CASE OpenChecked(n)
  <2>1. future' = [future EXCEPT ![n] = "checked"] /\ UNCHANGED <<running, tasks, slots, slotParked, guards>>
        /\ future[n] = "none"
    BY <1>5 DEF OpenChecked, sems
  <2>2. /\ future' \in [Sequences_ -> {"none", "checked", "ok", "failed"}]
        /\ future'[n] = "checked" /\ \A m \in Sequences_ : m # n => future'[m] = future[m]
        /\ Results'
    BY <1>4, <2>1
  <2>3. Typed' /\ Turn' /\ Numbered'
    BY <1>1, <1>2, <2>1, <2>2 DEF Typed, Turn, Parked, Posted, Over, Numbered
  <2>4. Untouched'
    BY <1>1, <1>2, <1>3, <2>1, <2>2 DEF Untouched, Fresh
  <2>5. Opening'
    BY <1>1, <1>2, <1>3, <2>1, <2>2 DEF Opening, HasResult
  <2>6. Held'
    BY <1>1, <1>2, <1>3, <2>1, <2>2 DEF Held, Holder, ParkedFile
  <2>7. Emission' /\ Window' /\ Conserved'
    BY <1>1, <1>2, <2>1 DEF Emission, Window, Conserved, Over
  <2>8. QED
    BY <2>2, <2>3, <2>4, <2>5, <2>6, <2>7 DEF IInv
<1>6. ASSUME NEW f \in {"ok", "failed"}, future' = [future EXCEPT ![n] = f], running' = running \ {n},
             NEW freed \in SUBSET {n}, FreeAndPost(freed), f = "failed" \/ n \notin pending => n \in freed
      PROVE  IInv'
  <2>1. /\ future' \in [Sequences_ -> {"none", "checked", "ok", "failed"}]
        /\ future'[n] = f /\ \A m \in Sequences_ : m # n => future'[m] = future[m]
        /\ Results'
    BY <1>4, <1>6
  <2>2. freed \in SUBSET guards /\ (at = "slot" => taken \notin freed)
    BY <1>2, <1>3 DEF Fresh
  <2>3. Turn' /\ Numbered' /\ Untouched'
    <3>1. running' \subseteq running /\ \A m \in Sequences_ : m \notin running => future'[m] = future[m]
      BY <1>1, <1>6, <2>1
    <3>2. QED
      BY <1>1, <1>6, <2>2, <3>1, FreeingKeepsPlace
  <2>4. /\ guards' = (guards \ freed) \cup Woken(freed)
        /\ guards' \in SUBSET regular /\ slots' \in Nat
        /\ slots' + Cardinality(guards') = Concurrency
        /\ Line(tasks') /\ Range(tasks') \ {Opener} = Range(tasks) \ {Opener}
        /\ Woken(freed) \subseteq {taken}
        /\ Woken(freed) # {} => at = "slot"
    BY <1>6, <2>2, FreeingPosts
  <2>5. Typed'
    BY <1>1, <1>2, <1>6, <2>1, <2>4, FewerRun DEF Typed
  <2>6. Opening'
    <3>1. \A m \in Range(tasks') \ {Opener} : m # n /\ m \in Range(tasks) /\ m \in Sequences_
      BY <1>2, <1>3, <2>4 DEF Opening
    <3>2. \A m \in running' \ {Opener} : m # n /\ m \in running /\ m \in Sequences_
      BY <1>2, <1>6 DEF Opening
    <3>3. \A m \in Range(tasks') \ {Opener} : m \in guards' /\ m \notin running' /\ future'[m] = "none"
      BY <1>2, <1>6, <2>1, <2>4, <3>1 DEF Opening
    <3>4. \A m \in running' \ {Opener} : m \in guards' /\ future'[m] \in {"none", "checked"}
      BY <1>2, <1>6, <2>1, <2>4, <3>2 DEF Opening
    <3>5. \A m \in pending' : ~HasResult(m)' => m \in running' \/ m \in Range(tasks')
      BY <1>1, <1>2, <1>6, <2>1, <2>4 DEF Opening, HasResult
    <3>6. QED
      BY <3>3, <3>4, <3>5 DEF Opening
  <2>7. Held'
    <3>1. SUFFICES ASSUME NEW m \in guards' PROVE Holder(m)'
      BY DEF Held
    <3>2. CASE m \in Woken(freed)
      BY <1>1, <2>4, <3>2 DEF Holder
    <3>3. CASE m \notin Woken(freed)
      <4>1. m \in guards /\ m \notin freed /\ m \in Sequences_ /\ m # Opener /\ Holder(m)
        BY <1>2, <2>4, <3>1, <3>3 DEF Held
      <4>2. CASE m = n
        <5>1. f = "ok" /\ n \in pending
          BY <1>6, <4>1, <4>2
        <5>2. QED
          BY <1>1, <2>1, <4>2, <5>1 DEF Holder
      <4>3. CASE m # n
        <5>1. /\ future'[m] = future[m] /\ (m \in running => m \in running')
              /\ (m \in Range(tasks) => m \in Range(tasks'))
          BY <1>6, <2>1, <2>4, <4>1, <4>3
        <5>2. QED
          BY <1>1, <4>1, <5>1 DEF Holder, ParkedFile
      <4>4. QED
        BY <4>2, <4>3
    <3>4. QED
      BY <3>2, <3>3
  <2>8. Emission' /\ Window' /\ Conserved'
    BY <1>1, <1>2, <2>4 DEF Emission, Window, Conserved, Over
  <2>9. QED
    BY <2>1, <2>3, <2>5, <2>6, <2>7, <2>8 DEF IInv
<1>7. CASE OpenDone(n)
  <2>1. PICK freed : freed = IF n \in pending THEN {} ELSE {n}
    OBVIOUS
  <2>2. /\ future' = [future EXCEPT ![n] = "ok"] /\ running' = running \ {n} /\ FreeAndPost(freed)
        /\ freed \in SUBSET {n} /\ (n \notin pending => n \in freed)
    BY <1>7, <2>1 DEF OpenDone
  <2>3. QED
    BY <1>6, <2>2
<1>8. CASE OpenThrows(n)
  <2>1. /\ future' = [future EXCEPT ![n] = "failed"] /\ running' = running \ {n} /\ FreeAndPost({n})
        /\ {n} \in SUBSET {n} /\ n \in {n}
    BY <1>8 DEF OpenThrows
  <2>2. QED
    BY <1>6, <2>1
<1>9. QED
  BY <1>5, <1>7, <1>8 DEF OpenTask

(* What the coroutine does not see of the queue in front of it.            *)
LEMMA InputKeepsInvariant ==
  ASSUME IInv, arrived' \in 0 .. Entries, taken <= arrived', inStatus' \in Statuses, cancel' \in 0 .. 4,
         UNCHANGED <<workers, regular, tasks, running, taken, inParked, at, waiting, ended, pending,
                     future, ready, next, out, outParked, outStatus, slots, slotParked, guards, down,
                     packed>>
  PROVE  IInv'
<1>1. /\ Typed /\ Turn /\ Untouched /\ Numbered /\ Opening /\ Results /\ Held /\ Emission
      /\ Window /\ Conserved
  BY Parts
<1>2. Typed'
  <2>1. taken \in 0 .. arrived'
    BY <1>1, Constants DEF Typed
  <2>2. QED
    BY <1>1, <2>1 DEF Typed
<1>3. Turn' /\ Untouched' /\ Numbered'
  BY <1>1 DEF Turn, Parked, Posted, Over, Untouched, Fresh, Numbered
<1>4. Opening' /\ Results' /\ Held'
  BY <1>1 DEF Opening, HasResult, Results, Opened, Held, Holder, ParkedFile
<1>5. Emission' /\ Window' /\ Conserved'
  BY <1>1 DEF Emission, Window, Over, Conserved
<1>6. QED
  BY <1>2, <1>3, <1>4, <1>5 DEF IInv

(* The coroutine is posted with an entry, or with the end of the entries.  *)
LEMMA InputResumesCoroutine ==
  ASSUME IInv, inParked, inParked' = FALSE, tasks' = Append(tasks, Opener),
         at' \in {"popped", "ended", "error"},
         taken' = IF at' = "popped" THEN taken + 1 ELSE taken,
         arrived' \in 0 .. Entries, taken' <= arrived', inStatus' \in Statuses, cancel' \in 0 .. 4,
         UNCHANGED <<workers, regular, running, waiting, ended, pending, future, ready, next, out,
                     outParked, outStatus, slots, slotParked, guards, down, packed>>
  PROVE  IInv'
<1>1. /\ Typed /\ Turn /\ Untouched /\ Numbered /\ Opening /\ Results /\ Held /\ Emission
      /\ Window /\ Conserved /\ Opener \notin Sequences_ /\ Sequences_ \subseteq Nat
      /\ taken \in Nat /\ next \in Nat /\ Entries \in Nat
      /\ guards \subseteq regular /\ regular \subseteq Sequences_
  BY Parts
<1>2. /\ Line(tasks') /\ Range(tasks') = Range(tasks) \cup {Opener}
      /\ Opener \notin running /\ Opener \notin Range(tasks)
  BY Posting DEF Parked
<1>3. at = "next" /\ ~outParked /\ ~slotParked /\ ~ended /\ ~Over
  BY <1>1 DEF Turn, Over
<1>4. Typed'
  <2>1. taken' \in 0 .. arrived'
    BY <1>1
  <2>2. at' \in Places
    BY DEF Places
  <2>3. QED
    BY <1>1, <1>2, <2>1, <2>2 DEF Typed
<1>5. Turn'
  BY <1>2, <1>3 DEF Turn, Parked, Posted, Over
<1>6. \A n \in Sequences_ : Fresh(n)' => n > taken
  BY <1>1 DEF Fresh
<1>7. Untouched'
  <2>1. \A n \in Sequences_ : n > taken => n # taken /\ n # Opener
    BY <1>1
  <2>2. \A n \in Sequences_ : n > taken =>
          /\ future[n] = "none" /\ n \notin pending /\ n \notin ready
          /\ n \notin running /\ n \notin Range(tasks) /\ n \notin guards
    BY <1>1, <1>3 DEF Untouched, Fresh
  <2>3. QED
    BY <1>2, <1>6, <2>1, <2>2 DEF Untouched
<1>8. Numbered'
  BY <1>1, <1>3 DEF Numbered
<1>9. Opening'
  BY <1>1, <1>2, PostedKeepsOpening
<1>10. Results'
  BY <1>1, <1>3 DEF Results, Opened
<1>11. Held'
  BY <1>1, <1>2, <1>3 DEF Held, Holder
<1>12. Emission' /\ Window' /\ Conserved'
  BY <1>1, <1>3 DEF Emission, Window, Over, Conserved
<1>13. QED
  BY <1>4, <1>5, <1>7, <1>8, <1>9, <1>10, <1>11, <1>12 DEF IInv

(* The traverser pushes an entry.                                          *)
LEMMA ArriveKeepsInvariant ==
  ASSUME IInv, Arrive
  PROVE  IInv'
<1>1. /\ Typed /\ taken \in Nat /\ Entries \in Nat
  BY Parts
<1>2. /\ inStatus = "Open" /\ arrived < Entries /\ arrived' = arrived + 1
      /\ UNCHANGED <<workers, regular, running, inStatus, waiting, ended, pending, future, ready, next, out,
                     outParked, outStatus, slots, slotParked, guards, down, packed, cancel>>
  BY DEF Arrive, fixed, results, output, sems
<1>3. /\ arrived' \in 0 .. Entries /\ taken + 1 <= arrived' /\ taken <= arrived'
      /\ inStatus' \in Statuses /\ cancel' \in 0 .. 4
  BY <1>1, <1>2 DEF Typed
<1>4. CASE inParked
  <2>1. inParked' = FALSE /\ taken' = taken + 1 /\ tasks' = Append(tasks, Opener) /\ at' = "popped"
    BY <1>4 DEF Arrive, ResumeAt
  <2>2. QED
    BY <1>2, <1>3, <1>4, <2>1, InputResumesCoroutine
<1>5. CASE ~inParked
  <2>1. UNCHANGED <<inParked, taken, tasks, at>>
    BY <1>5 DEF Arrive
  <2>2. QED
    BY <1>2, <1>3, <2>1, InputKeepsInvariant
<1>6. QED
  BY <1>4, <1>5

(* The end of in_entries, however it comes.                                *)
LEMMA EndInputKeepsInvariant ==
  ASSUME IInv, NEW how \in {"Closed", "Abandoned"}, NEW place \in {"ended", "error"}, EndInput(how, place),
         arrived' \in {arrived, taken}, cancel' \in 0 .. 4,
         UNCHANGED <<workers, regular, running, taken, waiting, ended, pending, future, ready, next, out,
                     outParked, outStatus, slots, slotParked, guards, down, packed>>
  PROVE  IInv'
<1>1. /\ Typed /\ taken \in Nat /\ Entries \in Nat
  BY Parts
<1>2. arrived' \in 0 .. Entries /\ taken <= arrived' /\ inStatus' \in Statuses
  BY <1>1 DEF Typed, EndInput, Statuses
<1>3. CASE inParked
  <2>1. inParked' = FALSE /\ tasks' = Append(tasks, Opener) /\ at' = place
    BY <1>3 DEF EndInput, ResumeAt
  <2>2. at' \in {"popped", "ended", "error"} /\ taken' = IF at' = "popped" THEN taken + 1 ELSE taken
    BY <2>1
  <2>3. taken' <= arrived'
    BY <1>2
  <2>4. QED
    BY <1>2, <1>3, <2>1, <2>2, <2>3, InputResumesCoroutine
<1>4. CASE ~inParked
  <2>1. UNCHANGED <<inParked, tasks, at>>
    BY <1>4 DEF EndInput
  <2>2. QED
    BY <1>2, <2>1, InputKeepsInvariant
<1>5. QED
  BY <1>3, <1>4

(* The traverser closes in_entries.                                        *)
LEMMA CloseInputKeepsInvariant ==
  ASSUME IInv, CloseInput
  PROVE  IInv'
<1>1. cancel \in 0 .. 4
  BY Parts DEF Typed
<1>2. /\ EndInput("Closed", "ended") /\ arrived' \in {arrived, taken} /\ cancel' \in 0 .. 4
      /\ UNCHANGED <<workers, regular, running, taken, waiting, ended, pending, future, ready, next, out,
                     outParked, outStatus, slots, slotParked, guards, down, packed>>
  BY <1>1 DEF CloseInput, fixed, results, output, sems
<1>3. QED
  BY <1>2, EndInputKeepsInvariant

(* The first slot of the event abandons in_entries.                        *)
LEMMA CancelInputKeepsInvariant ==
  ASSUME IInv, CancelInput
  PROVE  IInv'
<1>1. /\ EndInput("Abandoned", "error") /\ arrived' \in {arrived, taken} /\ cancel' \in 0 .. 4
      /\ UNCHANGED <<workers, regular, running, taken, waiting, ended, pending, future, ready, next, out,
                     outParked, outStatus, slots, slotParked, guards, down, packed>>
  BY DEF CancelInput, fixed, results, output, sems
<1>2. QED
  BY <1>1, EndInputKeepsInvariant

(* The last slot of the event cancels open_slots_, and the coroutine in    *)
(* it.                                                                     *)
LEMMA CancelSlotsKeepsInvariant ==
  ASSUME IInv, CancelSlots
  PROVE  IInv'
<1>1. /\ Typed /\ Turn /\ Untouched /\ Numbered /\ Opening /\ Results /\ Held /\ Emission
      /\ Window /\ Conserved /\ Opener \notin Sequences_ /\ Sequences_ \subseteq Nat
      /\ taken \in Nat /\ guards \subseteq regular /\ regular \subseteq Sequences_
  BY Parts
<1>2. /\ cancel' = 4
      /\ UNCHANGED <<workers, regular, running, arrived, inStatus, taken, inParked, waiting, ended, pending,
                     future, ready, next, out, outParked, outStatus, down, packed, slots, guards>>
  BY DEF CancelSlots, fixed, input, results, output
<1>3. arrived' \in 0 .. Entries /\ taken <= arrived' /\ inStatus' \in Statuses /\ cancel' \in 0 .. 4
  BY <1>1, <1>2 DEF Typed
<1>4. CASE ~slotParked
  <2>1. UNCHANGED <<slotParked, tasks, at>>
    BY <1>4 DEF CancelSlots
  <2>2. QED
    BY <1>2, <1>3, <2>1, InputKeepsInvariant
<1>5. CASE slotParked
  <2>1. slotParked' = FALSE /\ tasks' = Append(tasks, Opener) /\ at' = "error"
    BY <1>5 DEF CancelSlots, ResumeAt
  <2>2. /\ Line(tasks') /\ Range(tasks') = Range(tasks) \cup {Opener}
        /\ Opener \notin running /\ Opener \notin Range(tasks)
    BY <1>5, <2>1, Posting DEF Parked
  <2>3. at = "slot" /\ ~inParked /\ ~outParked /\ ~Over /\ taken \in Sequences_ /\ taken \notin guards
    BY <1>1, <1>5 DEF Turn, Over, Numbered, Untouched, Fresh
  <2>4. Typed' /\ Turn'
    BY <1>1, <1>2, <1>3, <2>1, <2>2, <2>3 DEF Typed, Places, Turn, Parked, Posted, Over
  <2>5. Untouched'
    <3>1. \A n \in Sequences_ : Fresh(n)' => Fresh(n) /\ n # taken /\ n # Opener
      BY <1>1, <1>2, <2>1 DEF Fresh
    <3>2. QED
      BY <1>1, <1>2, <2>1, <2>2, <3>1 DEF Untouched
  <2>6. Numbered'
    BY <1>1, <1>2, <2>1 DEF Numbered
  <2>7. Opening'
    BY <1>1, <1>2, <2>2, PostedKeepsOpening
  <2>8. Results'
    BY <1>1, <1>2, <2>1, <2>3 DEF Results, Opened
  <2>9. Held'
    BY <1>1, <1>2, <2>1, <2>2, <2>3 DEF Held, Holder, ParkedFile
  <2>10. Emission' /\ Window' /\ Conserved'
    BY <1>1, <1>2, <2>1, <2>3 DEF Emission, Window, Over, Conserved
  <2>11. QED
    BY <2>4, <2>5, <2>6, <2>7, <2>8, <2>9, <2>10 DEF IInv
<1>6. QED
  BY <1>4, <1>5

(* A file is taken from out_opened; the one a parked push holds moves up.  *)
LEMMA TakeOpenedKeepsInvariant ==
  ASSUME IInv, TakeOpened
  PROVE  IInv'
<1>1. /\ Typed /\ Turn /\ Untouched /\ Numbered /\ Opening /\ Results /\ Held /\ Emission
      /\ Window /\ Conserved /\ Opener \notin Sequences_ /\ Sequences_ \subseteq Nat
      /\ taken \in Nat /\ next \in Nat /\ guards \subseteq regular /\ regular \subseteq Sequences_
  BY Parts
<1>2. PICK h, t, file : h = Head(out) /\ t = Tail(out) /\ file = ParkedFile
  OBVIOUS
<1>3. /\ out # <<>> /\ down' = Append(down, h)
      /\ UNCHANGED <<workers, regular, running, arrived, inStatus, taken, inParked, at, waiting, ended,
                     pending, future, ready, next, outStatus, packed, slots, slotParked, guards, cancel>>
  BY <1>2 DEF TakeOpened, fixed, input, results, sems
<1>4. /\ out \in Seq(Sequences_) /\ Len(out) \in Nat \ {0} /\ Len(out) <= OutCapacity /\ OutCapacity \in Nat
      /\ down \in Seq(Sequences_) /\ Len(down) \in Nat /\ packed \in Nat
      /\ DOMAIN out = 1 .. Len(out) /\ DOMAIN down = 1 .. Len(down)
  BY <1>1, <1>3, Constants, EmptySeq DEF Typed
<1>5. /\ Range(out) = {h} \cup Range(t) /\ h \in Sequences_ /\ t \in Seq(Sequences_)
      /\ Len(t) = Len(out) - 1 /\ \A i \in 1 .. Len(out) - 1 : t[i] = out[i + 1]
  BY <1>2, <1>3, <1>4, RangeOfTail
<1>6. h = out[1]
  BY <1>2, <1>4
<1>7. h = packed + Len(down) + 1 /\ \A i \in 1 .. Len(t) : t[i] = packed + Len(down) + 1 + i
  <2>1. 1 \in 1 .. Len(out) /\ \A i \in 1 .. Len(t) : i + 1 \in 1 .. Len(out) /\ i \in 1 .. Len(out) - 1
    BY <1>4, <1>5
  <2>2. \A i \in 1 .. Len(t) : t[i] = packed + Len(down) + (i + 1)
    BY <1>1, <1>5, <2>1 DEF Emission
  <2>3. QED
    BY <1>1, <1>4, <1>6, <2>1, <2>2 DEF Emission
<1>8. /\ down' \in Seq(Sequences_) /\ Len(down') = Len(down) + 1 /\ Range(down') = Range(down) \cup {h}
      /\ \A i \in 1 .. Len(down') : down'[i] = packed + i
  <2>1. down' \in Seq(Sequences_) /\ Len(down') = Len(down) + 1 /\ down'[Len(down) + 1] = h
        /\ \A i \in 1 .. Len(down) : down'[i] = down[i]
    BY <1>3, <1>4, <1>5
  <2>2. \A i \in 1 .. Len(down') : i \in 1 .. Len(down) \/ i = Len(down) + 1
    BY <1>4, <2>1
  <2>3. \A i \in 1 .. Len(down) : down[i] = packed + i
    BY <1>1 DEF Emission
  <2>4. down'[Len(down) + 1] = packed + (Len(down) + 1)
    BY <1>4, <1>7, <2>1
  <2>5. \A i \in 1 .. Len(down') : down'[i] = packed + i
    BY <2>1, <2>2, <2>3, <2>4
  <2>6. QED
    BY <1>3, <1>4, <2>1, <2>5, RangeOfAppend
<1>9. outStatus # "Abandoned" /\ Opened(h) /\ \A n \in Range(t) : Opened(n)
  BY <1>1, <1>3, <1>5 DEF Emission, Results
<1>10. Numbered' /\ Window' /\ Conserved'
  BY <1>1, <1>3 DEF Numbered, Window, Over, Conserved
<1>11. CASE ~outParked
  <2>1. out' = t /\ UNCHANGED <<outParked, tasks>>
    BY <1>2, <1>11 DEF TakeOpened
  <2>2. Typed'
    <3>1. Len(t) <= OutCapacity
      BY <1>4, <1>5
    <3>2. QED
      BY <1>1, <1>3, <1>5, <1>8, <2>1, <3>1 DEF Typed
  <2>3. Turn' /\ Untouched' /\ Opening'
    BY <1>1, <1>3, <2>1 DEF Turn, Parked, Posted, Over, Untouched, Fresh, Opening, HasResult
  <2>4. Results'
    BY <1>1, <1>3, <1>8, <1>9, <1>11, <2>1 DEF Results, Opened
  <2>5. Held'
    BY <1>1, <1>3, <1>5, <1>8, <1>11, <2>1 DEF Held, Holder
  <2>6. Emission'
    <3>1. /\ \A i \in 1 .. Len(out') : out'[i] = packed' + Len(down') + i
          /\ \A i \in 1 .. Len(down') : down'[i] = packed' + i
      BY <1>3, <1>4, <1>5, <1>7, <1>8, <2>1
    <3>2. /\ packed + Len(down) + Len(out) + 0 + 1 = next
          /\ outStatus = "Closed" => Over
      BY <1>1, <1>9, <1>11 DEF Emission
    <3>3. Len(out') = Len(out) - 1 /\ ~outParked' /\ packed' = packed /\ next' = next
      BY <1>3, <1>5, <1>11, <2>1
    <3>4. /\ packed' + Len(down') + Len(out') + 0 < next'
          /\ packed' + Len(down') + Len(out') + 0 + 1 = next'
      BY <1>1, <1>4, <1>8, <3>2, <3>3
    <3>5. (outStatus = "Closed" => Over)'
      BY <1>3, <3>2 DEF Over
    <3>6. QED
      BY <1>3, <1>9, <3>1, <3>3, <3>4, <3>5 DEF Emission
  <2>7. QED
    BY <1>10, <2>2, <2>3, <2>4, <2>5, <2>6 DEF IInv
<1>12. CASE outParked
  <2>1. out' = Append(t, file) /\ outParked' = FALSE /\ tasks' = Append(tasks, Opener)
    BY <1>2, <1>12 DEF TakeOpened
  <2>2. /\ Line(tasks') /\ Range(tasks') = Range(tasks) \cup {Opener}
        /\ Opener \notin running /\ Opener \notin Range(tasks)
    BY <1>12, <2>1, Posting DEF Parked
  <2>3. at = "emit" /\ ~inParked /\ ~slotParked /\ ~Over
    BY <1>1, <1>12 DEF Turn, Over
  <2>4. packed + Len(down) + Len(out) + 1 + 1 = next /\ Opened(file) /\ file = next - 1
    BY <1>1, <1>2, <1>9, <1>12 DEF Emission, Results, ParkedFile
  <2>5. file \in Sequences_ /\ file = packed + Len(down) + 1 + Len(out)
    <3>1. next \in 1 .. Entries + 1
      BY <1>1 DEF Typed
    <3>2. file \in 1 .. Entries /\ file = packed + Len(down) + 1 + Len(out)
      BY <1>4, <2>4, <3>1, Constants
    <3>3. QED
      BY <3>2 DEF Sequences_
  <2>6. /\ out' \in Seq(Sequences_) /\ Len(out') = Len(out) /\ Range(out') = Range(t) \cup {file}
        /\ \A i \in 1 .. Len(out') : out'[i] = packed + Len(down) + 1 + i
    <3>1. /\ out' \in Seq(Sequences_) /\ Len(out') = Len(t) + 1 /\ out'[Len(t) + 1] = file
          /\ \A i \in 1 .. Len(t) : out'[i] = t[i]
      BY <1>5, <2>1, <2>5
    <3>2. Len(t) \in Nat /\ Len(t) + 1 = Len(out)
      BY <1>4, <1>5
    <3>3. \A i \in 1 .. Len(out') : i \in 1 .. Len(t) \/ i = Len(t) + 1
      BY <3>1, <3>2
    <3>4. \A i \in 1 .. Len(out') : out'[i] = packed + Len(down) + 1 + i
      BY <1>7, <2>5, <3>1, <3>2, <3>3
    <3>5. QED
      BY <1>5, <2>1, <2>5, <3>1, <3>2, <3>4, RangeOfAppend
  <2>7. Typed'
    BY <1>1, <1>3, <1>4, <1>8, <2>2, <2>6 DEF Typed
  <2>8. Turn'
    BY <1>1, <1>3, <2>1, <2>2, <2>3 DEF Turn, Parked, Posted, Over
  <2>9. Untouched'
    BY <1>1, <1>3, <2>2 DEF Untouched, Fresh
  <2>10. Opening'
    BY <1>1, <1>3, <2>2, PostedKeepsOpening
  <2>11. Results'
    BY <1>1, <1>3, <1>8, <1>9, <2>1, <2>4, <2>6 DEF Results, Opened
  <2>12. Held'
    BY <1>1, <1>2, <1>3, <1>5, <1>8, <2>2, <2>6 DEF Held, Holder
  <2>13. Emission'
    <3>1. /\ \A i \in 1 .. Len(out') : out'[i] = packed' + Len(down') + i
          /\ \A i \in 1 .. Len(down') : down'[i] = packed' + i
      BY <1>3, <1>4, <1>8, <2>6
    <3>2. /\ packed' + Len(down') + Len(out') + 0 < next'
          /\ packed' + Len(down') + Len(out') + 0 + 1 = next'
      BY <1>1, <1>3, <1>4, <1>8, <2>4, <2>6
    <3>3. (outStatus = "Closed" => Over)'
      BY <1>1, <1>3 DEF Over, Emission
    <3>4. QED
      BY <1>3, <1>9, <2>1, <3>1, <3>2, <3>3 DEF Emission
  <2>14. QED
    BY <1>10, <2>7, <2>8, <2>9, <2>10, <2>11, <2>12, <2>13 DEF IInv
<1>13. QED
  BY <1>11, <1>12

(* The packer is through with the oldest file and lets its permit go.      *)
LEMMA PackOneKeepsInvariant ==
  ASSUME IInv, PackOne
  PROVE  IInv'
<1>1. /\ Typed /\ Turn /\ Untouched /\ Numbered /\ Opening /\ Results /\ Held /\ Emission
      /\ Window /\ Conserved /\ Opener \notin Sequences_ /\ Sequences_ \subseteq Nat
      /\ taken \in Nat /\ next \in Nat /\ guards \subseteq regular /\ regular \subseteq Sequences_
  BY Parts
<1>2. PICK h, freed : h = Head(down) /\ freed = {h} \cap guards
  OBVIOUS
<1>3. /\ down # <<>> /\ down' = Tail(down) /\ packed' = packed + 1 /\ FreeAndPost(freed)
      /\ UNCHANGED <<workers, regular, running, arrived, inStatus, taken, inParked, at, waiting, ended,
                     pending, future, ready, next, out, outParked, outStatus, cancel>>
  BY <1>2 DEF PackOne, fixed, input, results
<1>4. /\ down \in Seq(Sequences_) /\ Len(down) \in Nat \ {0} /\ packed \in Nat /\ Len(out) \in Nat
      /\ DOMAIN down = 1 .. Len(down)
  BY <1>1, <1>3, EmptySeq DEF Typed
<1>5. /\ Range(down) = {h} \cup Range(down') /\ h \in Sequences_ /\ down' \in Seq(Sequences_)
      /\ Len(down') = Len(down) - 1 /\ \A i \in 1 .. Len(down) - 1 : down'[i] = down[i + 1]
  BY <1>2, <1>3, <1>4, RangeOfTail
<1>6. h = packed + 1 /\ h < next /\ Opened(h)
  <2>1. 1 \in 1 .. Len(down) /\ h = down[1]
    BY <1>2, <1>4
  <2>2. h = packed + 1
    BY <1>1, <2>1 DEF Emission
  <2>3. packed + Len(down) + Len(out) + (IF outParked THEN 1 ELSE 0) < next
    BY <1>1 DEF Emission
  <2>4. packed + 1 < next
    BY <1>1, <1>4, <2>3
  <2>5. QED
    BY <1>1, <1>5, <2>2, <2>4 DEF Results
<1>7. freed \in SUBSET guards /\ (at = "slot" => taken \notin freed)
  BY <1>1, <1>2, <1>6 DEF Numbered
<1>8. /\ guards' = (guards \ freed) \cup Woken(freed)
      /\ guards' \in SUBSET regular /\ slots' \in Nat
      /\ slots' + Cardinality(guards') = Concurrency
      /\ Line(tasks') /\ Range(tasks') \ {Opener} = Range(tasks) \ {Opener}
      /\ Woken(freed) \subseteq {taken}
      /\ Woken(freed) # {} => at = "slot"
  BY <1>3, <1>7, FreeingPosts
<1>9. Turn' /\ Numbered' /\ Untouched'
  <2>1. running' \subseteq running /\ \A m \in Sequences_ : m \notin running => future'[m] = future[m]
    BY <1>3
  <2>2. QED
    BY <1>3, <1>7, <2>1, FreeingKeepsPlace
<1>10. Typed'
  BY <1>1, <1>3, <1>4, <1>5, <1>8 DEF Typed
<1>11. Opening'
  <2>1. \A m \in (Range(tasks) \cup running) \ {Opener} : m # h
    BY <1>1, <1>6 DEF Opening, Opened
  <2>2. \A m \in (Range(tasks') \cup running') \ {Opener} : m \in guards'
    BY <1>1, <1>2, <1>3, <1>8, <2>1 DEF Opening
  <2>3. \A m : m # Opener => (m \in Range(tasks) <=> m \in Range(tasks'))
    BY <1>8
  <2>4. Opener \notin pending
    BY <1>1 DEF Typed
  <2>5. QED
    BY <1>1, <1>3, <2>2, <2>3, <2>4 DEF Opening, HasResult
<1>12. Results'
  BY <1>1, <1>3, <1>5 DEF Results, Opened, ParkedFile
<1>13. Held'
  <2>1. SUFFICES ASSUME NEW m \in guards' PROVE Holder(m)'
    BY DEF Held
  <2>2. CASE m \in Woken(freed)
    BY <1>3, <1>8, <2>2 DEF Holder
  <2>3. CASE m \notin Woken(freed)
    <3>1. m \in guards /\ m # h /\ m # Opener /\ Holder(m)
      BY <1>1, <1>2, <1>8, <2>1, <2>3 DEF Held
    <3>2. (m \in Range(tasks) => m \in Range(tasks')) /\ (m \in Range(down) => m \in Range(down'))
      BY <1>5, <1>8, <3>1
    <3>3. QED
      BY <1>3, <3>1, <3>2 DEF Holder, ParkedFile
  <2>4. QED
    BY <2>2, <2>3
<1>14. Emission'
  <2>1. \A i \in 1 .. Len(down') : down'[i] = packed' + i
    <3>1. \A i \in 1 .. Len(down') : i + 1 \in 1 .. Len(down) /\ i \in 1 .. Len(down) - 1
      BY <1>4, <1>5
    <3>2. \A i \in 1 .. Len(down') : down'[i] = packed + (i + 1)
      BY <1>1, <1>5, <3>1 DEF Emission
    <3>3. QED
      BY <1>3, <1>4, <3>2
  <2>2. packed' + Len(down') = packed + Len(down) /\ packed' + Len(down') \in Nat
    BY <1>3, <1>4, <1>5
  <2>3. \A i \in 1 .. Len(out') : out'[i] = packed' + Len(down') + i
    BY <1>1, <1>3, <2>2 DEF Emission
  <2>4. LET held == packed' + Len(down') + Len(out') + (IF outParked' THEN 1 ELSE 0)
        IN  held < next' /\ (outStatus' # "Abandoned" => held + 1 = next')
    BY <1>1, <1>3, <2>2 DEF Emission
  <2>5. /\ outStatus' = "Abandoned" => out' = <<>> /\ ~outParked'
        /\ outStatus' = "Closed" => Over'
    BY <1>1, <1>3 DEF Emission, Over
  <2>6. QED
    BY <2>1, <2>3, <2>4, <2>5 DEF Emission
<1>15. Window' /\ Conserved'
  BY <1>1, <1>3, <1>8 DEF Window, Over, Conserved
<1>16. QED
  BY <1>9, <1>10, <1>11, <1>12, <1>13, <1>14, <1>15 DEF IInv

(* The queue behind the opener is dropped, with the files in it and the    *)
(* one a parked push holds; their permits come back.                       *)
LEMMA CancelOutputKeepsInvariant ==
  ASSUME IInv, CancelOutput
  PROVE  IInv'
<1>1. /\ Typed /\ Turn /\ Untouched /\ Numbered /\ Opening /\ Results /\ Held /\ Emission
      /\ Window /\ Conserved /\ Opener \notin Sequences_ /\ Sequences_ \subseteq Nat
      /\ taken \in Nat /\ next \in Nat /\ guards \subseteq regular /\ regular \subseteq Sequences_
  BY Parts
<1>2. PICK queued : queued = {out[i] : i \in DOMAIN out} \cup (IF outParked THEN {ParkedFile} ELSE {})
  OBVIOUS
<1>3. PICK freed : freed = queued \cap guards
  OBVIOUS
<1>4. /\ outStatus' = "Abandoned" /\ out' = <<>> /\ cancel' = 3 /\ Free(freed)
      /\ UNCHANGED <<workers, regular, running, arrived, inStatus, taken, inParked, waiting, ended, pending,
                     future, ready, next, down, packed>>
  BY <1>2, <1>3 DEF CancelOutput, fixed, input, results
<1>5. /\ packed \in Nat /\ Len(down) \in Nat /\ Len(out) \in Nat /\ DOMAIN out = 1 .. Len(out)
      /\ Len(out') = 0 /\ out' \in Seq(Sequences_) /\ Range(out') = {} /\ OutCapacity \in Nat
  BY <1>1, <1>4, Constants, RangeOfNone DEF Typed
<1>6. \A m \in queued : Opened(m) /\ m < next
  <2>1. ASSUME NEW i \in 1 .. Len(out) PROVE Opened(out[i]) /\ out[i] < next
    <3>1. /\ out[i] = packed + Len(down) + i /\ i \in Nat /\ i <= Len(out) /\ out[i] \in Range(out)
      BY <1>1, <1>5, <2>1 DEF Emission, Range
    <3>2. packed + Len(down) + Len(out) + (IF outParked THEN 1 ELSE 0) < next
      BY <1>1 DEF Emission
    <3>3. out[i] < next
      BY <1>1, <1>5, <3>1, <3>2
    <3>4. QED
      BY <1>1, <3>1, <3>3 DEF Results
  <2>2. outParked => Opened(ParkedFile) /\ ParkedFile < next
    BY <1>1 DEF Results, ParkedFile, Typed
  <2>3. QED
    BY <1>2, <1>5, <2>1, <2>2
<1>7. freed \in SUBSET guards /\ (at = "slot" => taken \notin freed)
  BY <1>1, <1>3, <1>6 DEF Numbered
<1>8. Range(out) \subseteq queued /\ (outParked => ParkedFile \in queued)
  BY <1>2, <1>5 DEF Range
<1>9. \A m \in (Range(tasks) \cup running) \ {Opener} : m \notin freed
  BY <1>1, <1>3, <1>6 DEF Opening, Opened
<1>10. /\ \A i \in 1 .. Len(out') : out'[i] = packed' + Len(down') + i
       /\ \A i \in 1 .. Len(down') : down'[i] = packed' + i
       /\ packed' + Len(down') + Len(out') + 0 < next'
  <2>1. packed + Len(down) + Len(out) + (IF outParked THEN 1 ELSE 0) < next
    BY <1>1 DEF Emission
  <2>2. packed + Len(down) < next
    BY <1>1, <1>5, <2>1
  <2>3. \A i \in 1 .. Len(down) : down[i] = packed + i
    BY <1>1 DEF Emission
  <2>4. QED
    BY <1>1, <1>4, <1>5, <2>2, <2>3
<1>11. CASE ~outParked
  <2>1. FreeAndPost(freed) /\ UNCHANGED <<outParked, at>>
    BY <1>2, <1>3, <1>11 DEF CancelOutput, FreeAndPost
  <2>2. /\ guards' = (guards \ freed) \cup Woken(freed)
        /\ guards' \in SUBSET regular /\ slots' \in Nat
        /\ slots' + Cardinality(guards') = Concurrency
        /\ Line(tasks') /\ Range(tasks') \ {Opener} = Range(tasks) \ {Opener}
        /\ Woken(freed) \subseteq {taken}
        /\ Woken(freed) # {} => at = "slot"
    BY <1>7, <2>1, FreeingPosts
  <2>3. Turn' /\ Numbered' /\ Untouched'
    <3>1. running' \subseteq running /\ \A m \in Sequences_ : m \notin running => future'[m] = future[m]
      BY <1>4
    <3>2. QED
      BY <1>4, <1>7, <2>1, <3>1, FreeingKeepsPlace
  <2>4. Typed'
    BY <1>1, <1>4, <1>5, <2>1, <2>2 DEF Typed, Statuses
  <2>5. Opening'
    <3>1. \A m \in (Range(tasks') \cup running') \ {Opener} : m \in guards'
      BY <1>1, <1>4, <1>9, <2>2 DEF Opening
    <3>2. \A m : m # Opener => (m \in Range(tasks) <=> m \in Range(tasks'))
      BY <2>2
    <3>3. Opener \notin pending
      BY <1>1 DEF Typed
    <3>4. QED
      BY <1>1, <1>4, <3>1, <3>2, <3>3 DEF Opening, HasResult
  <2>6. Results'
    BY <1>1, <1>4, <1>5, <1>11, <2>1 DEF Results, Opened
  <2>7. Held'
    <3>1. SUFFICES ASSUME NEW m \in guards' PROVE Holder(m)'
      BY DEF Held
    <3>2. CASE m \in Woken(freed)
      BY <1>4, <2>1, <2>2, <3>2 DEF Holder
    <3>3. CASE m \notin Woken(freed)
      <4>1. m \in guards /\ m \notin queued /\ m # Opener /\ Holder(m)
        BY <1>1, <1>3, <2>2, <3>1, <3>3 DEF Held
      <4>2. (m \in Range(tasks) => m \in Range(tasks')) /\ m \notin Range(out)
        BY <1>8, <2>2, <4>1
      <4>3. QED
        BY <1>4, <1>11, <2>1, <4>1, <4>2 DEF Holder
    <3>4. QED
      BY <3>2, <3>3
  <2>8. Emission' /\ Window' /\ Conserved'
    BY <1>1, <1>4, <1>10, <1>11, <2>1, <2>2 DEF Emission, Window, Over, Conserved
  <2>9. QED
    BY <2>3, <2>4, <2>5, <2>6, <2>7, <2>8 DEF IInv
<1>12. CASE outParked
  <2>1. outParked' = FALSE /\ tasks' = Append(tasks, Opener) /\ at' = "error"
    BY <1>12 DEF CancelOutput, ResumeAt
  <2>2. at = "emit" /\ ~inParked /\ ~slotParked /\ ~Over
    BY <1>1, <1>12 DEF Turn, Over
  <2>3. /\ guards' = (guards \ freed) \cup Woken(freed)
        /\ guards' \in SUBSET regular /\ slots' \in Nat
        /\ slots' + Cardinality(guards') = Concurrency
        /\ slotParked' => slotParked
    BY <1>1, <1>4, <1>7, Freeing
  <2>4. guards' = guards \ freed /\ ~slotParked'
    BY <2>2, <2>3 DEF Woken, Resumes
  <2>5. /\ Line(tasks') /\ Range(tasks') = Range(tasks) \cup {Opener}
        /\ Opener \notin running /\ Opener \notin Range(tasks)
    BY <1>12, <2>1, Posting DEF Parked
  <2>6. Typed'
    BY <1>1, <1>4, <1>5, <2>1, <2>3, <2>5 DEF Typed, Statuses, Places
  <2>7. Turn'
    BY <1>1, <1>4, <2>1, <2>2, <2>4, <2>5 DEF Turn, Parked, Posted, Over
  <2>8. Untouched'
    BY <1>1, <1>4, <2>1, <2>2, <2>4, <2>5 DEF Untouched, Fresh
  <2>9. Numbered'
    BY <1>1, <1>4, <2>1 DEF Numbered
  <2>10. Opening'
    <3>1. \A m \in (Range(tasks') \cup running') \ {Opener} : m \in guards'
      BY <1>1, <1>4, <1>9, <2>4, <2>5 DEF Opening
    <3>2. \A m : m # Opener => (m \in Range(tasks) <=> m \in Range(tasks'))
      BY <2>5
    <3>3. Opener \notin pending
      BY <1>1 DEF Typed
    <3>4. QED
      BY <1>1, <1>4, <3>1, <3>2, <3>3 DEF Opening, HasResult
  <2>11. Results'
    BY <1>1, <1>4, <1>5, <2>1, <2>5 DEF Results, Opened
  <2>12. Held'
    BY <1>1, <1>3, <1>4, <1>8, <2>1, <2>2, <2>4, <2>5 DEF Held, Holder
  <2>13. Emission' /\ Window' /\ Conserved'
    BY <1>1, <1>4, <1>10, <2>1, <2>2, <2>3 DEF Emission, Window, Over, Conserved
  <2>14. QED
    BY <2>6, <2>7, <2>8, <2>9, <2>10, <2>11, <2>12, <2>13 DEF IInv
<1>13. QED
  BY <1>11, <1>12

(* Steps in which nothing happens.                                         *)
LEMMA StutterKeepsInvariant ==
  ASSUME IInv, UNCHANGED vars
  PROVE  IInv'
<1>1. /\ UNCHANGED <<workers, regular, tasks, running, arrived, taken, inStatus, inParked, at, waiting, ended,
                     pending, future, ready, next, out, outParked, outStatus, slots, slotParked, guards,
                     down, packed, cancel>>
  BY DEF vars
<1>2. arrived' \in 0 .. Entries /\ taken <= arrived' /\ inStatus' \in Statuses /\ cancel' \in 0 .. 4
  BY <1>1, Parts DEF Typed
<1>3. QED
  BY <1>1, <1>2, InputKeepsInvariant

(* The flag alone resumes nobody.                                          *)
LEMMA CancelFlagKeepsInvariant ==
  ASSUME IInv, CancelFlag
  PROVE  IInv'
<1>1. /\ UNCHANGED <<workers, regular, tasks, running, arrived, taken, inStatus, inParked, at, waiting, ended,
                     pending, future, ready, next, out, outParked, outStatus, slots, slotParked, guards,
                     down, packed>>
      /\ cancel' = 1
  BY DEF CancelFlag, fixed, input, results, output, sems
<1>2. arrived' \in 0 .. Entries /\ taken <= arrived' /\ inStatus' \in Statuses /\ cancel' \in 0 .. 4
  BY <1>1, Parts DEF Typed
<1>3. QED
  BY <1>1, <1>2, InputKeepsInvariant

(* The invariant is inductive.                                             *)
LEMMA NextKeepsInvariant ==
  ASSUME IInv, [Next]_vars
  PROVE  IInv'
<1>1. CASE UNCHANGED vars
  BY <1>1, StutterKeepsInvariant
<1>2. CASE Finished
  BY <1>2, StutterKeepsInvariant DEF Finished
<1>3. CASE Dispatch
  BY <1>3, DispatchKeepsInvariant
<1>4. CASE OpenerStep
  BY <1>4, OpenerKeepsInvariant
<1>5. ASSUME NEW n \in Sequences_, OpenTask(n) PROVE IInv'
  BY <1>5, OpenTaskKeepsInvariant
<1>6. CASE Arrive
  BY <1>6, ArriveKeepsInvariant
<1>7. CASE CloseInput
  BY <1>7, CloseInputKeepsInvariant
<1>8. CASE TakeOpened
  BY <1>8, TakeOpenedKeepsInvariant
<1>9. CASE PackOne
  BY <1>9, PackOneKeepsInvariant
<1>10. CASE CancelFlag
  BY <1>10, CancelFlagKeepsInvariant
<1>11. CASE CancelStep
  BY <1>11, CancelInputKeepsInvariant, CancelOutputKeepsInvariant, CancelSlotsKeepsInvariant DEF CancelStep
<1>12. QED
  BY <1>1, <1>2, <1>3, <1>4, <1>5, <1>6, <1>7, <1>8, <1>9, <1>10, <1>11 DEF Next

(* It holds at the start: the coroutine is posted, and nothing is there.   *)
LEMMA InitGivesInvariant ==
  ASSUME Init
  PROVE  IInv
<1>1. /\ workers \in WorkerCounts /\ regular \in SUBSET Sequences_
      /\ tasks = <<Opener>> /\ running = {}
      /\ arrived = 0 /\ taken = 0 /\ inStatus = "Open" /\ inParked = FALSE
      /\ at = "next" /\ waiting = FALSE /\ ended = FALSE
      /\ pending = {} /\ future = [n \in Sequences_ |-> "none"] /\ ready = {} /\ next = 1
      /\ out = <<>> /\ outParked = FALSE /\ outStatus = "Open"
      /\ slots = Concurrency /\ slotParked = FALSE /\ guards = {}
      /\ down = <<>> /\ packed = 0 /\ cancel = 0
  BY DEF Init
<1>2. Cardinality(running) = 0 /\ Cardinality(pending) = 0 /\ Cardinality(guards) = 0
  BY <1>1, FS_EmptySet
<1>3. /\ Entries \in Nat /\ Concurrency \in Nat \ {0} /\ OutCapacity \in Nat \ {0} /\ workers \in Nat
      /\ Opener = 0 /\ Opener \notin Sequences_ /\ Opener \in 0 .. Entries /\ Sequences_ \subseteq Nat
  BY <1>1, Constants, OpenerAssumption DEF OpenerAssumption
<1>4. Range(tasks) = {Opener} /\ Line(tasks) /\ Len(out) = 0 /\ Len(down) = 0
      /\ Range(out) = {} /\ Range(down) = {}
  <2>1. Opener \notin Range(<<>>) /\ Range(<<>>) = {} /\ Line(<<>>) /\ Append(<<>>, Opener) = <<Opener>>
    BY RangeOfNone DEF Line
  <2>2. Line(Append(<<>>, Opener)) /\ Range(Append(<<>>, Opener)) = Range(<<>>) \cup {Opener}
    BY <1>3, <2>1, LineGrows
  <2>3. Len(out) = 0 /\ Len(down) = 0
    BY <1>1
  <2>4. QED
    BY <1>1, <2>1, <2>2, <2>3
<1>5. Typed
  BY <1>1, <1>2, <1>3, <1>4 DEF Typed, Places, Statuses
<1>6. Turn
  BY <1>1 DEF Turn, Parked, Over
<1>7. Untouched /\ Numbered
  <2>1. \A n \in Sequences_ : n # 0
    BY DEF Sequences_
  <2>2. QED
    BY <1>1, <1>3, <1>4, <2>1 DEF Untouched, Fresh, Numbered
<1>8. Opening /\ Results /\ Held
  BY <1>1, <1>4 DEF Opening, Results, Held
<1>9. Emission
  BY <1>1, <1>4 DEF Emission
<1>10. Window /\ Conserved
  BY <1>1, <1>2, <1>3 DEF Window, Over, Conserved
<1>11. QED
  BY <1>5, <1>6, <1>7, <1>8, <1>9, <1>10 DEF IInv

(***************************************************************************)
(* The flags are Booleans.                                                 *)
(***************************************************************************)
LEMMA FreeKeepsFlag ==
  ASSUME NEW freed, Free(freed), slotParked \in BOOLEAN
  PROVE  slotParked' \in BOOLEAN
BY Zenon DEF Free

(* The exception clears no flag.                                           *)
LEMMA ThrowKeepsFlags ==
  ASSUME Flags, Throw
  PROVE  Flags'
<1>1. slotParked' \in BOOLEAN
  BY FreeKeepsFlag, Zenon DEF Throw, Flags
<1>2. UNCHANGED <<inParked, waiting, ended, outParked>>
  BY DEF Throw
<1>3. QED
  BY <1>1, <1>2, Zenon DEF Flags

(* The steps of the coroutine.                                             *)
LEMMA OpenerKeepsFlags ==
  ASSUME Flags, OpenerStep
  PROVE  Flags'
<1>1. CASE Throw
  BY <1>1, ThrowKeepsFlags
<1>2. CASE NextEntry
  <2>1. inParked' \in BOOLEAN
    BY <1>2, Zenon DEF NextEntry, Flags
  <2>2. UNCHANGED <<waiting, ended, outParked, slotParked>>
    BY <1>2 DEF NextEntry, output, sems
  <2>3. QED
    BY <2>1, <2>2, Zenon DEF Flags
<1>3. CASE CheckEntry /\ ~Throw
  <2>1. UNCHANGED <<inParked, waiting, ended, outParked, slotParked>>
    BY <1>3 DEF CheckEntry, output, sems
  <2>2. QED
    BY <2>1, Zenon DEF Flags
<1>4. CASE TakeEntry
  <2>1. waiting' \in BOOLEAN /\ slotParked' \in BOOLEAN
    BY <1>4, Zenon DEF TakeEntry, Flags, sems
  <2>2. UNCHANGED <<inParked, ended, outParked>>
    BY <1>4 DEF TakeEntry, output
  <2>3. QED
    BY <2>1, <2>2, Zenon DEF Flags
<1>5. CASE Submit
  <2>1. waiting' = FALSE /\ UNCHANGED <<inParked, ended, outParked, slotParked>>
    BY <1>5 DEF Submit, output, sems
  <2>2. QED
    BY <2>1, Zenon DEF Flags
<1>6. CASE EmitReady
  <2>1. outParked' \in BOOLEAN
    BY <1>6, Zenon DEF EmitReady, Flags
  <2>2. slotParked' \in BOOLEAN
    <3>1. Free({next} \cap guards) \/ slotParked' = slotParked
      BY <1>6, Zenon DEF EmitReady, sems
    <3>2. QED
      BY <3>1, FreeKeepsFlag, Zenon DEF Flags
  <2>3. UNCHANGED <<inParked, waiting, ended>>
    BY <1>6 DEF EmitReady
  <2>4. QED
    BY <2>1, <2>2, <2>3, Zenon DEF Flags
<1>7. CASE CollectFuture /\ ~Throw
  <2>1. UNCHANGED <<inParked, waiting, ended, outParked, slotParked>>
    BY <1>7 DEF CollectFuture, output, sems
  <2>2. QED
    BY <2>1, Zenon DEF Flags
<1>8. CASE EmitDone
  <2>1. waiting' \in BOOLEAN
    BY <1>8, Zenon DEF EmitDone, Flags
  <2>2. UNCHANGED <<inParked, ended, outParked, slotParked>>
    BY <1>8 DEF EmitDone, sems
  <2>3. QED
    BY <2>1, <2>2, Zenon DEF Flags
<1>9. CASE DrainRest
  <2>1. waiting' = TRUE /\ ended' = TRUE /\ UNCHANGED <<inParked, outParked, slotParked>>
    BY <1>9 DEF DrainRest, output, sems
  <2>2. QED
    BY <2>1, Zenon DEF Flags
<1>10. CASE OperationFailed
  BY <1>1, <1>10 DEF OperationFailed
<1>11. QED
  BY <1>1, <1>2, <1>3, <1>4, <1>5, <1>6, <1>7, <1>8, <1>9, <1>10 DEF OpenerStep

(* All steps.                                                              *)
LEMMA NextKeepsFlags ==
  ASSUME Flags, [Next]_vars
  PROVE  Flags'
<1>1. CASE OpenerStep
  BY <1>1, OpenerKeepsFlags
<1>2. CASE Dispatch \/ CancelFlag \/ UNCHANGED vars \/ Finished
  <2>1. UNCHANGED <<inParked, waiting, ended, outParked, slotParked>>
    BY <1>2 DEF Dispatch, CancelFlag, Finished, vars, output, sems
  <2>2. QED
    BY <2>1, Zenon DEF Flags
<1>3. ASSUME NEW n \in Sequences_, OpenTask(n) PROVE Flags'
  <2>1. slotParked' = slotParked \/ \E freed : Free(freed)
    BY <1>3, Zenon DEF OpenTask, OpenChecked, OpenDone, OpenThrows, FreeAndPost, sems
  <2>2. slotParked' \in BOOLEAN
    BY <2>1, FreeKeepsFlag, Zenon DEF Flags
  <2>3. UNCHANGED <<inParked, waiting, ended, outParked>>
    BY <1>3 DEF OpenTask, output
  <2>4. QED
    BY <2>2, <2>3, Zenon DEF Flags
<1>4. CASE Arrive \/ CloseInput \/ CancelInput
  <2>1. inParked' \in BOOLEAN
    BY <1>4, Zenon DEF Arrive, CloseInput, CancelInput, EndInput, Flags
  <2>2. UNCHANGED <<waiting, ended, outParked, slotParked>>
    BY <1>4 DEF Arrive, CloseInput, CancelInput, output, sems
  <2>3. QED
    BY <2>1, <2>2, Zenon DEF Flags
<1>5. CASE TakeOpened
  <2>1. outParked' \in BOOLEAN
    BY <1>5, Zenon DEF TakeOpened, Flags
  <2>2. UNCHANGED <<inParked, waiting, ended, slotParked>>
    BY <1>5 DEF TakeOpened, sems
  <2>3. QED
    BY <2>1, <2>2, Zenon DEF Flags
<1>6. CASE PackOne
  <2>1. slotParked' \in BOOLEAN
    BY <1>6, FreeKeepsFlag, Zenon DEF PackOne, FreeAndPost, Flags
  <2>2. UNCHANGED <<inParked, waiting, ended, outParked>>
    BY <1>6 DEF PackOne
  <2>3. QED
    BY <2>1, <2>2, Zenon DEF Flags
<1>7. CASE CancelOutput
  <2>1. \E freed : Free(freed)
    BY <1>7 DEF CancelOutput
  <2>2. slotParked' \in BOOLEAN
    BY <2>1, FreeKeepsFlag, Zenon DEF Flags
  <2>3. outParked' \in BOOLEAN
    BY <1>7, Zenon DEF CancelOutput, Flags
  <2>4. UNCHANGED <<inParked, waiting, ended>>
    BY <1>7 DEF CancelOutput
  <2>5. QED
    BY <2>2, <2>3, <2>4, Zenon DEF Flags
<1>8. CASE CancelSlots
  <2>1. slotParked' \in BOOLEAN
    BY <1>8, Zenon DEF CancelSlots, Flags
  <2>2. UNCHANGED <<inParked, waiting, ended, outParked>>
    BY <1>8 DEF CancelSlots, output
  <2>3. QED
    BY <2>1, <2>2, Zenon DEF Flags
<1>9. QED
  BY <1>1, <1>2, <1>3, <1>4, <1>5, <1>6, <1>7, <1>8 DEF Next, CancelStep

(***************************************************************************)
(* What the steps of the tasks and of the stages around leave alone: the   *)
(* coroutine, unless it is parked and is posted.                           *)
(***************************************************************************)
Around ==
  \/ \E n \in Sequences_ : OpenTask(n)
  \/ Arrive \/ CloseInput \/ TakeOpened \/ PackOne \/ CancelFlag \/ CancelStep
  \/ Finished \/ UNCHANGED vars

(* It stays where it is, or was parked and is posted.                      *)
LeavesCoroutine ==
  /\ running' \subseteq running /\ UNCHANGED <<waiting, next, pending>>
  /\ \/ UNCHANGED <<tasks, at, taken>>
     \/ Parked /\ tasks' = Append(tasks, Opener)

(* Each of those steps does no more than that.                             *)
LEMMA AroundLeavesCoroutine ==
  ASSUME Around
  PROVE  LeavesCoroutine
<1>1. ASSUME NEW freed, FreeAndPost(freed), UNCHANGED <<at, taken>>
      PROVE  \/ UNCHANGED <<tasks, at, taken>>
             \/ Parked /\ tasks' = Append(tasks, Opener)
  BY <1>1 DEF FreeAndPost, Resumes, Parked
<1>2. ASSUME NEW n \in Sequences_, OpenTask(n) PROVE LeavesCoroutine
  <2>1. UNCHANGED <<waiting, next, pending, at, taken>>
    BY <1>2 DEF OpenTask
  <2>2. running' \subseteq running /\ (tasks' = tasks \/ \E freed : FreeAndPost(freed))
    BY <1>2 DEF OpenTask, OpenChecked, OpenDone, OpenThrows
  <2>3. QED
    BY <1>1, <2>1, <2>2 DEF LeavesCoroutine
<1>3. CASE Arrive
  BY <1>3 DEF Arrive, ResumeAt, results, LeavesCoroutine, Parked
<1>4. CASE CloseInput \/ CancelInput
  BY <1>4 DEF CloseInput, CancelInput, EndInput, ResumeAt, results, LeavesCoroutine, Parked
<1>5. CASE TakeOpened
  BY <1>5 DEF TakeOpened, results, LeavesCoroutine, Parked
<1>6. CASE PackOne
  <2>1. UNCHANGED <<running, waiting, next, pending, at, taken>> /\ \E freed : FreeAndPost(freed)
    BY <1>6 DEF PackOne, results
  <2>2. QED
    BY <1>1, <2>1 DEF LeavesCoroutine
<1>7. CASE CancelOutput
  <2>1. UNCHANGED <<running, waiting, next, pending, taken>>
    BY <1>7 DEF CancelOutput, results
  <2>2. CASE outParked
    BY <1>7, <2>1, <2>2 DEF CancelOutput, ResumeAt, LeavesCoroutine, Parked
  <2>3. CASE ~outParked
    <3>1. at' = at /\ \E freed : FreeAndPost(freed)
      BY <1>7, <2>3 DEF CancelOutput, FreeAndPost
    <3>2. QED
      BY <1>1, <2>1, <3>1 DEF LeavesCoroutine
  <2>4. QED
    BY <2>2, <2>3
<1>8. CASE CancelSlots
  BY <1>8 DEF CancelSlots, ResumeAt, results, LeavesCoroutine, Parked
<1>9. CASE CancelFlag \/ Finished \/ UNCHANGED vars
  BY <1>9 DEF CancelFlag, Finished, vars, results, LeavesCoroutine
<1>10. QED
  BY <1>2, <1>3, <1>4, <1>5, <1>6, <1>7, <1>8, <1>9 DEF Around, CancelStep

(* In particular nothing changes for a coroutine on its thread.            *)
LEMMA AroundTheCoroutine ==
  ASSUME IInv, Around
  PROVE  /\ running' \subseteq running /\ UNCHANGED <<waiting, next, pending>>
         /\ Range(tasks') \ {Opener} = Range(tasks) \ {Opener}
         /\ Opener \in running => UNCHANGED <<tasks, at, taken>>
         /\ Over => Over'
<1>1. Typed /\ Turn
  BY Parts
<1>2. /\ running' \subseteq running /\ UNCHANGED <<waiting, next, pending>>
      /\ \/ UNCHANGED <<tasks, at, taken>>
         \/ Parked /\ tasks' = Append(tasks, Opener)
  BY AroundLeavesCoroutine DEF LeavesCoroutine
<1>3. CASE UNCHANGED <<tasks, at, taken>>
  BY <1>2, <1>3 DEF Over
<1>4. CASE Parked /\ tasks' = Append(tasks, Opener)
  <2>1. Range(tasks') = Range(tasks) \cup {Opener}
    BY <1>4, Posting
  <2>2. Opener \notin running /\ ~Over
    BY <1>1, <1>4 DEF Turn, Parked, Over
  <2>3. QED
    BY <1>2, <2>1, <2>2
<1>5. QED
  BY <1>2, <1>3, <1>4

(***************************************************************************)
(* The coroutine awaits what it has submitted.                             *)
(***************************************************************************)
LEMMA SuspendingKeepsTasks ==
  ASSUME Typed, NEW r, Suspend(r)
  PROVE  /\ Range(tasks') \ {Opener} = Range(tasks) \ {Opener}
         /\ running' = running \ {Opener}
<1>1. tasks \in Seq(0 .. Entries)
  BY DEF Typed, Line
<1>2. CASE tasks' = Append(tasks, Opener)
  <2>1. Range(tasks') = Range(tasks) \cup {Opener}
    BY <1>1, <1>2, RangeOfAppend
  <2>2. QED
    BY <2>1 DEF Suspend
<1>3. CASE tasks' = tasks
  BY <1>3 DEF Suspend
<1>4. QED
  BY <1>2, <1>3, Zenon DEF Suspend

(* Every step keeps the tasks awaited.                                     *)
LEMMA NextKeepsAwaited ==
  ASSUME IInv, Awaited, [Next]_vars
  PROVE  Awaited'
<1>1. /\ Typed /\ Turn /\ Opening /\ Opener \notin Sequences_
      /\ (Opener \in running => ~Over)
  BY Parts DEF Turn
<1>2. ASSUME (Range(tasks') \cup running') \ {Opener} \subseteq (Range(tasks) \cup running) \ {Opener},
             pending' = pending, Over => Over'
      PROVE  Awaited'
  BY <1>2 DEF Awaited
<1>3. CASE Throw
  BY <1>3 DEF Throw, Awaited, Over
<1>4. CASE Around
  <2>1. /\ running' \subseteq running /\ pending' = pending
        /\ Range(tasks') \ {Opener} = Range(tasks) \ {Opener} /\ (Over => Over')
    BY <1>4, AroundTheCoroutine
  <2>2. (Range(tasks') \cup running') \ {Opener} \subseteq (Range(tasks) \cup running) \ {Opener}
    BY <2>1
  <2>3. QED
    BY <1>2, <2>1, <2>2
<1>5. CASE Dispatch
  <2>1. PICK h : h = Head(tasks)
    OBVIOUS
  <2>2. /\ tasks # <<>> /\ running' = running \cup {h} /\ tasks' = Tail(tasks)
        /\ pending' = pending /\ at' = at
    BY <1>5, <2>1 DEF Dispatch, results
  <2>3. Range(tasks) = {h} \cup Range(tasks')
    BY <1>1, <2>1, <2>2, LineShrinks DEF Typed
  <2>4. (Range(tasks') \cup running') \ {Opener} \subseteq (Range(tasks) \cup running) \ {Opener}
    BY <2>2, <2>3
  <2>5. QED
    BY <1>2, <2>2, <2>4 DEF Over
<1>6. ASSUME Opener \in running, pending' = pending, NEW r, Suspend(r)
      PROVE  Awaited'
  <2>1. Range(tasks') \ {Opener} = Range(tasks) \ {Opener} /\ running' = running \ {Opener}
    BY <1>1, <1>6, SuspendingKeepsTasks
  <2>2. (Range(tasks') \cup running') \ {Opener} \subseteq (Range(tasks) \cup running) \ {Opener}
    BY <2>1
  <2>3. QED
    BY <1>1, <1>2, <1>6, <2>2
<1>7. CASE NextEntry
  <2>1. Opener \in running /\ pending' = pending /\ \E r : Suspend(r)
    BY <1>7, Zenon DEF NextEntry, At, results
  <2>2. QED
    BY <1>6, <2>1
<1>8. ASSUME Opener \in running, UNCHANGED <<pending, tasks, running>>
      PROVE  Awaited'
  BY <1>1, <1>2, <1>8
<1>9. CASE CheckEntry /\ ~Throw
  BY <1>8, <1>9 DEF CheckEntry, At, results
<1>10. CASE TakeEntry
  <2>1. Opener \in running /\ pending' = pending
        /\ ((\E r : Suspend(r)) \/ UNCHANGED <<tasks, running>>)
    BY <1>10, Zenon DEF TakeEntry, At
  <2>2. QED
    BY <1>6, <1>8, <2>1
<1>11. CASE Submit
  <2>1. Opener \in running /\ running' = running /\ tasks' = Append(tasks, taken)
        /\ pending' = pending \cup {taken} /\ at = "slot" /\ at' = "emit"
    BY <1>11 DEF Submit, At
  <2>2. Range(tasks') = Range(tasks) \cup {taken}
    BY <1>1, <2>1, RangeOfAppend DEF Typed, Line
  <2>3. QED
    BY <2>1, <2>2 DEF Awaited, Over
<1>12. CASE EmitReady
  <2>1. Opener \in running /\ pending' = pending /\ \E r : Suspend(r)
    BY <1>12, Zenon DEF EmitReady, At
  <2>2. QED
    BY <1>6, <2>1
<1>13. CASE CollectFuture /\ ~Throw
  <2>1. Opener \in running /\ UNCHANGED <<tasks, running, at>> /\ pending' = pending \ {next}
        /\ future[next] = "ok"
    BY <1>13 DEF CollectFuture, At
  <2>2. next \notin Range(tasks) \ {Opener} /\ next \notin running \ {Opener}
    BY <1>1, <2>1 DEF Opening
  <2>3. QED
    BY <2>1, <2>2 DEF Awaited, Over
<1>14. CASE EmitDone
  <2>1. Opener \in running /\ UNCHANGED <<tasks, pending>>
        /\ (running' = running \/ at' = "finished")
    BY <1>14 DEF EmitDone, At, results
  <2>2. CASE at' = "finished"
    BY <2>2 DEF Awaited, Over
  <2>3. QED
    BY <1>8, <2>1, <2>2
<1>15. CASE DrainRest
  BY <1>8, <1>15 DEF DrainRest, At, results
<1>16. CASE OperationFailed
  BY <1>3, <1>16 DEF OperationFailed
<1>17. QED
  BY <1>3, <1>4, <1>5, <1>7, <1>9, <1>10, <1>11, <1>12, <1>13, <1>14, <1>15, <1>16
     DEF Next, OpenerStep, Around

(***************************************************************************)
(* The coroutine does not wait for the task it has just submitted.         *)
(***************************************************************************)
LEMMA NextKeepsAhead ==
  ASSUME IInv, Ahead, Concurrency > 1, [Next]_vars
  PROVE  Ahead'
<1>1. /\ Typed /\ Turn /\ Untouched /\ Numbered /\ Opener \notin Sequences_
      /\ pending \subseteq Sequences_ /\ Sequences_ \subseteq Nat /\ taken \in Nat /\ next \in Nat
  BY Parts
<1>2. CASE Around
  <2>1. /\ running' \subseteq running /\ UNCHANGED <<waiting, next>>
        /\ Opener \in running => UNCHANGED <<tasks, at, taken>>
    BY <1>2, AroundTheCoroutine
  <2>2. QED
    BY <2>1 DEF Ahead
<1>3. ASSUME Opener \notin running' \/ tasks' = <<>> \/ ~waiting' \/ at' # "emit"
      PROVE  Ahead'
  BY <1>3 DEF Ahead
<1>4. CASE Dispatch
  <2>1. /\ tasks # <<>> /\ running' = running \cup {Head(tasks)} /\ tasks' = Tail(tasks)
    BY <1>4 DEF Dispatch
  <2>2. CASE Opener \in running
    <3>1. tasks = <<taken>> /\ Tail(<<taken>>) = <<>>
      BY <1>1, <2>1, <2>2 DEF Turn
    <3>2. QED
      BY <1>3, <2>1, <3>1
  <2>3. CASE Head(tasks) = Opener
    BY <1>1, <1>3, <2>1, <2>3, LineShrinks DEF Typed
  <2>4. CASE Opener \notin running /\ Head(tasks) # Opener
    BY <1>3, <2>1, <2>4
  <2>5. QED
    BY <2>2, <2>3, <2>4
<1>5. ASSUME Opener \notin running' \/ UNCHANGED <<running, tasks, at, waiting, next, taken>>
      PROVE  Ahead'
  BY <1>5 DEF Ahead
<1>6. CASE Throw \/ NextEntry \/ EmitReady
  <2>1. running' = running \ {Opener}
    BY <1>6, Zenon DEF Throw, NextEntry, EmitReady, Suspend
  <2>2. QED
    BY <1>3, <2>1
<1>7. CASE CheckEntry /\ ~Throw
  <2>1. at' = "checked"
    BY <1>7 DEF CheckEntry
  <2>2. QED
    BY <1>3, <2>1
<1>8. CASE TakeEntry
  <2>1. at' # "emit" \/ waiting' = FALSE
    BY <1>8 DEF TakeEntry
  <2>2. QED
    BY <1>3, <2>1
<1>9. CASE Submit
  BY <1>3, <1>9 DEF Submit
<1>10. CASE CollectFuture /\ ~Throw
  BY <1>5, <1>10 DEF CollectFuture
<1>11. CASE EmitDone
  <2>1. /\ Opener \in running /\ at = "emit" /\ UNCHANGED <<tasks, next, taken>>
    BY <1>11 DEF EmitDone, At, results
  <2>2. CASE ended
    <3>1. tasks = <<>>
      BY <1>1, <2>1, <2>2 DEF Turn
    <3>2. QED
      BY <1>3, <2>1, <3>1
  <2>3. CASE ~ended /\ ~TooManyPending
    BY <1>3, <1>11, <2>3 DEF EmitDone
  <2>4. CASE ~ended /\ TooManyPending
    <3>1. \A n \in pending : n >= next /\ n <= taken
      <4>1. \A n \in pending : ~(n > taken)
        BY <1>1 DEF Untouched, Fresh
      <4>2. QED
        BY <1>1, <4>1 DEF Numbered
    <3>2. ASSUME ~(next < taken) PROVE FALSE
      <4>1. pending \subseteq {taken}
        BY <1>1, <3>1, <3>2
      <4>2. IsFiniteSet({taken}) /\ Cardinality({taken}) = 1
        BY FS_Singleton
      <4>3. Cardinality(pending) <= 1 /\ Cardinality(pending) \in Nat
        BY <4>1, <4>2, FS_Subset, FS_CardinalityType
      <4>4. Cardinality(pending) >= Concurrency /\ Concurrency \in Nat
        BY <2>4, Constants DEF TooManyPending
      <4>5. QED
        BY <4>3, <4>4
    <3>3. next' < taken'
      BY <2>1, <3>2
    <3>4. QED
      BY <3>3 DEF Ahead
  <2>5. QED
    BY <2>2, <2>3, <2>4
<1>12. CASE DrainRest
  <2>1. Opener \in running /\ at = "ended" /\ tasks' = tasks
    BY <1>12 DEF DrainRest, At
  <2>2. tasks = <<>>
    BY <1>1, <2>1 DEF Turn
  <2>3. QED
    BY <1>3, <2>1, <2>2
<1>13. CASE OperationFailed
  BY <1>6, <1>13 DEF OperationFailed
<1>14. QED
  BY <1>2, <1>4, <1>6, <1>7, <1>8, <1>9, <1>10, <1>11, <1>12, <1>13
     DEF Next, OpenerStep, Around

(***************************************************************************)
(* The properties.                                                         *)
(***************************************************************************)
(* The invariants of every reachable state.                                *)
LEMMA InvariantHolds == Spec => [](IInv /\ Flags /\ Awaited)
<1>1. Init => IInv /\ Flags /\ Awaited
  <2>1. Init => Flags
    BY Zenon DEF Init, Flags
  <2>2. Init => Awaited
    <3>1. SUFFICES ASSUME Init PROVE Awaited
      OBVIOUS
    <3>2. running = {} /\ Range(tasks) = {Opener}
      BY <3>1 DEF Init, Range
    <3>3. QED
      BY <3>2 DEF Awaited
  <2>3. QED
    BY <2>1, <2>2, InitGivesInvariant
<1>2. IInv /\ Flags /\ Awaited /\ [Next]_vars => (IInv /\ Flags /\ Awaited)'
  BY NextKeepsInvariant, NextKeepsFlags, NextKeepsAwaited
<1>3. QED
  BY <1>1, <1>2, PTL DEF Spec

(* The opener's variables have their types, and out_opened and open_slots_ *)
(* keep within their bounds, for any number of entries, any limits and any *)
(* size of the pool.                                                       *)
THEOREM TypeCorrect == Spec => []TypeOK
<1>1. IInv /\ Flags => TypeOK
  <2> SUFFICES ASSUME IInv, Flags PROVE TypeOK
    OBVIOUS
  <2>1. Typed /\ Emission /\ Conserved /\ next \in Nat /\ Entries \in Nat
    BY Parts
  <2>2. slots \in 0 .. Concurrency
    <3>1. slots \in Nat /\ Cardinality(guards) \in Nat /\ slots + Cardinality(guards) = Concurrency
      BY <2>1, GuardsAreFinite DEF Typed, Conserved
    <3>2. QED
      BY <3>1, Constants
  <2>3. packed \in 0 .. Entries
    <3>1. packed + Len(down) + Len(out) + (IF outParked THEN 1 ELSE 0) < next
      BY <2>1 DEF Emission
    <3>2. packed \in Nat /\ Len(down) \in Nat /\ Len(out) \in Nat /\ next \in 1 .. Entries + 1
      BY <2>1 DEF Typed
    <3>3. QED
      BY <2>1, <3>1, <3>2
  <2>4. tasks \in Seq(0 .. Entries)
    BY <2>1 DEF Typed, Line
  <2>5. {inParked, waiting, ended, outParked, slotParked} \subseteq BOOLEAN
    BY Zenon DEF Flags
  <2>6. QED
    BY <2>1, <2>2, <2>3, <2>4, <2>5 DEF TypeOK, Typed, Statuses, Places
<1>2. QED
  BY <1>1, InvariantHolds, PTL

(* Whatever the order in which the concurrent opens finish, what the       *)
(* packer gets are the entries in traversal order, each once and none      *)
(* skipped.                                                                *)
THEOREM EmittedOrdered == Spec => []EmittedInOrder
<1>1. IInv => EmittedInOrder
  <2> SUFFICES ASSUME IInv PROVE EmittedInOrder
    OBVIOUS
  <2>1. /\ down \in Seq(Sequences_) /\ out \in Seq(Sequences_) /\ packed \in Nat
        /\ \A i \in 1 .. Len(down) : down[i] = packed + i
        /\ \A i \in 1 .. Len(out) : out[i] = packed + Len(down) + i
    BY Parts DEF Typed, Emission
  <2>2. /\ DOMAIN (down \o out) = 1 .. Len(down) + Len(out) /\ Len(down) \in Nat /\ Len(out) \in Nat
        /\ \A i \in 1 .. Len(down) : (down \o out)[i] = down[i]
        /\ \A i \in 1 .. Len(down) + Len(out) : i > Len(down) => (down \o out)[i] = out[i - Len(down)]
    BY <2>1
  <2>3. ASSUME NEW i \in 1 .. Len(down) + Len(out) PROVE (down \o out)[i] = packed + i
    <3>1. CASE i <= Len(down)
      BY <2>1, <2>2, <3>1
    <3>2. CASE i > Len(down)
      <4>1. i - Len(down) \in 1 .. Len(out)
        BY <2>2, <3>2
      <4>2. out[i - Len(down)] = packed + Len(down) + (i - Len(down))
        BY <2>1, <4>1
      <4>3. QED
        BY <2>1, <2>2, <3>2, <4>2
    <3>3. QED
      BY <2>2, <3>1, <3>2
  <2>4. QED
    BY <2>2, <2>3 DEF EmittedInOrder
<1>2. QED
  BY <1>1, InvariantHolds, PTL

(* No open-file permit is lost or doubled, whoever lets go of the file     *)
(* last; and when everything is over, after a failure or a cancellation    *)
(* too, none is held.                                                      *)
THEOREM PermitsKept == Spec => []PermitsConserved
<1>1. IInv => PermitsConserved
  <2> SUFFICES ASSUME IInv PROVE PermitsConserved
    OBVIOUS
  <2>1. Turn /\ Held /\ Window /\ Conserved
    BY Parts
  <2>2. ASSUME Quiet PROVE guards = {}
    <3>1. /\ Over /\ tasks = <<>> /\ running = {} /\ out = <<>> /\ down = <<>>
          /\ ~outParked /\ at # "slot"
      BY <2>1, <2>2 DEF Quiet, Over, Turn
    <3>2. Range(tasks) = {} /\ Range(out) = {} /\ Range(down) = {} /\ pending = {} /\ ready = {}
      BY <2>1, <3>1, RangeOfNone DEF Window
    <3>3. QED
      BY <2>1, <3>1, <3>2 DEF Held, Holder
  <2>3. QED
    BY <2>1, <2>2 DEF PermitsConserved, Conserved
<1>2. QED
  BY <1>1, InvariantHolds, PTL

(* The opener never waits for itself, when it may open more than one file  *)
(* at a time: parked for a permit, it waits for a file that is already     *)
(* past it; blocked in future.get(), it waits for a task that has a thread *)
(* of its own. (detect_open_concurrency in config.cpp gives four files to  *)
(* each thread of the pool.)                                               *)
THEOREM WaitServed == ASSUME Concurrency > 1 PROVE Spec => []WaitIsServed
<1>1. Init => Ahead
  BY DEF Init, Ahead
<1>2. IInv /\ Ahead /\ [Next]_vars => Ahead'
  BY NextKeepsAhead
<1>3. Spec => []Ahead
  BY <1>1, <1>2, InvariantHolds, PTL DEF Spec
<1>4. IInv /\ Awaited /\ Ahead => WaitIsServed
  <2> SUFFICES ASSUME IInv, Awaited, Ahead PROVE WaitIsServed
    OBVIOUS
  <2>1. /\ Typed /\ Turn /\ Untouched /\ Numbered /\ Opening /\ Results /\ Held /\ Window /\ Conserved
        /\ Opener \notin Sequences_ /\ guards \subseteq regular /\ regular \subseteq Sequences_
        /\ pending \subseteq Sequences_ /\ taken \in Nat /\ next \in Nat
    BY Parts
  <2>2. ASSUME slotParked PROVE guards \cap (Range(down) \cup Range(out)) # {}
    <3>1. /\ at = "slot" /\ slots = 0 /\ ~outParked /\ ~Over /\ Cardinality(pending) < Concurrency
          /\ taken \in Sequences_
      BY <2>1, <2>2 DEF Turn, Over, Window, Numbered
    <3>2. taken \notin guards
      BY <2>1, <2>2, <3>1 DEF Untouched, Fresh
    <3>3. PICK n \in guards : n \notin pending
      <4>1. SUFFICES ASSUME guards \subseteq pending PROVE FALSE
        OBVIOUS
      <4>2. Cardinality(guards) <= Cardinality(pending) /\ Cardinality(guards) \in Nat
            /\ Cardinality(pending) \in Nat
        BY <2>1, <4>1, GuardsAreFinite, FS_Subset
      <4>3. slots + Cardinality(guards) = Concurrency /\ Concurrency \in Nat
        BY <2>1, Constants DEF Conserved
      <4>4. QED
        BY <3>1, <4>2, <4>3
    <3>4. n \notin running /\ n \notin Range(tasks) /\ n # taken
      BY <2>1, <3>1, <3>2, <3>3 DEF Awaited
    <3>5. n \notin ready
      BY <2>1, <3>1, <3>3 DEF Results
    <3>6. Holder(n)
      BY <2>1, <3>3 DEF Held
    <3>7. QED
      BY <3>1, <3>3, <3>4, <3>5, <3>6 DEF Holder
  <2>3. ASSUME BlockedInGet PROVE next \in running
    <3>1. /\ Opener \in running /\ at = "emit" /\ next \in pending /\ waiting /\ ~HasResult(next)
      BY <2>3 DEF BlockedInGet, At
    <3>2. next \in running \/ next \in Range(tasks)
      BY <2>1, <3>1 DEF Opening
    <3>3. ASSUME next \in Range(tasks) PROVE FALSE
      <4>1. tasks # <<>>
        BY <3>3, RangeOfNone
      <4>2. tasks = <<taken>> /\ next < taken
        BY <2>1, <3>1, <4>1 DEF Turn, Ahead
      <4>3. Range(<<taken>>) = {taken}
        BY DEF Range
      <4>4. QED
        BY <2>1, <3>3, <4>2, <4>3
    <3>4. QED
      BY <3>2, <3>3
  <2>4. QED
    BY <2>2, <2>3 DEF WaitIsServed
<1>5. QED
  BY <1>3, <1>4, InvariantHolds, PTL

=============================================================================
