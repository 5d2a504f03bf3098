----------------------- MODULE OverlappedReaderProofs -----------------------
(***************************************************************************)
(* Proofs about OverlappedReader, for any depth of the ring, any sizes and *)
(* any scenario.                                                           *)
(*                                                                         *)
(* The system never writes to a buffer that was given back: a read is      *)
(* pending only in a slot whose in_flight flag is set (Owned); close()     *)
(* waits for exactly those slots, so all slots behind it are free          *)
(* (ClosedSoFar), and the handle goes when all of them are.                *)
(*                                                                         *)
(* The user gets the file in order, which rests on the shape of the ring   *)
(* (InOrder); and what is read ahead for a file in a queue is within its   *)
(* budget, which rests on that and on sums of lengths (Budgeted).          *)
(***************************************************************************)
EXTENDS OverlappedReader, SequenceTheorems, FiniteSetTheorems, WellFoundedInduction, TLAPS

SlotRecord == [inFlight : BOOLEAN, buffer : BOOLEAN, offset : Int, length : Int]
Results == {"none", "pending", "ok", "short", "read", "aborted"}

RingRecord == [issueOffset : Int, toIssue : Slot, toConsume : Slot, inFlight : Int, offset : Int]

Typed ==
  /\ scenario.size \in Int
  /\ slot \in [Slot -> SlotRecord]
  /\ op \in [Slot -> Results]
  /\ then \in {"prime", "consume", "deliver"}
  /\ ring \in RingRecord

Owned == \A s \in Slot : op[s] = "pending" => slot[s].inFlight /\ slot[s].buffer

(* The slot a read is about to be issued to has its buffer and no read.    *)
SlotIsTaken == pc = "readFile" => at \in Slot /\ slot[at].buffer /\ ~slot[at].inFlight

ClosedSoFar ==
  /\ pc = "close" => at \in 0 .. Depth
  /\ pc = "closeWait" => at \in Slot
  /\ pc \in {"close", "closeWait"} => \A s \in Slot : s < at => ~slot[s].inFlight
  /\ pc = "closed" => \A s \in Slot : ~slot[s].inFlight

OpenUntilClosed == pc # "closed" => open

IInv == Typed /\ Owned /\ SlotIsTaken /\ ClosedSoFar /\ OpenUntilClosed

LEMMA DepthIsPositive == Depth \in Nat \ {0} /\ SlotSize \in Nat
BY ReaderAssumption DEF ReaderAssumption

LEMMA ModIsSlot ==
  ASSUME NEW a \in Int
  PROVE  a % Depth \in Slot
BY DepthIsPositive DEF Slot

LEMMA NextIsSlot ==
  ASSUME NEW s \in Slot
  PROVE  NextSlot(s) \in Slot
<1>1. s + 1 \in Int
  BY DepthIsPositive DEF Slot
<1> QED BY <1>1, ModIsSlot DEF NextSlot

LEMMA MinIsLeast ==
  ASSUME NEW S \in SUBSET Nat, S # {}
  PROVE  Min(S) \in S /\ \A x \in S : Min(S) <= x
<1>1. \E x \in S : \A y \in S : ~(<<y, x>> \in OpToRel(<, Nat))
  BY NatLessThanWellFounded, WFMin
<1>2. PICK x \in S : \A y \in S : ~(<<y, x>> \in OpToRel(<, Nat))
  BY <1>1
<1>3. \A y \in S : x <= y
  <2> SUFFICES ASSUME NEW y \in S PROVE x <= y
    OBVIOUS
  <2>1. <<y, x>> \in Nat \X Nat
    OBVIOUS
  <2>2. ~(y < x)
    BY <1>2, <2>1 DEF OpToRel
  <2> QED BY <2>2
<1> QED BY <1>3 DEF Min

LEMMA FreeIsRecord == Free \in SlotRecord /\ ~Free.inFlight /\ ~Free.buffer
<1>1. Free \in SlotRecord
  BY DEF Free, SlotRecord
<1>2. ~Free.inFlight /\ ~Free.buffer
  BY DEF Free
<1> QED BY <1>1, <1>2

LEMMA LengthIsInt ==
  ASSUME Typed
  PROVE  Length \in Int
BY DepthIsPositive DEF Typed, RingRecord, Length, ChunkSize, Smaller

(* Actions that leave the slots, the reads and the handle alone, and do    *)
(* not get into the middle of issuing or closing.                          *)
LEMMA ElsewhereKeepsInvariant ==
  ASSUME IInv, UNCHANGED <<scenario, op, slot, ring, open>>,
         then' \in {"prime", "consume", "deliver"},
         pc \notin {"close", "closeWait", "closed"},
         pc' \notin {"readFile", "close", "closeWait", "closed"} \/ (pc' = "close" /\ at' = 0)
  PROVE  IInv'
<1>1. Typed' /\ Owned'
  BY DEF IInv, Typed, Owned
<1>2. SlotIsTaken' /\ OpenUntilClosed'
  BY DEF IInv, SlotIsTaken, OpenUntilClosed
<1>3. ClosedSoFar'
  BY DepthIsPositive DEF ClosedSoFar, Slot
<1> QED BY <1>1, <1>2, <1>3 DEF IInv

(* A slot with no read pending is freed, on the way to the next slot or to *)
(* an error.                                                               *)
LEMMA FreedKeepsInvariant ==
  ASSUME IInv, NEW s \in Slot, op[s] # "pending", slot' = [slot EXCEPT ![s] = Free],
         op' = op \/ op' = [op EXCEPT ![s] = "none"],
         UNCHANGED <<scenario, open>>, then' \in {"prime", "consume", "deliver"},
         ring' \in RingRecord,
         pc \notin {"close", "closeWait", "closed"},
         pc' \in {"issue", "deliver"} \/ (pc' = "close" /\ at' = 0)
  PROVE  IInv'
<1>1. Typed'
  BY FreeIsRecord DEF IInv, Typed, Results
<1>2. Owned'
  BY DEF IInv, Owned, Typed
<1>3. SlotIsTaken' /\ OpenUntilClosed'
  BY DEF IInv, SlotIsTaken, OpenUntilClosed
<1>4. ClosedSoFar'
  BY DepthIsPositive DEF ClosedSoFar, Slot
<1> QED BY <1>1, <1>2, <1>3, <1>4 DEF IInv

LEMMA IssueKeepsInvariant ==
  ASSUME IInv, Issue
  PROVE  IInv'
<1>1. CASE pc' # "readFile"
  <2>1. /\ UNCHANGED <<scenario, op, slot, ring, open>> /\ then' = then /\ pc = "issue"
        /\ pc' \in {"push", "call", "consume", "deliver"} \/ (pc' = "close" /\ at' = 0)
    BY <1>1 DEF Issue, Throw, NothingIssued, AfterPrefetch, IInv, Typed
  <2> QED BY <2>1, ElsewhereKeepsInvariant DEF IInv, Typed
<1>2. CASE pc' = "readFile"
  <2>1. /\ Probes # {} /\ at' = (ring.toIssue + Min(Probes)) % Depth
        /\ slot' = [slot EXCEPT ![at'] = [inFlight |-> FALSE, buffer |-> TRUE,
                                         offset |-> ring.issueOffset, length |-> Length]]
        /\ pc = "issue"
        /\ UNCHANGED <<scenario, op, ring, open, then>>
    BY <1>2 DEF Issue, Throw, NothingIssued, AfterPrefetch, IInv, Typed
  <2>2. Min(Probes) \in Probes
    <3>1. Probes \in SUBSET Nat
      BY DepthIsPositive DEF Probes, Slot
    <3> QED BY <2>1, <3>1, MinIsLeast
  <2>3. at' \in Slot /\ ~slot[at'].inFlight
    <3>1. ring.toIssue + Min(Probes) \in Int
      <4>1. Min(Probes) \in Slot /\ ring.toIssue \in Slot
        BY <2>2 DEF Probes, IInv, Typed, RingRecord
      <4> QED BY <4>1, DepthIsPositive DEF Slot
    <3>2. at' \in Slot
      BY <2>1, <3>1, ModIsSlot
    <3>3. ~slot[at'].inFlight
      BY <2>1, <2>2 DEF Probes
    <3> QED BY <3>2, <3>3
  <2>4. Typed'
    BY <2>1, <2>3, LengthIsInt DEF IInv, Typed, SlotRecord, RingRecord
  <2>5. /\ slot'[at'].buffer /\ ~slot'[at'].inFlight
        /\ \A s \in Slot \ {at'} : slot'[s] = slot[s]
    BY <2>1, <2>3 DEF IInv, Typed
  <2>6. Owned' /\ SlotIsTaken'
    BY <2>1, <2>3, <2>5 DEF IInv, Owned, SlotIsTaken
  <2>7. ClosedSoFar' /\ OpenUntilClosed'
    BY <1>2, <2>1 DEF IInv, ClosedSoFar, OpenUntilClosed
  <2> QED BY <2>4, <2>6, <2>7 DEF IInv
<1> QED BY <1>1, <1>2

LEMMA ReadFileKeepsInvariant ==
  ASSUME IInv, ReadFile
  PROVE  IInv'
<1>1. at \in Slot /\ slot[at].buffer /\ ~slot[at].inFlight /\ op[at] # "pending" /\ pc = "readFile"
      /\ slot[at].length \in Int
  BY DEF ReadFile, IInv, SlotIsTaken, Owned, Typed, SlotRecord
<1>2. CASE op' # op
  <2>1. /\ op' = [op EXCEPT ![at] = "pending"]
        /\ slot' = [slot EXCEPT ![at].inFlight = TRUE]
        /\ ring' = [ring EXCEPT !.toIssue = NextSlot(at), !.issueOffset = @ + slot[at].length,
                                !.inFlight = @ + 1]
        /\ pc' = then /\ UNCHANGED <<scenario, open, then>>
    BY <1>2 DEF ReadFile
  <2>2. NextSlot(at) \in Slot
    BY <1>1, NextIsSlot
  <2>3. slot' \in [Slot -> SlotRecord]
    BY <1>1, <2>1 DEF IInv, Typed, SlotRecord
  <2>4. Typed'
    <3>1. op' \in [Slot -> Results]
      BY <1>1, <2>1 DEF IInv, Typed, Results
    <3>2. ring' \in RingRecord
      <4>1. /\ ring \in RingRecord /\ ring.issueOffset + slot[at].length \in Int
            /\ ring.inFlight + 1 \in Int
        BY <1>1 DEF IInv, Typed, RingRecord
      <4> QED BY <4>1, <2>1, <2>2 DEF RingRecord
    <3> QED BY <2>1, <2>3, <3>1, <3>2 DEF IInv, Typed
  <2>5. /\ slot'[at].inFlight /\ slot'[at].buffer
        /\ \A s \in Slot \ {at} : slot'[s] = slot[s] /\ op'[s] = op[s]
    BY <1>1, <2>1 DEF IInv, Typed, SlotRecord
  <2>6. Owned'
    BY <2>5 DEF IInv, Owned
  <2>7. SlotIsTaken' /\ ClosedSoFar' /\ OpenUntilClosed'
    BY <1>1, <2>1 DEF IInv, Typed, SlotIsTaken, ClosedSoFar, OpenUntilClosed
  <2> QED BY <2>4, <2>6, <2>7 DEF IInv
<1>3. CASE op' = op
  <2>1. slot' = [slot EXCEPT ![at] = Free] /\ pc' = "close" /\ at' = 0
        /\ UNCHANGED <<scenario, ring, open, then>>
    BY <1>1, <1>3 DEF ReadFile, Throw, IInv, Typed
  <2>2. /\ then' \in {"prime", "consume", "deliver"}
        /\ ring' \in RingRecord
    BY <2>1 DEF IInv, Typed
  <2> QED BY <1>1, <1>3, <2>1, <2>2, FreedKeepsInvariant
<1> QED BY <1>2, <1>3

LEMMA ConsumeKeepsInvariant ==
  ASSUME IInv, Consume
  PROVE  IInv'
<1>1. CASE ring.inFlight = 0
  <2>1. /\ UNCHANGED <<scenario, op, slot, ring, open>> /\ then' = then
        /\ pc = "consume" /\ pc' = "deliver"
    BY <1>1 DEF Consume
  <2> QED BY <2>1, ElsewhereKeepsInvariant DEF IInv, Typed
<1>2. CASE ring.inFlight # 0
  <2> DEFINE s == ring.toConsume
  <2>1. s \in Slot /\ then \in {"prime", "consume", "deliver"}
    BY DEF IInv, Typed, RingRecord
  <2>2. /\ pc = "consume" /\ op[s] # "pending" /\ op' = [op EXCEPT ![s] = "none"]
        /\ slot' = [slot EXCEPT ![s] = Free] /\ UNCHANGED <<scenario, open>>
    BY <1>2 DEF Consume, NextToConsume
  <2>3. /\ pc' \in {"issue", "deliver"} \/ (pc' = "close" /\ at' = 0)
        /\ then' \in {"prime", "consume", "deliver"}
    BY <1>2, <2>1 DEF Consume, NextToConsume, Throw
  <2>4. ring' \in RingRecord
    <3> DEFINE taken == [ring EXCEPT !.toConsume = NextSlot(@), !.inFlight = @ - 1]
               after == slot[s].offset + slot[s].length
    <3>1. \/ ring' = ring \/ ring' = taken \/ ring' = [taken EXCEPT !.offset = after]
      BY <1>2 DEF Consume, NextToConsume
    <3>2. ring \in RingRecord /\ after \in Int /\ ring.inFlight - 1 \in Int /\ NextSlot(s) \in Slot
      BY <2>1, NextIsSlot DEF IInv, Typed, SlotRecord, RingRecord
    <3>3. taken \in RingRecord
      BY <3>2 DEF RingRecord
    <3> QED BY <3>1, <3>2, <3>3 DEF RingRecord
  <2> QED BY <2>1, <2>2, <2>3, <2>4, FreedKeepsInvariant
<1> QED BY <1>1, <1>2

(* The system ends or aborts reads: none becomes pending.                  *)
LEMMA SystemKeepsInvariant ==
  ASSUME IInv, op' \in [Slot -> Results],
         \A s \in Slot : op'[s] = "pending" => op[s] = "pending",
         UNCHANGED <<scenario, slot, ring, open, pc, then, at>>
  PROVE  IInv'
BY DEF IInv, Typed, Owned, SlotIsTaken, ClosedSoFar, OpenUntilClosed

LEMMA CloseKeepsInvariant ==
  ASSUME IInv, CloseSlot \/ CloseWait \/ CloseHandle
  PROVE  IInv'
<1>1. CASE CloseSlot /\ slot[at].inFlight
  <2>1. /\ pc = "close" /\ at \in Slot /\ pc' = "closeWait"
        /\ UNCHANGED <<scenario, slot, ring, open, then, at>>
        /\ op' = op \/ op' = [op EXCEPT ![at] = IF @ = "pending" THEN "aborted" ELSE @]
    BY <1>1 DEF CloseSlot, AbortOrNot
  <2>2. op' \in [Slot -> Results] /\ \A s \in Slot : op'[s] = "pending" => op[s] = "pending"
    BY <2>1 DEF IInv, Typed, Results
  <2>3. Typed' /\ Owned'
    BY <2>1, <2>2 DEF IInv, Typed, Owned
  <2> QED BY <2>1, <2>3 DEF IInv, SlotIsTaken, ClosedSoFar, OpenUntilClosed
<1>2. CASE (CloseSlot /\ ~slot[at].inFlight) \/ CloseWait
  <2>1. /\ pc \in {"close", "closeWait"} /\ at \in Slot /\ op[at] # "pending" /\ op' = op
        /\ slot' = [slot EXCEPT ![at] = Free] /\ at' = at + 1 /\ pc' = "close"
        /\ UNCHANGED <<scenario, ring, open, then>>
    BY <1>2 DEF CloseSlot, CloseWait, MayRelease, IInv, Owned, ClosedSoFar
  <2>2. /\ ~slot'[at].inFlight /\ \A s \in Slot \ {at} : slot'[s] = slot[s]
    BY <2>1, FreeIsRecord DEF IInv, Typed
  <2>3. Typed'
    BY <2>1, FreeIsRecord DEF IInv, Typed
  <2>4. Owned'
    BY <2>1, <2>2 DEF IInv, Owned
  <2>5. ClosedSoFar'
    <3>1. at' \in 0 .. Depth
      BY <2>1, DepthIsPositive DEF Slot
    <3>2. \A s \in Slot : s < at' => s < at \/ s = at
      BY <2>1, DepthIsPositive DEF Slot
    <3> QED BY <2>1, <2>2, <3>1, <3>2 DEF IInv, ClosedSoFar
  <2> QED BY <2>1, <2>3, <2>4, <2>5 DEF IInv, SlotIsTaken, OpenUntilClosed
<1>3. CASE CloseHandle
  <2>1. /\ pc = "close" /\ at = Depth /\ pc' = "closed"
        /\ UNCHANGED <<scenario, op, slot, ring, then>>
    BY <1>3 DEF CloseHandle
  <2>2. \A s \in Slot : ~slot[s].inFlight
    BY <2>1, DepthIsPositive DEF IInv, ClosedSoFar, Slot
  <2> QED BY <2>1, <2>2 DEF IInv, Typed, Owned, SlotIsTaken, ClosedSoFar, OpenUntilClosed
<1> QED BY <1>1, <1>2, <1>3

LEMMA UserKeepsInvariant ==
  ASSUME IInv,
         Prefetch \/ Prime \/ Read \/ InQueue \/ Take \/ AddEntry \/ Deliver \/ Drop \/ Call \/ Copy
  PROVE  IInv'
<1>1. /\ UNCHANGED <<scenario, op, slot, ring, open>>
      /\ pc \notin {"close", "closeWait", "closed"}
  BY DEF Prefetch, Prime, Read, InQueue, Push, Promote, Leave, Take, AddEntry, Deliver,
         Drop, Dispose, Throw, Call, Copy
<1>2. then' \in {"prime", "consume", "deliver"}
  BY DEF Prefetch, Prime, Read, InQueue, Push, Promote, Leave, Take, AddEntry, Deliver,
         Drop, Dispose, Throw, Call, Copy, IInv, Typed
<1>3. pc' \notin {"readFile", "close", "closeWait", "closed"} \/ (pc' = "close" /\ at' = 0)
  BY DEF Prefetch, Prime, Read, InQueue, Push, Promote, Leave, Take, AddEntry, Deliver,
         Drop, Dispose, Throw, Call, Copy, AfterPrefetch, Returns
<1> QED BY <1>1, <1>2, <1>3, ElsewhereKeepsInvariant

LEMMA EndQueueKeepsInvariant ==
  ASSUME IInv, EndQueue
  PROVE  IInv'
<1>1. /\ UNCHANGED <<scenario, op, slot, ring, open, then>>
      /\ \/ pc \in {"parked", "queued"} /\ pc' = "close" /\ at' = 0
         \/ UNCHANGED <<pc, at>>
  BY DEF EndQueue, CloseQueue, AbandonQueue, Dispose
<1>2. then' \in {"prime", "consume", "deliver"} /\ op \in [Slot -> Results]
  BY <1>1 DEF IInv, Typed
<1> QED BY <1>1, <1>2, ElsewhereKeepsInvariant, SystemKeepsInvariant

LEMMA NextKeepsInvariant == IInv /\ [Next]_vars => IInv'
<1> SUFFICES ASSUME IInv, [Next]_vars PROVE IInv'
  OBVIOUS
<1>1. CASE Prefetch \/ Prime \/ Read \/ InQueue \/ Take \/ AddEntry \/ Deliver \/ Drop \/ Call \/ Copy
  BY <1>1, UserKeepsInvariant
<1>2. CASE Issue
  BY <1>2, IssueKeepsInvariant
<1>3. CASE ReadFile
  BY <1>3, ReadFileKeepsInvariant
<1>4. CASE Consume
  BY <1>4, ConsumeKeepsInvariant
<1>5. CASE CloseSlot \/ CloseWait \/ CloseHandle
  BY <1>5, CloseKeepsInvariant
<1>6. CASE Complete
  <2>1. PICK s \in Slot : op[s] = "pending" /\ op' \in {[op EXCEPT ![s] = r] : r \in {"ok", "read", "short"}}
    BY <1>6 DEF Complete
  <2>2. op' \in [Slot -> Results] /\ \A t \in Slot : op'[t] = "pending" => op[t] = "pending"
    BY <2>1 DEF IInv, Typed, Results
  <2> QED BY <1>6, <2>2, SystemKeepsInvariant DEF Complete
<1>7. CASE Cancel
  <2>1. UNCHANGED <<scenario, op, slot, ring, open, pc, then, at>>
    BY <1>7 DEF Cancel
  <2> QED BY <2>1, SystemKeepsInvariant DEF IInv, Typed
<1>8. CASE CancelReader
  <2>1. op' \in [Slot -> Results] /\ \A s \in Slot : op'[s] = "pending" => op[s] = "pending"
    <3>1. \/ op' = op
          \/ \E done \in SUBSET Slot : op' = [s \in Slot |-> IF s \in done THEN "aborted" ELSE op[s]]
      BY <1>8 DEF CancelReader, RequestCancel, CancelIo
    <3> QED BY <3>1 DEF IInv, Typed, Results
  <2> QED BY <1>8, <2>1, SystemKeepsInvariant DEF CancelReader
<1>9. CASE UNCHANGED vars
  BY <1>9, SystemKeepsInvariant DEF vars, IInv, Typed
<1>10. CASE EndQueue
  BY <1>10, EndQueueKeepsInvariant
<1> QED
  BY <1>10, <1>1, <1>2, <1>3, <1>4, <1>5, <1>6, <1>7, <1>8, <1>9 DEF Next, UserStep, Finished

LEMMA InitEstablishesInvariant == Init => IInv
<1> SUFFICES ASSUME Init PROVE IInv
  OBVIOUS
<1>1. scenario.size \in Int
  BY ReaderAssumption DEF ReaderAssumption, Init
<1>2. 0 \in Slot /\ 0 \in 0 .. Depth
  BY DepthIsPositive DEF Slot
<1>3. Typed
  BY <1>1, <1>2, FreeIsRecord DEF Init, Typed, Results, RingRecord
<1>4. Owned /\ SlotIsTaken /\ ClosedSoFar /\ OpenUntilClosed
  BY DEF Init, Owned, SlotIsTaken, ClosedSoFar, OpenUntilClosed, Source
<1> QED BY <1>3, <1>4 DEF IInv

LEMMA InvariantOwnsBuffers == IInv => BuffersAreOwned
BY DEF IInv, Owned, ClosedSoFar, OpenUntilClosed, BuffersAreOwned

(* However a reader is let go of - at its end, on an error, on a cancelled *)
(* transfer, out of a queue that is disposed of - and in whatever order    *)
(* the system ends its reads, no read is ever in flight into a buffer that *)
(* went back or on a handle that was closed.                               *)
THEOREM OwnedBuffers == Spec => []BuffersAreOwned
<1>1. Spec => []IInv
  BY InitEstablishesInvariant, NextKeepsInvariant, PTL DEF Spec
<1> QED BY <1>1, InvariantOwnsBuffers, PTL

(***************************************************************************)
(* The shape of the ring and the order of the data, while the reader has   *)
(* not been let go of. Every slot in flight has its place in the ring, and *)
(* no other has a buffer but the one a read is about to be issued to       *)
(* (Shape, Chosen): so the probe always finds the slot behind the last     *)
(* read, and the reads in the ring cover the file between what was         *)
(* consumed and what was issued without a gap. What the user has and the   *)
(* chunk in hand are what was consumed (Data); that a chunk is empty only  *)
(* at the end of the file needs to know what every place of the code       *)
(* follows upon (Course).                                                  *)
(***************************************************************************)
Place(j) == (ring.toConsume + j) % Depth

Bounded ==
  /\ scenario \in Scenarios
  /\ op \in [Slot -> Results]
  /\ slot \in [Slot -> [inFlight : BOOLEAN, buffer : BOOLEAN,
                        offset : 0 .. scenario.size, length : 0 .. SlotSize]]
  /\ ring \in [issueOffset : 0 .. scenario.size, toIssue : Slot, toConsume : Slot,
               inFlight : 0 .. Depth, offset : 0 .. scenario.size]
  /\ pc \in {"opened", "push", "parked", "queued", "prime", "issue", "readFile", "entry", "call",
            "read", "consume", "deliver", "copy", "close", "closeWait", "closed"}
  /\ then \in {"prime", "consume", "deliver"} /\ at \in 0 .. Depth
  /\ issued \in Nat /\ wanted \in Nat /\ copied \in Nat /\ guard \in Nat
  /\ open \in BOOLEAN /\ cancel \in 0 .. 3
  /\ outcome \in {"none", "done", "cancelled", "failed", "disposed", "destroyed", "stopped"}

Shape ==
  /\ ring.toIssue = Place(ring.inFlight)
  /\ \A j \in 0 .. ring.inFlight - 1 :
       /\ InRing(j).inFlight /\ InRing(j).length > 0
       /\ InRing(j).offset + InRing(j).length =
            IF j = ring.inFlight - 1 THEN ring.issueOffset ELSE InRing(j + 1).offset
       /\ j = 0 => InRing(j).offset = ring.offset
  /\ ring.inFlight = 0 => ring.offset = ring.issueOffset
  /\ \A s \in Slot : slot[s].inFlight => \E j \in 0 .. ring.inFlight - 1 : s = Place(j)

Chosen ==
  /\ \A s \in Slot : slot[s].buffer => slot[s].inFlight \/ (pc = "readFile" /\ s = at)
  /\ pc = "readFile" =>
       /\ at = ring.toIssue /\ ring.inFlight < Depth /\ ring.issueOffset < scenario.size
       /\ slot[at].offset = ring.issueOffset /\ slot[at].length = Length

(* What is known at each place of the code.                                *)
Issuing == pc \in {"issue", "readFile"}
Priming == pc = "prime" \/ (Issuing /\ then = "prime")

Copying == pc \in {"read", "consume", "deliver", "copy"} \/ (Issuing /\ then # "prime")

Course ==
  /\ pc \in {"call", "copy"} => Source
  /\ pc \in {"opened", "push", "parked", "queued", "entry"} => ~Source
  /\ pc \in {"opened", "prime"} => then = "prime"
  /\ pc \in {"opened", "push", "parked", "queued", "prime", "entry", "read", "consume"} => chunk = <<>>
  /\ Issuing => ((chunk = <<>>) <=> (then # "deliver"))
  /\ pc = "copy" => chunk # <<>>
  /\ pc = "deliver" => chunk # <<>> \/ (Source /\ ring.offset = scenario.size)
  /\ pc = "read" /\ ~Source => ring.offset < scenario.size
  /\ Issuing /\ then = "consume" => ring.inFlight = 0 /\ ring.offset < scenario.size
  /\ pc = "consume" => ring.inFlight > 0
  /\ Source /\ Copying => wanted > 0

(* The units of the file from a on.                                        *)
Units(a, n) == [k \in 1 .. n |-> a + k - 1]

Data ==
  \E n, m \in Nat : /\ delivered = Units(0, n) /\ chunk = Units(n, m)
                    /\ Working => n + m = ring.offset
                    /\ outcome = "done" => n = scenario.size

(* Why it ended, and what the system may have said.                        *)
Blame ==
  /\ Working <=> outcome = "none"
  /\ outcome = "failed" => scenario.fault \in {"issue", "read", "short"}
  /\ \A s \in Slot : /\ op[s] \in {"read", "short"} => op[s] = scenario.fault
                     /\ Working /\ op[s] = "aborted" => CancelRequested

InOrder == Bounded /\ (Working => Shape /\ Chosen /\ Course) /\ Data /\ Blame

(***************************************************************************)
(* Arithmetic of the ring, and of units.                                   *)
(***************************************************************************)
LEMMA WrapAround ==
  ASSUME NEW a \in 0 .. 2 * Depth - 1
  PROVE  a % Depth = IF a < Depth THEN a ELSE a - Depth
<1>1. ASSUME NEW d \in Nat \ {0}, NEW b \in 0 .. d - 1 PROVE b % d = b
  OBVIOUS
<1>2. ASSUME NEW d \in Nat \ {0}, NEW b \in d .. 2 * d - 1 PROVE b % d = b - d
  OBVIOUS
<1>3. Depth \in Nat \ {0} /\ a \in Nat
  BY DepthIsPositive
<1>4. CASE a < Depth
  BY <1>1, <1>3, <1>4
<1>5. CASE ~(a < Depth)
  <2>1. a \in Depth .. 2 * Depth - 1
    BY <1>3, <1>5
  <2>2. QED
    BY <1>2, <1>3, <1>5, <2>1
<1>6. QED
  BY <1>4, <1>5

(* Places behind one another, seen from the slot c.                        *)
LEMMA PlaceValue ==
  ASSUME NEW c \in Slot, NEW j \in 0 .. Depth
  PROVE  /\ (c + j) % Depth = IF c + j < Depth THEN c + j ELSE c + j - Depth
         /\ (c + j) % Depth \in Slot
<1>1. c \in Nat /\ c < Depth /\ j \in Nat /\ j <= Depth /\ Depth \in Nat
  BY DepthIsPositive DEF Slot
<1> DEFINE a == c + j
<1>2. a \in 0 .. 2 * Depth - 1
  BY <1>1
<1> HIDE DEF a
<1>3. a % Depth = IF a < Depth THEN a ELSE a - Depth
  BY <1>2, WrapAround
<1> USE DEF a
<1>4. QED
  BY <1>1, <1>3 DEF Slot

(* Two places of the ring are two slots.                                   *)
LEMMA PlacesDiffer ==
  ASSUME NEW c \in Slot, NEW j \in 0 .. Depth - 1, NEW k \in 0 .. Depth - 1,
         (c + j) % Depth = (c + k) % Depth
  PROVE  j = k
<1>1. c \in Nat /\ c < Depth /\ j \in Nat /\ k \in Nat /\ j < Depth /\ k < Depth /\ Depth \in Nat
  BY DepthIsPositive DEF Slot
<1>2. /\ (c + j) % Depth = IF c + j < Depth THEN c + j ELSE c + j - Depth
      /\ (c + k) % Depth = IF c + k < Depth THEN c + k ELSE c + k - Depth
  BY <1>1, PlaceValue
<1>3. QED
  BY <1>1, <1>2

(* The slot after a place is the next place.                               *)
LEMMA NextPlace ==
  ASSUME NEW c \in Slot, NEW j \in 0 .. Depth - 1
  PROVE  /\ NextSlot((c + j) % Depth) = (c + (j + 1)) % Depth
         /\ (NextSlot(c) + j) % Depth = (c + (j + 1)) % Depth
<1>1. c \in Nat /\ c < Depth /\ j \in Nat /\ j < Depth /\ Depth \in Nat \ {0} /\ j + 1 \in 0 .. Depth
  BY DepthIsPositive DEF Slot
<1>2. /\ (c + j) % Depth = IF c + j < Depth THEN c + j ELSE c + j - Depth
      /\ (c + (j + 1)) % Depth = IF c + (j + 1) < Depth THEN c + (j + 1) ELSE c + (j + 1) - Depth
      /\ (c + j) % Depth \in Slot
  <2> DEFINE i == j + 1
  <2>1. j \in 0 .. Depth /\ i \in 0 .. Depth
    BY <1>1
  <2> HIDE DEF i
  <2>2. /\ (c + j) % Depth = IF c + j < Depth THEN c + j ELSE c + j - Depth
        /\ (c + i) % Depth = IF c + i < Depth THEN c + i ELSE c + i - Depth
        /\ (c + j) % Depth \in Slot
    BY <2>1, PlaceValue
  <2>3. QED
    BY <2>2 DEF i
<1>3. \A s \in Slot : NextSlot(s) = IF s + 1 < Depth THEN s + 1 ELSE 0
  <2> SUFFICES ASSUME NEW s \in Slot PROVE NextSlot(s) = IF s + 1 < Depth THEN s + 1 ELSE 0
    OBVIOUS
  <2>1. s \in Nat /\ s < Depth
    BY <1>1 DEF Slot
  <2>2. 1 \in 0 .. Depth
    BY <1>1
  <2>3. (s + 1) % Depth = IF s + 1 < Depth THEN s + 1 ELSE s + 1 - Depth
    BY <2>2, PlaceValue
  <2>4. QED
    BY <1>1, <2>1, <2>3 DEF NextSlot
<1>4. NextSlot((c + j) % Depth) = (c + (j + 1)) % Depth
  <2> DEFINE p == (c + j) % Depth
             q == (c + (j + 1)) % Depth
  <2>1. NextSlot(p) = IF p + 1 < Depth THEN p + 1 ELSE 0
    BY <1>2, <1>3
  <2>2. /\ p = IF c + j < Depth THEN c + j ELSE c + j - Depth
        /\ q = IF c + (j + 1) < Depth THEN c + (j + 1) ELSE c + (j + 1) - Depth
    BY <1>2
  <2> HIDE DEF p, q
  <2>3. (IF p + 1 < Depth THEN p + 1 ELSE 0) = q
    BY <1>1, <2>2
  <2>4. QED
    BY <2>1, <2>3 DEF p, q
<1>5. (NextSlot(c) + j) % Depth = (c + (j + 1)) % Depth
  <2> DEFINE n == NextSlot(c)
             q == (c + (j + 1)) % Depth
             r == (n + j) % Depth
  <2>1. n = IF c + 1 < Depth THEN c + 1 ELSE 0
    BY <1>3
  <2>2. n \in Slot
    BY NextIsSlot
  <2>3. /\ r = IF n + j < Depth THEN n + j ELSE n + j - Depth
        /\ q = IF c + (j + 1) < Depth THEN c + (j + 1) ELSE c + (j + 1) - Depth
    <3>1. j \in 0 .. Depth
      BY <1>1
    <3>2. \A s \in Slot : (s + j) % Depth = IF s + j < Depth THEN s + j ELSE s + j - Depth
      BY <3>1, PlaceValue
    <3>3. QED
      BY <1>2, <2>2, <3>2
  <2> HIDE DEF n, q, r
  <2>4. r = q
    BY <1>1, <2>1, <2>3
  <2>5. QED
    BY <2>4 DEF n, q, r
<1>6. QED
  BY <1>4, <1>5

(* A chunk of the file is a sequence, of the length it says.               *)
LEMMA UnitsAreUnits ==
  ASSUME NEW a \in Nat, NEW n \in Nat
  PROVE  /\ Units(a, n) \in Seq(Nat) /\ Len(Units(a, n)) = n /\ DOMAIN Units(a, n) = 1 .. n
         /\ \A k \in 1 .. n : Units(a, n)[k] = a + k - 1
         /\ (Units(a, n) = <<>>) <=> (n = 0)
<1>1. DOMAIN Units(a, n) = 1 .. n /\ \A k \in 1 .. n : Units(a, n)[k] = a + k - 1
  BY DEF Units
<1>2. \A k \in 1 .. n : a + k - 1 \in Nat
  OBVIOUS
<1>3. Units(a, n) \in [1 .. n -> Nat]
  BY <1>2 DEF Units
<1>4. Units(a, n) \in Seq(Nat) /\ Len(Units(a, n)) = n
  BY <1>3
<1>5. (Units(a, n) = <<>>) <=> (n = 0)
  BY <1>4, EmptySeq
<1>6. QED
  BY <1>1, <1>4, <1>5

(* A sequence is made of units if it has as many and each is the right one.*)
LEMMA UnitsBySpelling ==
  ASSUME NEW a \in Nat, NEW n \in Nat, NEW q \in Seq(Nat), Len(q) = n,
         \A k \in 1 .. n : q[k] = a + k - 1
  PROVE  q = Units(a, n)
BY UnitsAreUnits, SeqEqual

(* What comes next in the file makes a longer piece of it.                 *)
LEMMA UnitsJoin ==
  ASSUME NEW a \in Nat, NEW n \in Nat, NEW m \in Nat
  PROVE  Units(a, n) \o Units(a + n, m) = Units(a, n + m)
<1> DEFINE p == Units(a, n)
           b == a + n
           l == n + m
           q == Units(b, m)
<1>0. b \in Nat /\ l \in Nat
  OBVIOUS
<1> HIDE DEF b, l
<1>1. /\ p \in Seq(Nat) /\ Len(p) = n /\ \A k \in 1 .. n : p[k] = a + k - 1
      /\ q \in Seq(Nat) /\ Len(q) = m /\ \A k \in 1 .. m : q[k] = b + k - 1
  BY <1>0, UnitsAreUnits
<1> HIDE DEF p, q
<1>2. /\ p \o q \in Seq(Nat) /\ Len(p \o q) = n + m
      /\ \A k \in 1 .. n + m : (p \o q)[k] = IF k <= n THEN p[k] ELSE q[k - n]
  BY <1>1, ConcatProperties
<1>3. ASSUME NEW k \in 1 .. n + m PROVE (p \o q)[k] = a + k - 1
  <2>1. CASE k <= n
    BY <1>1, <1>2, <2>1
  <2>2. CASE ~(k <= n)
    <3>1. k - n \in 1 .. m
      BY <2>2
    <3>2. (p \o q)[k] = b + (k - n) - 1
      BY <1>1, <1>2, <2>2, <3>1
    <3>3. QED
      BY <3>2 DEF b
  <2>3. QED
    BY <2>1, <2>2
<1>4. p \o q = Units(a, l)
  BY <1>0, <1>2, <1>3, UnitsBySpelling DEF l
<1>5. QED
  BY <1>4 DEF p, q, b, l

(* Cutting a chunk in two leaves two pieces of the file.                   *)
LEMMA UnitsCut ==
  ASSUME NEW a \in Nat, NEW m \in Nat, NEW k \in 0 .. m
  PROVE  /\ SubSeq(Units(a, m), 1, k) = Units(a, k)
         /\ SubSeq(Units(a, m), k + 1, m) = Units(a + k, m - k)
<1> DEFINE q == Units(a, m)
<1>1. q \in Seq(Nat) /\ Len(q) = m /\ \A i \in 1 .. m : q[i] = a + i - 1
  BY UnitsAreUnits
<1> HIDE DEF q
<1>2. /\ SubSeq(q, 1, k) \in Seq(Nat) /\ Len(SubSeq(q, 1, k)) = k
      /\ \A i \in 1 .. k : SubSeq(q, 1, k)[i] = q[i]
  BY <1>1
<1>3. SubSeq(q, 1, k) = Units(a, k)
  <2> DEFINE t == SubSeq(q, 1, k)
  <2>1. t \in Seq(Nat) /\ Len(t) = k /\ k \in Nat /\ \A i \in 1 .. k : t[i] = a + i - 1
    BY <1>1, <1>2
  <2> HIDE DEF t
  <2>2. t = Units(a, k)
    BY <2>1, UnitsBySpelling
  <2>3. QED
    BY <2>2 DEF t
<1>4. /\ SubSeq(q, k + 1, m) \in Seq(Nat) /\ Len(SubSeq(q, k + 1, m)) = m - k
      /\ \A i \in 1 .. m - k : SubSeq(q, k + 1, m)[i] = q[k + i]
  BY <1>1
<1>5. \A i \in 1 .. m - k : SubSeq(q, k + 1, m)[i] = (a + k) + i - 1
  <2> SUFFICES ASSUME NEW i \in 1 .. m - k PROVE SubSeq(q, k + 1, m)[i] = (a + k) + i - 1
    OBVIOUS
  <2>1. k + i \in 1 .. m
    OBVIOUS
  <2>2. q[k + i] = a + (k + i) - 1
    BY <1>1, <2>1
  <2>3. QED
    BY <1>4, <2>2
<1>6. a + k \in Nat /\ m - k \in Nat
  OBVIOUS
<1>7. SubSeq(q, k + 1, m) = Units(a + k, m - k)
  <2> DEFINE t == SubSeq(q, k + 1, m)
             b == a + k
             n == m - k
  <2>1. t \in Seq(Nat) /\ Len(t) = n /\ b \in Nat /\ n \in Nat /\ \A i \in 1 .. n : t[i] = b + i - 1
    BY <1>4, <1>5, <1>6
  <2> HIDE DEF t, b, n
  <2>2. t = Units(b, n)
    BY <2>1, UnitsBySpelling
  <2>3. QED
    BY <2>2 DEF t, b, n
<1>8. QED
  BY <1>3, <1>7 DEF q

(***************************************************************************)
(* Sizes.                                                                  *)
(***************************************************************************)
LEMMA Sizes ==
  ASSUME scenario \in Scenarios
  PROVE  /\ scenario.size \in Nat /\ SlotSize \in Nat \ {0} /\ MaxSlots \in Nat \ {0}
         /\ Depth \in Nat \ {0} /\ Asked \subseteq Nat \ {0}
         /\ ChunkSize \in 0 .. SlotSize /\ (scenario.size > 0 => ChunkSize > 0)
         /\ PrefetchBytes \in Nat
<1>1. /\ scenario.size \in Nat /\ SlotSize \in Nat \ {0} /\ MaxSlots \in Nat \ {0}
      /\ Depth \in Nat \ {0} /\ Asked \subseteq Nat \ {0}
  BY ReaderAssumption DEF ReaderAssumption
<1>2. SlotSize * Depth \in Nat /\ MaxSlots * SlotSize \in Nat
  BY <1>1
<1>3. ChunkSize \in 0 .. SlotSize /\ (scenario.size > 0 => ChunkSize > 0)
  BY <1>1 DEF ChunkSize, Smaller
<1>4. PrefetchBytes \in Nat
  BY <1>1, <1>2 DEF PrefetchBytes, Smaller
<1>5. QED
  BY <1>1, <1>3, <1>4

(* A read that is issued stays within the file, and gets something of it.  *)
LEMMA LengthFits ==
  ASSUME Bounded, ring.issueOffset < scenario.size
  PROVE  /\ Length \in 1 .. SlotSize /\ ring.issueOffset + Length \in 0 .. scenario.size
         /\ ring.issueOffset \in 0 .. scenario.size
<1> DEFINE i == ring.issueOffset
           n == scenario.size
           c == ChunkSize
<1>1. i \in 0 .. n /\ i < n /\ n \in Nat /\ SlotSize \in Nat /\ c \in 0 .. SlotSize /\ c > 0
  BY Sizes DEF Bounded
<1>2. Length = IF c < n - i THEN c ELSE n - i
  BY DEF Length, Smaller
<1> HIDE DEF i, n, c
<1>3. Length \in 1 .. SlotSize /\ i + Length \in 0 .. n
  BY <1>1, <1>2
<1>4. QED
  BY <1>1, <1>3 DEF i, n

(***************************************************************************)
(* Steps.                                                                  *)
(***************************************************************************)
(* Those that issue and end no read.                                       *)
LEMMA RingKept ==
  ASSUME Shape, Chosen, UNCHANGED <<scenario, slot, ring>>, pc # "readFile", pc' # "readFile"
  PROVE  Shape' /\ Chosen'
BY DEF Shape, Chosen, InRing, Place

(* Those that let go of the reader, as Throw does: whatever becomes of the *)
(* ring then.                                                              *)
SlotType == [inFlight : BOOLEAN, buffer : BOOLEAN, offset : 0 .. scenario.size, length : 0 .. SlotSize]
RingType ==
  [issueOffset : 0 .. scenario.size, toIssue : Slot, toConsume : Slot, inFlight : 0 .. Depth,
   offset : 0 .. scenario.size]

LEMMA ThrowingKeepsOrder ==
  ASSUME InOrder, Working, pc' = "close", at' = 0, guard' \in Nat, issued' \in Nat,
         then' \in {"prime", "consume", "deliver"}, wanted' \in Nat, copied' \in Nat,
         UNCHANGED <<scenario, open, chunk, delivered, cancel>>,
         op' \in [Slot -> Results], slot' \in [Slot -> SlotType], ring' \in RingType,
         \A s \in Slot : op'[s] \in {"read", "short"} => op[s] = op'[s],
         outcome' \in {"done", "cancelled", "failed", "disposed", "destroyed", "stopped"},
         outcome' = "failed" => scenario.fault \in {"issue", "read", "short"},
         outcome' = "done" => chunk = <<>> /\ ring.offset = scenario.size
  PROVE  InOrder'
<1>1. Bounded'
  <2>1. SlotType' = SlotType /\ RingType' = RingType
    BY DEF SlotType, RingType
  <2>2. 0 \in 0 .. Depth
    BY DepthIsPositive
  <2>3. Bounded
    BY DEF InOrder
  <2>4. /\ scenario' \in Scenarios /\ open' \in BOOLEAN /\ cancel' \in 0 .. 3
        /\ outcome' \in {"none", "done", "cancelled", "failed", "disposed", "destroyed", "stopped"}
    BY <2>3 DEF Bounded
  <2>5. QED
    BY <2>1, <2>2, <2>4 DEF Bounded, SlotType, RingType
<1>2. ~Working'
  BY DEF Working
<1>3. Data'
  <2>1. PICK n, m \in Nat : delivered = Units(0, n) /\ chunk = Units(n, m) /\ n + m = ring.offset
    BY DEF InOrder, Data
  <2>2. outcome' = "done" => n = scenario.size
    <3>1. (chunk = <<>>) <=> (m = 0)
      BY <2>1, UnitsAreUnits
    <3>2. QED
      BY <2>1, <3>1
  <2>3. QED
    BY <1>2, <2>1, <2>2 DEF Data
<1>4. Blame'
  BY <1>2 DEF InOrder, Blame
<1>5. QED
  BY <1>1, <1>2, <1>3, <1>4 DEF InOrder

(* The same when nothing was issued or ended with it.                      *)
LEMMA LeavingKeepsOrder ==
  ASSUME InOrder, Working, pc' = "close", at' = 0, guard' \in Nat, then' \in {"prime", "consume", "deliver"},
         wanted' \in Nat, copied' \in Nat,
         UNCHANGED <<scenario, op, slot, ring, open, issued, chunk, delivered, cancel>>,
         outcome' \in {"done", "cancelled", "failed", "disposed", "destroyed", "stopped"},
         outcome' = "failed" => scenario.fault \in {"issue", "read", "short"},
         outcome' = "done" => chunk = <<>> /\ ring.offset = scenario.size
  PROVE  InOrder'
<1>1. op' \in [Slot -> Results] /\ slot' \in [Slot -> SlotType] /\ ring' \in RingType /\ issued' \in Nat
  BY DEF InOrder, Bounded, SlotType, RingType
<1>2. \A s \in Slot : op'[s] \in {"read", "short"} => op[s] = op'[s]
  OBVIOUS
<1>3. QED
  BY <1>1, <1>2, ThrowingKeepsOrder

(* Those that leave the data alone and go on.                              *)
LEMMA GoingOnKeepsOrder ==
  ASSUME InOrder, Working, UNCHANGED <<scenario, op, slot, ring, open, delivered, chunk, cancel, outcome, at>>,
         pc # "readFile", pc' # "readFile", Working', Course',
         pc' \in {"opened", "push", "parked", "queued", "prime", "issue", "entry", "call", "read",
                  "consume", "deliver", "copy"},
         then' \in {"prime", "consume", "deliver"}, issued' \in Nat,
         wanted' \in Nat, copied' \in Nat, guard' \in Nat
  PROVE  InOrder'
<1>1. Bounded'
  BY DEF InOrder, Bounded
<1>2. Shape' /\ Chosen'
  BY RingKept DEF InOrder
<1>3. Data' /\ Blame'
  BY DEF InOrder, Data, Blame, CancelRequested
<1>4. QED
  BY <1>1, <1>2, <1>3 DEF InOrder

(* The prefetcher.                                                         *)
LEMMA PrefetchKeepsOrder ==
  ASSUME InOrder, Prefetch \/ Prime
  PROVE  InOrder'
<1>1. /\ Working /\ pc \in {"opened", "prime"} /\ pc # "readFile" /\ Course /\ Bounded /\ then = "prime"
      /\ chunk = <<>>
      /\ UNCHANGED <<scenario, op, slot, ring, open, issued, chunk, wanted, copied, delivered, cancel>>
  BY DEF Prefetch, Prime, Working, InOrder, Course
<1>2. CASE pc' = "close"
  <2>1. at' = 0 /\ guard' = 0 /\ then' = then /\ outcome' = "cancelled"
    BY <1>2 DEF Prefetch, Prime, Throw, AfterPrefetch
  <2>2. QED
    BY <1>1, <1>2, <2>1, LeavingKeepsOrder DEF Bounded
<1>3. CASE pc' # "close"
  <2>1. /\ UNCHANGED <<at, outcome>> /\ pc' \in {"push", "prime", "call", "issue"}
        /\ then' = "prime" /\ guard' \in {guard, PrefetchBytes}
        /\ pc' \in {"push", "prime"} => pc = "opened" \/ ~Source
        /\ pc' = "call" => Source
    BY <1>1, <1>3 DEF Prefetch, Prime, Throw, AfterPrefetch
  <2>2. pc = "opened" => ~Source
    BY <1>1 DEF Course
  <2>3. Course'
    BY <1>1, <2>1, <2>2 DEF Course, Issuing, Copying, Source
  <2>4. Working' /\ pc' # "readFile" /\ guard' \in Nat
    BY <1>1, <2>1, Sizes DEF Working, Bounded
  <2>5. QED
    BY <1>1, <2>1, <2>3, <2>4, GoingOnKeepsOrder DEF Bounded
<1>4. QED
  BY <1>2, <1>3

(* The packer, the disposal of a queue, and the calls of a source.         *)
LEMMA TakeKeepsOrder ==
  ASSUME InOrder, InQueue \/ Take \/ AddEntry \/ Read \/ Call \/ Drop
  PROVE  InOrder'
<1>1. /\ Working /\ pc \in {"push", "parked", "queued", "entry", "read", "call", "opened"} /\ Course /\ Bounded
      /\ UNCHANGED <<scenario, op, slot, ring, open, issued, delivered, cancel>>
      /\ wanted' \in Nat /\ copied' \in Nat
  <2>1. (\A w \in Asked : w \in Nat) /\ 0 \in Nat
    BY Sizes DEF InOrder, Bounded
  <2>2. Working /\ Course /\ Bounded
    BY DEF InQueue, Push, Promote, Leave, Dispose, Take, AddEntry, Read, Call, Drop, Working, InOrder
  <2>3. wanted' \in Nat /\ copied' \in Nat
    <3>1. CASE Call
      <4>1. \/ wanted' \in Asked /\ copied' = 0
            \/ wanted' = wanted /\ copied' = copied
        BY <3>1 DEF Call
      <4>2. wanted \in Nat /\ copied \in Nat
        BY <2>2 DEF Bounded
      <4>3. QED
        BY <2>1, <4>1, <4>2
    <3>2. CASE InQueue \/ Take \/ AddEntry \/ Read \/ Drop
      BY <2>2, <3>2 DEF InQueue, Push, Promote, Leave, Dispose, Take, AddEntry, Read, Drop, Bounded
    <3>3. QED
      BY <3>1, <3>2
  <2>4. QED
    BY <2>2, <2>3 DEF InQueue, Push, Promote, Leave, Dispose, Take, AddEntry, Read, Call, Drop
<1>2. ring.offset \in 0 .. scenario.size /\ scenario.size \in Nat
  BY <1>1, Sizes DEF Bounded
<1>3. pc \in {"push", "parked", "queued", "entry", "read", "opened"} => chunk = <<>>
  BY <1>1 DEF Course
<1>4. CASE pc' = "close"
  <2>1. /\ at' = 0 /\ guard' \in {guard, 0} /\ then' = then /\ chunk' = chunk
        /\ outcome' \in {"done", "cancelled", "disposed", "destroyed", "stopped"}
        /\ outcome' = "done" => pc = "entry" /\ Eof
    BY <1>4 DEF InQueue, Push, Promote, Leave, Dispose, Take, AddEntry, Read, Call, Drop, Throw
  <2>2. outcome' = "done" => chunk = <<>> /\ ring.offset = scenario.size
    BY <1>2, <1>3, <2>1 DEF Eof
  <2>3. QED
    BY <1>1, <1>4, <2>1, <2>2, LeavingKeepsOrder DEF Bounded
<1>5. CASE pc' # "close"
  <2>1. /\ UNCHANGED <<at, outcome>> /\ chunk' = chunk /\ guard' \in {guard, 0}
        /\ \/ /\ pc \in {"push", "parked"} /\ pc' \in {"parked", "queued"}
              /\ then' = then /\ UNCHANGED wanted
           \/ pc = "queued" /\ pc' = "entry" /\ then' = then
           \/ pc = "entry" /\ pc' = "read" /\ then' = then /\ ~Eof /\ UNCHANGED wanted
           \/ /\ pc = "read" /\ pc' = "deliver" /\ then' = then /\ Eof /\ UNCHANGED wanted
           \/ /\ pc = "read" /\ pc' = "issue" /\ then' = "consume" /\ ~Eof /\ ring.inFlight = 0
              /\ UNCHANGED wanted
           \/ /\ pc = "read" /\ pc' = "consume" /\ then' = then /\ ~Eof /\ ring.inFlight # 0
              /\ UNCHANGED wanted
           \/ /\ pc = "call" /\ pc' = IF chunk = <<>> THEN "read" ELSE "copy"
              /\ then' = then /\ wanted' \in Asked
    BY <1>3, <1>5 DEF InQueue, Push, Promote, Leave, Dispose, Take, AddEntry, Read, Call, Drop, Throw
  <2>2. /\ Eof <=> ring.offset = scenario.size
        /\ ~Eof <=> ring.offset < scenario.size
        /\ ring.inFlight # 0 => ring.inFlight > 0
        /\ \A w \in Asked : w > 0
    <3>1. (Eof <=> ring.offset = scenario.size) /\ (~Eof <=> ring.offset < scenario.size)
      BY <1>2 DEF Eof
    <3>2. ring.inFlight \in 0 .. Depth /\ Depth \in Nat
      BY <1>1, DepthIsPositive DEF Bounded
    <3>3. ring.inFlight # 0 => ring.inFlight > 0
      BY <3>2
    <3>4. \A w \in Asked : w > 0
      BY ReaderAssumption DEF ReaderAssumption
    <3>5. QED
      BY <3>1, <3>3, <3>4
  <2>3. Course'
    <3>1. CASE pc \in {"push", "parked"} \/ pc = "queued"
      BY <1>1, <1>3, <2>1, <3>1 DEF Course, Issuing, Copying, Source
    <3>2. CASE ~(pc \in {"push", "parked"} \/ pc = "queued")
      BY <1>1, <1>3, <2>1, <2>2, <3>2 DEF Course, Issuing, Copying, Source
    <3>3. QED
      BY <3>1, <3>2
  <2>4. Working' /\ pc' # "readFile" /\ pc # "readFile" /\ guard' \in Nat
    BY <1>1, <2>1 DEF Working, Bounded
  <2>5. QED
    BY <1>1, <2>1, <2>3, <2>4, GoingOnKeepsOrder DEF Bounded
<1>6. QED
  BY <1>4, <1>5

(* Chunk after chunk to the packer, or a piece of one to the source's user.*)
LEMMA DeliverKeepsOrder ==
  ASSUME InOrder, Deliver
  PROVE  InOrder'
<1>1. /\ Working /\ pc = "deliver" /\ ~Source /\ Course /\ Bounded /\ Shape /\ Chosen /\ chunk # <<>>
      /\ delivered' = delivered \o chunk /\ pc' = "entry" /\ chunk' = <<>> /\ Blame
      /\ UNCHANGED <<scenario, op, slot, ring, open, then, issued, wanted, copied, cancel, at, guard,
                     outcome>>
  BY DEF Deliver, Working, InOrder, Course
<1>2. Bounded' /\ Blame' /\ Working'
  BY <1>1 DEF Bounded, Blame, Working, CancelRequested
<1>3. Shape' /\ Chosen'
  BY <1>1, RingKept
<1>4. Course'
  BY <1>1 DEF Course, Issuing, Copying, Source
<1>5. Data'
  <2>1. PICK n, m \in Nat : delivered = Units(0, n) /\ chunk = Units(n, m) /\ n + m = ring.offset
    BY <1>1 DEF InOrder, Data
  <2>2. delivered' = Units(0, n + m)
    <3>1. 0 \in Nat /\ 0 + n = n
      OBVIOUS
    <3>2. Units(0, n) \o Units(0 + n, m) = Units(0, n + m)
      BY <3>1, UnitsJoin
    <3>3. QED
      BY <1>1, <2>1, <3>1, <3>2
  <2> DEFINE l == n + m
  <2>3. l \in Nat /\ chunk' = Units(l, 0) /\ l + 0 = ring'.offset /\ 0 \in Nat
    <3>1. l \in Nat
      OBVIOUS
    <3> HIDE DEF l
    <3>2. Units(l, 0) = <<>>
      BY <3>1, UnitsAreUnits
    <3>3. QED
      BY <1>1, <2>1, <3>1, <3>2 DEF l
  <2>4. outcome' # "done"
    BY <1>1 DEF Blame
  <2> HIDE DEF l
  <2>5. QED
    BY <2>2, <2>3, <2>4 DEF Data, l
<1>6. QED
  BY <1>2, <1>3, <1>4, <1>5 DEF InOrder

(* FileByteSource::read takes what it wants of the chunk in hand.          *)
LEMMA CopyKeepsOrder ==
  ASSUME InOrder, Copy
  PROVE  InOrder'
<1> DEFINE k == Smaller(Len(chunk), wanted)
<1>1. /\ Working /\ pc \in {"deliver", "copy"} /\ Source /\ Course /\ Bounded /\ Shape /\ Chosen /\ Blame
      /\ delivered' = delivered \o SubSeq(chunk, 1, k) /\ chunk' = SubSeq(chunk, k + 1, Len(chunk))
      /\ copied' = copied + k /\ wanted' = wanted - k /\ wanted > 0 /\ wanted \in Nat /\ copied \in Nat
      /\ UNCHANGED <<scenario, op, slot, ring, open, then, issued, cancel>>
      /\ IF k = 0 \/ wanted' = 0
         THEN IF copied' = 0 THEN Throw("done") ELSE pc' = "call" /\ UNCHANGED <<at, guard, outcome>>
         ELSE pc' = "read" /\ UNCHANGED <<at, guard, outcome>>
  BY DEF Copy, Returns, Working, InOrder, Course, Copying, Bounded
<1>2. PICK n, m \in Nat : delivered = Units(0, n) /\ chunk = Units(n, m) /\ n + m = ring.offset
  BY <1>1 DEF InOrder, Data
<1>3. chunk \in Seq(Nat) /\ Len(chunk) = m /\ ((chunk = <<>>) <=> (m = 0))
  BY <1>2, UnitsAreUnits
<1>4. k = IF m < wanted THEN m ELSE wanted
  BY <1>3 DEF Smaller
<1> HIDE DEF k
<1>5. k \in 0 .. m /\ k \in Nat /\ wanted' \in Nat /\ copied' \in Nat /\ (k = 0 => m = 0)
      /\ (k # m => wanted' = 0) /\ (copied' = 0 => k = 0)
  BY <1>1, <1>4
<1> DEFINE l == n + k
           r == m - k
<1>6. delivered' = Units(0, l) /\ chunk' = Units(l, r) /\ l \in Nat /\ r \in Nat /\ l + r = ring.offset
  <2>1. SubSeq(chunk, 1, k) = Units(n, k) /\ chunk' = Units(l, r)
    <3>1. /\ SubSeq(Units(n, m), 1, k) = Units(n, k)
          /\ SubSeq(Units(n, m), k + 1, m) = Units(n + k, m - k)
      BY <1>5, UnitsCut
    <3>2. chunk = Units(n, m) /\ chunk' = SubSeq(chunk, k + 1, m)
      BY <1>1, <1>2, <1>3
    <3>3. QED
      BY <3>1, <3>2
  <2>2. 0 \in Nat /\ 0 + n = n
    OBVIOUS
  <2>3. Units(0, n) \o Units(0 + n, k) = Units(0, n + k)
    BY <1>5, <2>2, UnitsJoin
  <2>4. delivered' = Units(0, l)
    BY <1>1, <1>2, <2>1, <2>2, <2>3
  <2>5. l \in Nat /\ r \in Nat /\ l + r = ring.offset
    BY <1>2, <1>5
  <2>6. QED
    BY <2>1, <2>4, <2>5
<1>7. (chunk' = <<>>) <=> (r = 0)
  <2> HIDE DEF l, r
  <2>1. QED
    BY <1>6, UnitsAreUnits
<1>8. CASE pc' = "close"
  <2>1. /\ at' = 0 /\ guard' = 0 /\ outcome' = "done" /\ k = 0 /\ m = 0
    BY <1>1, <1>5, <1>8 DEF Throw
  <2>2. pc = "deliver" /\ ring.offset = scenario.size
    BY <1>1, <1>3, <2>1 DEF Course
  <2>3. l = scenario.size
    BY <1>2, <2>1, <2>2
  <2>4. Bounded' /\ ~Working'
    BY <1>1, <1>5, <1>8, <2>1, Sizes, SMTT(30) DEF Bounded, Working
  <2>5. Data'
    BY <1>6, <2>3, <2>4, <1>1 DEF Data
  <2>6. Blame'
    BY <1>1, <2>1, <2>4 DEF Blame
  <2>7. QED
    BY <2>4, <2>5, <2>6 DEF InOrder
<1>9. CASE pc' # "close"
  <2>1. UNCHANGED <<at, guard, outcome>> /\ pc' \in {"call", "read"}
        /\ (pc' = "read" => wanted' # 0)
    BY <1>1, <1>9 DEF Throw
  <2>2. Bounded' /\ Working' /\ Blame'
    BY <1>1, <1>5, <2>1 DEF Bounded, Working, Blame, CancelRequested
  <2>3. Shape' /\ Chosen'
    BY <1>1, <2>1, RingKept
  <2>4. pc' = "read" => chunk' = <<>> /\ wanted' > 0
    BY <1>5, <1>7, <2>1
  <2>5. Course'
    BY <1>1, <2>1, <2>4 DEF Course, Issuing, Copying, Source
  <2>6. Data'
    <3>1. outcome' # "done"
      BY <2>2 DEF Blame
    <3>2. QED
      BY <1>1, <1>6, <3>1 DEF Data
  <2>7. QED
    BY <2>2, <2>3, <2>5, <2>6 DEF InOrder
<1>10. QED
  BY <1>8, <1>9

(* The slot behind the last read is free, unless all are taken.            *)
LEMMA SlotBehindIsFree ==
  ASSUME Bounded, Shape, Chosen, pc # "readFile", ring.inFlight < Depth
  PROVE  /\ ring.toIssue \in Slot /\ ~slot[ring.toIssue].inFlight /\ ~slot[ring.toIssue].buffer
         /\ 0 \in Probes /\ (ring.toIssue + Min(Probes)) % Depth = ring.toIssue
<1> DEFINE c == ring.toConsume
           n == ring.inFlight
           t == ring.toIssue
<1>1. c \in Slot /\ t \in Slot /\ n \in 0 .. Depth - 1 /\ n \in Nat /\ Depth \in Nat \ {0}
      /\ t = (c + n) % Depth
  BY DepthIsPositive DEF Bounded, Shape, Place
<1>2. ~slot[t].inFlight
  <2>1. SUFFICES ASSUME slot[t].inFlight PROVE FALSE
    OBVIOUS
  <2>2. PICK j \in 0 .. n - 1 : t = (c + j) % Depth
    BY <1>1, <2>1 DEF Shape, Place
  <2>3. j \in 0 .. Depth - 1 /\ j # n
    BY <1>1, <2>2
  <2>4. QED
    BY <1>1, <2>2, <2>3, PlacesDiffer
<1>3. ~slot[t].buffer
  BY <1>1, <1>2 DEF Chosen
<1>4. (t + 0) % Depth = t
  <2>1. t \in Nat /\ t < Depth /\ 0 \in 0 .. Depth
    BY <1>1 DEF Slot
  <2>2. (t + 0) % Depth = IF t + 0 < Depth THEN t + 0 ELSE t + 0 - Depth
    BY <1>1, <2>1, PlaceValue
  <2>3. QED
    BY <1>1, <2>1, <2>2
<1>5. 0 \in Probes
  <2>1. 0 \in Slot
    BY <1>1 DEF Slot
  <2>2. QED
    BY <1>2, <1>3, <1>4, <2>1 DEF Probes
<1>6. Min(Probes) = 0
  <2>1. Probes \in SUBSET Nat
    BY <1>1 DEF Probes, Slot
  <2>2. Min(Probes) \in Nat /\ Min(Probes) <= 0
    BY <1>5, <2>1, MinIsLeast
  <2>3. QED
    BY <2>2
<1>7. QED
  BY <1>1, <1>2, <1>3, <1>4, <1>5, <1>6

(* issue_next_read finds that slot, or nothing is left to read or no slot. *)
LEMMA IssueKeepsOrder ==
  ASSUME InOrder, Issue
  PROVE  InOrder'
<1>1. /\ Working /\ pc = "issue" /\ pc # "readFile" /\ Course /\ Bounded /\ Shape /\ Chosen /\ Blame /\ Issuing
      /\ UNCHANGED <<scenario, op, ring, open, then, issued, chunk, wanted, copied, delivered, cancel>>
  BY DEF Issue, Working, InOrder, Issuing
<1>2. /\ ring.inFlight \in 0 .. Depth /\ Depth \in Nat \ {0} /\ scenario.size \in Nat
      /\ ring.issueOffset \in 0 .. scenario.size
  BY <1>1, Sizes DEF Bounded
<1>3. CASE CancelRequested
  <2>1. pc' = "close" /\ at' = 0 /\ guard' = 0 /\ outcome' = "cancelled" /\ slot' = slot
    BY <1>1, <1>3 DEF Issue, Throw
  <2>2. QED
    BY <1>1, <2>1, LeavingKeepsOrder DEF Bounded
<1>4. CASE ~CancelRequested /\ (ring.issueOffset >= scenario.size \/ ring.inFlight >= Depth)
  <2>1. pc' = NothingIssued /\ UNCHANGED <<slot, at, guard, outcome>>
    BY <1>1, <1>4 DEF Issue
  <2>2. then # "consume"
    <3>1. SUFFICES ASSUME then = "consume" PROVE FALSE
      OBVIOUS
    <3>2. ring.inFlight = 0 /\ ring.offset < scenario.size /\ ring.offset = ring.issueOffset
      BY <1>1, <3>1 DEF Course, Shape
    <3>3. QED
      BY <1>2, <1>4, <3>2
  <2>3. \/ then = "prime" /\ pc' = IF Source THEN "call" ELSE "push"
        \/ then = "deliver" /\ pc' = "deliver"
    BY <1>1, <2>1, <2>2 DEF NothingIssued, AfterPrefetch, Bounded
  <2>4. Course'
    BY <1>1, <2>3 DEF Course, Issuing, Copying, Source
  <2>5. Working' /\ pc' # "readFile"
    BY <2>3 DEF Working
  <2>6. QED
    BY <1>1, <2>1, <2>3, <2>4, <2>5, GoingOnKeepsOrder DEF Bounded
<1>5. CASE ~CancelRequested /\ ~(ring.issueOffset >= scenario.size \/ ring.inFlight >= Depth)
  <2>1. ring.issueOffset < scenario.size /\ ring.inFlight < Depth
    BY <1>2, <1>5
  <2> DEFINE t == ring.toIssue
  <2>2. /\ t \in Slot /\ ~slot[t].inFlight /\ 0 \in Probes
        /\ (t + Min(Probes)) % Depth = t
    BY <1>1, <2>1, SlotBehindIsFree
  <2>3. /\ at' = t
        /\ slot' = [slot EXCEPT ![t] = [inFlight |-> FALSE, buffer |-> TRUE,
                                        offset |-> ring.issueOffset, length |-> Length]]
        /\ pc' = "readFile" /\ UNCHANGED <<guard, outcome>>
    BY <1>5, <2>2 DEF Issue
  <2>4. Length \in 1 .. SlotSize /\ ring.issueOffset \in 0 .. scenario.size
    BY <1>1, <2>1, LengthFits
  <2>5. /\ slot'[t].inFlight = FALSE /\ slot'[t].buffer = TRUE /\ slot'[t].offset = ring.issueOffset
        /\ slot'[t].length = Length
        /\ \A s \in Slot : s # t => slot'[s] = slot[s]
    BY <1>1, <2>2, <2>3 DEF Bounded
  <2>6. Bounded'
    <3>1. slot' \in [Slot -> [inFlight : BOOLEAN, buffer : BOOLEAN,
                              offset : 0 .. scenario.size, length : 0 .. SlotSize]]
      <4>1. Length \in 0 .. SlotSize
        BY <2>4
      <4>2. QED
        BY <1>1, <2>3, <2>4, <4>1 DEF Bounded
    <3>2. at' \in 0 .. Depth
      BY <1>2, <2>2, <2>3 DEF Slot
    <3>3. QED
      BY <1>1, <2>3, <3>1, <3>2 DEF Bounded
  <2>7. \A j \in 0 .. ring.inFlight - 1 : Place(j) # t /\ Place(j) \in Slot /\ InRing(j)' = InRing(j)
    <3> SUFFICES ASSUME NEW j \in 0 .. ring.inFlight - 1
                 PROVE  Place(j) # t /\ Place(j) \in Slot /\ InRing(j)' = InRing(j)
      OBVIOUS
    <3>1. Place(j) \in Slot
      <4>1. j \in 0 .. Depth /\ ring.toConsume \in Slot
        BY <1>1, <1>2 DEF Bounded
      <4>2. QED
        BY <4>1, PlaceValue DEF Place
    <3>2. Place(j) # t
      BY <1>1, <2>2 DEF Shape, InRing, Place
    <3>3. QED
      BY <1>1, <2>5, <3>1, <3>2 DEF InRing, Place
  <2>8. Shape'
    <3>1. Place(ring.inFlight)' = Place(ring.inFlight) /\ ring' = ring /\ \A j : Place(j)' = Place(j)
      BY <1>1 DEF Place
    <3>2. \A j \in 0 .. ring.inFlight - 1 : j # ring.inFlight - 1 => j + 1 \in 0 .. ring.inFlight - 1
      BY <1>2
    <3>3. \A j \in 0 .. ring.inFlight - 1 :
            /\ InRing(j)'.inFlight /\ InRing(j)'.length > 0
            /\ InRing(j)'.offset + InRing(j)'.length =
                 IF j = ring.inFlight - 1 THEN ring.issueOffset ELSE InRing(j + 1)'.offset
            /\ j = 0 => InRing(j)'.offset = ring.offset
      BY <1>1, <2>7, <3>2 DEF Shape
    <3>4. \A s \in Slot : slot'[s].inFlight => \E j \in 0 .. ring.inFlight - 1 : s = Place(j)
      BY <1>1, <2>5 DEF Shape
    <3>5. QED
      BY <1>1, <3>1, <3>3, <3>4 DEF Shape
  <2>9. Chosen'
    <3>1. Length' = Length
      BY <1>1 DEF Length, ChunkSize, Source
    <3>2. QED
      BY <1>1, <2>1, <2>3, <2>5, <3>1 DEF Chosen
  <2>10. Working' /\ Course'
    BY <1>1, <2>3 DEF Course, Issuing, Copying, Source, Working
  <2>11. Data' /\ Blame'
    BY <1>1, <2>3, <2>10 DEF InOrder, Data, Blame, CancelRequested
  <2>12. QED
    BY <2>6, <2>8, <2>9, <2>10, <2>11 DEF InOrder
<1>6. QED
  BY <1>3, <1>4, <1>5

(* ReadFile makes the slot the last of the ring.                           *)
LEMMA ReadFileKeepsOrder ==
  ASSUME InOrder, ReadFile
  PROVE  InOrder'
<1>0. PICK n, c : n = ring.inFlight /\ c = ring.toConsume
  OBVIOUS
<1>1. /\ Working /\ pc = "readFile" /\ Course /\ Bounded /\ Shape /\ Chosen /\ Blame /\ Issuing
      /\ UNCHANGED <<scenario, open, then, chunk, wanted, copied, delivered, cancel>>
  BY DEF ReadFile, Working, InOrder, Issuing
<1>2. /\ n \in 0 .. Depth - 1 /\ Depth \in Nat \ {0} /\ c \in Slot /\ at \in Slot /\ at = Place(n)
      /\ ring.issueOffset < scenario.size /\ slot[at].offset = ring.issueOffset
      /\ slot[at].length = Length
  BY <1>0, <1>1, DepthIsPositive DEF Bounded, Shape, Chosen
<1>3. /\ Length \in 1 .. SlotSize /\ ring.issueOffset + Length \in 0 .. scenario.size
  BY <1>1, <1>2, LengthFits
<1>4. ~slot[at].inFlight
  <2>1. SUFFICES ASSUME slot[at].inFlight PROVE FALSE
    OBVIOUS
  <2>2. PICK j \in 0 .. n - 1 : at = Place(j)
    BY <1>0, <1>1, <1>2, <2>1 DEF Shape
  <2>3. j \in 0 .. Depth - 1 /\ j # n
    BY <1>2, <2>2
  <2>4. QED
    BY <1>0, <1>2, <2>2, <2>3, PlacesDiffer DEF Place
<1>5. CASE pc' = "close"
  <2>1. /\ slot' = [slot EXCEPT ![at] = Free] /\ at' = 0 /\ guard' = 0 /\ outcome' = "failed"
        /\ scenario.fault = "issue" /\ UNCHANGED <<op, ring, issued>>
    BY <1>1, <1>5 DEF ReadFile, Throw, Bounded
  <2>2. slot' \in [Slot -> SlotType]
    <3>1. 0 \in 0 .. scenario.size /\ 0 \in 0 .. SlotSize
      BY <1>1, Sizes DEF Bounded
    <3>2. Free \in SlotType
      BY <3>1 DEF Free, SlotType
    <3>3. QED
      BY <1>1, <2>1, <3>2 DEF Bounded, SlotType
  <2>3. op' \in [Slot -> Results] /\ ring' \in RingType /\ issued' \in Nat /\ guard' \in Nat
    BY <1>1, <2>1 DEF Bounded, RingType
  <2>4. QED
    BY <1>1, <1>5, <2>1, <2>2, <2>3, ThrowingKeepsOrder DEF Bounded
<1>6. CASE pc' # "close"
  <2>1. /\ op' = [op EXCEPT ![at] = "pending"]
        /\ slot' = [slot EXCEPT ![at].inFlight = TRUE]
        /\ ring' = [ring EXCEPT !.toIssue = NextSlot(at), !.issueOffset = @ + slot[at].length,
                                !.inFlight = @ + 1]
        /\ issued' = IF then = "prime" THEN issued + slot[at].length ELSE issued
        /\ pc' = then
        /\ UNCHANGED <<at, guard, outcome>>
    BY <1>6 DEF ReadFile, Throw
  <2>2. /\ slot'[at].inFlight = TRUE /\ slot'[at].buffer = slot[at].buffer
        /\ slot'[at].offset = ring.issueOffset /\ slot'[at].length = Length
        /\ \A s \in Slot : s # at => slot'[s] = slot[s]
    BY <1>1, <1>2, <2>1 DEF Bounded
  <2>3. /\ ring'.toIssue = NextSlot(at) /\ ring'.issueOffset = ring.issueOffset + Length
        /\ ring'.inFlight = n + 1 /\ ring'.toConsume = c /\ ring'.offset = ring.offset
    BY <1>0, <1>1, <1>2, <2>1 DEF Bounded
  <2>4. NextSlot(at) = Place(n + 1) /\ NextSlot(at) \in Slot
    BY <1>0, <1>2, NextPlace, NextIsSlot DEF Place
  <2>5. Bounded'
    <3>1. slot' \in [Slot -> SlotType]
      <4>1. slot \in [Slot -> SlotType]
        BY <1>1 DEF Bounded, SlotType
      <4>2. [slot[at] EXCEPT !.inFlight = TRUE] \in SlotType
        BY <1>2, <4>1 DEF SlotType
      <4>3. QED
        BY <1>2, <2>1, <4>1, <4>2
    <3>2. ring' \in RingType
      <4>1. n + 1 \in 0 .. Depth
        BY <1>2
      <4>2. ring.issueOffset + slot[at].length \in 0 .. scenario.size
        BY <1>2, <1>3
      <4>3. QED
        BY <1>0, <1>1, <2>1, <2>4, <4>1, <4>2 DEF Bounded, RingType
    <3>3. op' \in [Slot -> Results] /\ issued' \in Nat
      <4>1. issued \in Nat /\ slot[at].length \in Nat
        BY <1>1, <1>2, <1>3 DEF Bounded
      <4>2. issued' \in Nat
        BY <2>1, <4>1
      <4>3. op \in [Slot -> Results] /\ "pending" \in Results
        BY <1>1 DEF Bounded, Results
      <4>4. QED
        BY <2>1, <4>2, <4>3
    <3>4. pc' \in {"prime", "consume", "deliver"}
      BY <1>1, <2>1 DEF Bounded
    <3>5. QED
      BY <1>1, <2>1, <3>1, <3>2, <3>3, <3>4 DEF Bounded, SlotType, RingType
  <2>6. \A j \in 0 .. n - 1 : Place(j) # at /\ Place(j) \in Slot /\ InRing(j)' = InRing(j)
    <3> SUFFICES ASSUME NEW j \in 0 .. n - 1
                 PROVE  Place(j) # at /\ Place(j) \in Slot /\ InRing(j)' = InRing(j)
      OBVIOUS
    <3>1. Place(j) \in Slot
      <4>1. j \in 0 .. Depth
        BY <1>2
      <4>2. QED
        BY <1>0, <1>2, <4>1, PlaceValue DEF Place
    <3>2. Place(j) # at
      BY <1>0, <1>1, <1>4 DEF Shape, InRing, Place
    <3>3. QED
      BY <1>0, <2>2, <2>3, <3>1, <3>2 DEF InRing, Place
  <2>7. Shape'
    <3>1. \A j : Place(j)' = Place(j)
      BY <1>0, <2>3 DEF Place
    <3>2. InRing(n)' = slot'[at]
      BY <1>0, <1>2, <2>3 DEF InRing, Place
    <3>3. ASSUME NEW j \in 0 .. n
          PROVE  /\ InRing(j)'.inFlight /\ InRing(j)'.length > 0
                 /\ InRing(j)'.offset + InRing(j)'.length =
                      IF j = n THEN ring'.issueOffset ELSE InRing(j + 1)'.offset
                 /\ j = 0 => InRing(j)'.offset = ring.offset
      <4>1. CASE j = n
        <5>1. InRing(j)'.inFlight /\ InRing(j)'.length > 0
          BY <1>3, <2>2, <3>2, <4>1
        <5>2. InRing(j)'.offset + InRing(j)'.length = ring'.issueOffset
          BY <2>2, <2>3, <3>2, <4>1
        <5>3. j = 0 => InRing(j)'.offset = ring.offset
          BY <1>0, <1>1, <2>2, <3>2, <4>1 DEF Shape
        <5>4. QED
          BY <4>1, <5>1, <5>2, <5>3
      <4>2. CASE j # n
        <5>1. j \in 0 .. n - 1 /\ j + 1 \in 0 .. n /\ (j # n - 1 => j + 1 \in 0 .. n - 1)
          BY <1>2, <4>2
        <5>2. /\ InRing(j).inFlight /\ InRing(j).length > 0
              /\ InRing(j).offset + InRing(j).length =
                   IF j = n - 1 THEN ring.issueOffset ELSE InRing(j + 1).offset
              /\ j = 0 => InRing(j).offset = ring.offset
          BY <1>0, <1>1, <5>1 DEF Shape
        <5>3. j = n - 1 => InRing(j + 1)'.offset = ring.issueOffset
          <6>1. j = n - 1 => j + 1 = n
            BY <1>2, <5>1
          <6>2. QED
            BY <2>2, <3>2, <6>1
        <5>4. QED
          BY <2>6, <4>2, <5>1, <5>2, <5>3
      <4>3. QED
        BY <4>1, <4>2
    <3>4. ASSUME NEW s \in Slot, slot'[s].inFlight PROVE \E j \in 0 .. n : s = Place(j)
      <4>1. CASE s = at
        BY <1>2, <4>1
      <4>2. CASE s # at
        <5>1. PICK j \in 0 .. n - 1 : s = Place(j)
          BY <1>0, <1>1, <2>2, <3>4, <4>2 DEF Shape
        <5>2. j \in 0 .. n
          BY <1>2
        <5>3. QED
          BY <5>1, <5>2
      <4>3. QED
        BY <4>1, <4>2
    <3>5. ring'.inFlight - 1 = n /\ ring'.inFlight # 0
      BY <1>2, <2>3
    <3>6. ring'.toIssue = Place(n + 1)'
      BY <1>0, <2>3, <2>4, <3>1
    <3>7. QED
      BY <2>3, <3>1, <3>3, <3>4, <3>5, <3>6 DEF Shape
  <2>8. Chosen'
    BY <1>1, <2>1, <2>2 DEF Chosen, Bounded
  <2>9. Working' /\ Course'
    <3>1. ring'.inFlight > 0
      BY <1>2, <2>3
    <3>2. pc' \in {"prime", "consume", "deliver"} /\ pc' = then /\ then' = then
      BY <1>1, <2>1 DEF Bounded
    <3>3. QED
      BY <1>1, <2>3, <3>1, <3>2 DEF Course, Issuing, Copying, Source, Working
  <2>10. Data' /\ Blame'
    BY <1>1, <1>2, <2>1, <2>3, <2>9 DEF InOrder, Data, Blame, CancelRequested, Bounded
  <2>11. QED
    BY <2>5, <2>7, <2>8, <2>9, <2>10 DEF InOrder
<1>7. QED
  BY <1>5, <1>6

(* read_next_chunk takes the first of the ring, whose read has ended.      *)
LEMMA ConsumeKeepsOrder ==
  ASSUME InOrder, Consume
  PROVE  InOrder'
<1>0. PICK n, s : n = ring.inFlight /\ s = ring.toConsume
  OBVIOUS
<1> DEFINE after == slot[s].offset + slot[s].length
           taken == [ring EXCEPT !.toConsume = NextSlot(@), !.inFlight = @ - 1]
<1>1. /\ Working /\ pc = "consume" /\ Course /\ Bounded /\ Shape /\ Chosen /\ Blame /\ n > 0 /\ chunk = <<>>
      /\ UNCHANGED <<scenario, open, issued, wanted, copied, delivered, cancel>>
  BY <1>0 DEF Consume, Working, InOrder, Course
<1>2. n \in 1 .. Depth /\ s \in Slot /\ Depth \in Nat \ {0} /\ NextSlot(s) \in Slot /\ scenario.size \in Nat
  BY <1>0, <1>1, NextIsSlot, Sizes DEF Bounded
<1>3. InRing(0) = slot[s] /\ Place(0) = s
  <2>1. 0 \in 0 .. Depth /\ s \in Nat /\ s < Depth
    BY <1>2 DEF Slot
  <2>2. (s + 0) % Depth = s
    <3>1. (s + 0) % Depth = IF s + 0 < Depth THEN s + 0 ELSE s + 0 - Depth
      BY <1>2, <2>1, PlaceValue
    <3>2. QED
      BY <2>1, <3>1
  <2>3. QED
    BY <1>0, <2>2 DEF InRing, Place
<1>4. \A j \in 0 .. n - 1 :
        /\ InRing(j).inFlight /\ InRing(j).length > 0
        /\ InRing(j).offset + InRing(j).length =
             IF j = n - 1 THEN ring.issueOffset ELSE InRing(j + 1).offset
        /\ j = 0 => InRing(j).offset = ring.offset
  BY <1>0, <1>1 DEF Shape
<1>5. \A j \in 0 .. n - 1 : Place(j) \in Slot /\ InRing(j) = slot[Place(j)]
  <2> SUFFICES ASSUME NEW j \in 0 .. n - 1 PROVE Place(j) \in Slot /\ InRing(j) = slot[Place(j)]
    OBVIOUS
  <2>1. j \in 0 .. Depth
    BY <1>2
  <2>2. QED
    BY <1>0, <1>2, <2>1, PlaceValue DEF Place, InRing
<1>6. /\ slot[s].inFlight /\ slot[s].offset = ring.offset /\ slot[s].length \in Nat /\ slot[s].length > 0
      /\ ring.offset \in Nat /\ after \in 0 .. scenario.size
  <2>1. 0 \in 0 .. n - 1 /\ (0 # n - 1 => 1 \in 0 .. n - 1)
    BY <1>2
  <2>2. /\ slot[s].inFlight /\ slot[s].offset = ring.offset /\ slot[s].length > 0
        /\ after = IF 0 = n - 1 THEN ring.issueOffset ELSE InRing(0 + 1).offset
    BY <1>3, <1>4, <2>1
  <2>3. 0 # n - 1 => InRing(0 + 1).offset \in 0 .. scenario.size
    BY <1>1, <1>5, <2>1 DEF Bounded
  <2>4. ring.issueOffset \in 0 .. scenario.size /\ ring.offset \in Nat /\ slot[s].length \in Nat
    BY <1>1, <1>2, Sizes DEF Bounded
  <2>5. QED
    BY <2>2, <2>3, <2>4
<1> HIDE DEF after
<1>7. /\ op[s] # "pending" /\ op' = [op EXCEPT ![s] = "none"] /\ slot' = [slot EXCEPT ![s] = Free]
      /\ IF op[s] \in {"read", "aborted"}
         THEN Throw(Verdict(op[s])) /\ UNCHANGED <<ring, then, chunk>>
         ELSE IF op[s] = "short" THEN ring' = taken /\ Throw("failed") /\ UNCHANGED <<then, chunk>>
         ELSE /\ ring' = [taken EXCEPT !.offset = after]
              /\ chunk' = [k \in 1 .. slot[s].length |-> slot[s].offset + k - 1]
              /\ pc' = IF after < scenario.size THEN "issue" ELSE "deliver"
              /\ then' = "deliver" /\ UNCHANGED <<at, guard, outcome>>
  BY <1>0, <1>1, <1>6 DEF Consume, NextToConsume, after
<1>8. /\ op' \in [Slot -> Results] /\ slot' \in [Slot -> SlotType] /\ taken \in RingType
      /\ op'[s] = "none" /\ \A t \in Slot : t # s => op'[t] = op[t] /\ slot'[t] = slot[t]
      /\ ~slot'[s].inFlight /\ ~slot'[s].buffer
  <2>1. 0 \in 0 .. scenario.size /\ 0 \in 0 .. SlotSize
    BY <1>1, Sizes DEF Bounded
  <2>2. Free \in SlotType /\ ~Free.inFlight /\ ~Free.buffer
    BY <2>1 DEF Free, SlotType
  <2>3. slot \in [Slot -> SlotType] /\ op \in [Slot -> Results] /\ "none" \in Results
    BY <1>1 DEF Bounded, SlotType, Results
  <2>4. taken \in RingType
    <3>1. n - 1 \in 0 .. Depth
      BY <1>2
    <3>2. ring \in RingType
      BY <1>1 DEF Bounded, RingType
    <3>3. QED
      BY <1>0, <1>2, <3>1, <3>2 DEF RingType
  <2>5. QED
    BY <1>2, <1>7, <2>2, <2>3, <2>4
<1>9. CASE op[s] \in {"read", "aborted", "short"}
  <2>1. /\ pc' = "close" /\ at' = 0 /\ guard' = 0 /\ outcome' \in {"cancelled", "failed"}
        /\ ring' \in RingType /\ UNCHANGED <<then, chunk>>
        /\ outcome' = "failed" => op[s] \in {"read", "short"} \/ ~CancelRequested
    <3>1. ring \in RingType
      BY <1>1 DEF Bounded, RingType
    <3>2. QED
      BY <1>7, <1>8, <1>9, <3>1 DEF Throw, Verdict
  <2>2. outcome' = "failed" => scenario.fault \in {"issue", "read", "short"}
    BY <1>1, <1>2, <1>9, <2>1 DEF Blame
  <2>3. /\ guard' \in Nat /\ issued' \in Nat /\ then' \in {"prime", "consume", "deliver"}
        /\ wanted' \in Nat /\ copied' \in Nat
    BY <1>1, <2>1 DEF Bounded
  <2>4. \A t \in Slot : op'[t] \in {"read", "short"} => op[t] = op'[t]
    BY <1>8
  <2>5. QED
    BY <1>1, <1>8, <2>1, <2>2, <2>3, <2>4, ThrowingKeepsOrder
<1>10. CASE op[s] \notin {"read", "aborted", "short"}
  <2>1. /\ chunk' = [k \in 1 .. slot[s].length |-> slot[s].offset + k - 1]
        /\ pc' = IF after < scenario.size THEN "issue" ELSE "deliver"
        /\ then' = "deliver" /\ UNCHANGED <<at, guard, outcome>>
        /\ ring' = [taken EXCEPT !.offset = after]
    BY <1>7, <1>10
  <2>2. /\ ring'.toIssue = ring.toIssue /\ ring'.issueOffset = ring.issueOffset
        /\ ring'.inFlight = n - 1 /\ ring'.toConsume = NextSlot(s) /\ ring'.offset = after
        /\ ring' \in RingType
    <3>1. ring \in RingType
      BY <1>1 DEF Bounded, RingType
    <3>2. QED
      BY <1>0, <1>6, <1>8, <2>1, <3>1 DEF RingType
  <2>3. Bounded'
    <3>1. SlotType' = SlotType /\ RingType' = RingType
      BY <1>1 DEF SlotType, RingType
    <3>2. QED
      BY <1>1, <1>8, <2>1, <2>2, <3>1 DEF Bounded, SlotType, RingType
  <2>4. chunk' = Units(ring.offset, slot[s].length) /\ chunk' # <<>>
    <3>1. chunk' = Units(ring.offset, slot[s].length)
      BY <1>6, <2>1 DEF Units
    <3>2. slot[s].length # 0
      BY <1>6
    <3>3. QED
      BY <1>6, <3>1, <3>2, UnitsAreUnits
  <2>5. Data'
    <3>1. PICK k, m \in Nat : delivered = Units(0, k) /\ chunk = Units(k, m) /\ k + m = ring.offset
      BY <1>1 DEF InOrder, Data
    <3>2. m = 0
      BY <1>1, <3>1, UnitsAreUnits
    <3>3. k = ring.offset
      BY <3>1, <3>2
    <3>4. outcome' # "done"
      BY <1>1, <2>1 DEF Blame
    <3>5. ring.offset + slot[s].length = ring'.offset
      BY <1>6, <2>2 DEF after
    <3>6. QED
      BY <1>1, <1>6, <2>4, <3>1, <3>3, <3>4, <3>5 DEF Data
  <2>6. \A j \in 0 .. n - 2 : /\ j + 1 \in 0 .. n - 1 /\ Place(j)' = Place(j + 1)
                              /\ Place(j + 1) # s /\ InRing(j)' = InRing(j + 1)
    <3> SUFFICES ASSUME NEW j \in 0 .. n - 2
                 PROVE  /\ j + 1 \in 0 .. n - 1 /\ Place(j)' = Place(j + 1)
                        /\ Place(j + 1) # s /\ InRing(j)' = InRing(j + 1)
      OBVIOUS
    <3>1. j + 1 \in 0 .. n - 1 /\ j \in 0 .. Depth - 1 /\ j + 1 \in 0 .. Depth - 1 /\ j + 1 # 0
      BY <1>2
    <3>2. Place(j)' = Place(j + 1)
      BY <1>0, <1>2, <2>2, <3>1, NextPlace DEF Place
    <3>3. Place(j + 1) # s
      <4>1. 0 \in 0 .. Depth - 1
        BY <1>2
      <4>2. QED
        BY <1>0, <1>2, <1>3, <3>1, <4>1, PlacesDiffer DEF Place
    <3>4. InRing(j)' = slot'[Place(j)']
      BY DEF InRing, Place
    <3>5. QED
      BY <1>5, <1>8, <3>1, <3>2, <3>3, <3>4
  <2>7. Shape'
    <3>1. ring'.toIssue = Place(n - 1)'
      <4>1. n - 1 \in 0 .. Depth - 1 /\ (n - 1) + 1 = n
        BY <1>2
      <4>2. (NextSlot(s) + (n - 1)) % Depth = (s + ((n - 1) + 1)) % Depth
        BY <1>2, <4>1, NextPlace
      <4>3. QED
        BY <1>0, <1>1, <2>2, <4>1, <4>2 DEF Shape, Place
    <3>2. ASSUME NEW j \in 0 .. n - 2
          PROVE  /\ InRing(j)'.inFlight /\ InRing(j)'.length > 0
                 /\ InRing(j)'.offset + InRing(j)'.length =
                      IF j = n - 2 THEN ring.issueOffset ELSE InRing(j + 1)'.offset
                 /\ j = 0 => InRing(j)'.offset = after
      <4>1. /\ InRing(j)' = InRing(j + 1) /\ j + 1 \in 0 .. n - 1
            /\ (j # n - 2 => InRing(j + 1)' = InRing((j + 1) + 1))
        <5>1. j # n - 2 => j + 1 \in 0 .. n - 2
          BY <1>2
        <5>2. QED
          BY <2>6, <5>1
      <4>2. /\ InRing(j + 1).inFlight /\ InRing(j + 1).length > 0
            /\ InRing(j + 1).offset + InRing(j + 1).length =
                 IF j + 1 = n - 1 THEN ring.issueOffset ELSE InRing((j + 1) + 1).offset
        BY <1>4, <4>1
      <4>3. j + 1 = n - 1 <=> j = n - 2
        BY <1>2
      <4>4. j = 0 => InRing(j + 1).offset = after
        <5>1. SUFFICES ASSUME j = 0 PROVE InRing(0 + 1).offset = after
          OBVIOUS
        <5>2. 0 \in 0 .. n - 1 /\ 0 # n - 1
          BY <1>2, <5>1
        <5>3. QED
          BY <1>3, <1>4, <5>2 DEF after
      <4>5. QED
        BY <4>1, <4>2, <4>3, <4>4
    <3>3. n - 1 = 0 => after = ring.issueOffset
      <4>1. SUFFICES ASSUME n - 1 = 0 PROVE after = ring.issueOffset
        OBVIOUS
      <4>2. 0 \in 0 .. n - 1 /\ 0 = n - 1
        BY <4>1
      <4>3. QED
        BY <1>3, <1>4, <4>2 DEF after
    <3>4. ASSUME NEW t \in Slot, slot'[t].inFlight PROVE \E j \in 0 .. n - 2 : t = Place(j)'
      <4>1. t # s /\ slot[t].inFlight
        BY <1>8, <3>4
      <4>2. PICK j \in 0 .. n - 1 : t = Place(j)
        BY <1>0, <1>1, <4>1 DEF Shape
      <4>3. j # 0
        BY <1>3, <4>1, <4>2
      <4>4. j - 1 \in 0 .. n - 2 /\ (j - 1) + 1 = j
        BY <1>2, <4>2, <4>3
      <4>5. Place(j - 1)' = Place((j - 1) + 1)
        BY <2>6, <4>4
      <4>6. QED
        BY <4>2, <4>4, <4>5
    <3>5. (n - 1) - 1 = n - 2
      BY <1>2
    <3>6. QED
      BY <2>2, <3>1, <3>2, <3>3, <3>4, <3>5 DEF Shape
  <2>8. Chosen'
    <3>1. pc' # "readFile"
      BY <2>1
    <3>2. QED
      BY <1>1, <1>8, <3>1 DEF Chosen
  <2>9. Working' /\ Course'
    BY <1>1, <2>1, <2>4 DEF Course, Issuing, Copying, Source, Working
  <2>10. Blame'
    BY <1>1, <1>2, <1>8, <2>1, <2>9 DEF Blame, CancelRequested
  <2>11. QED
    BY <2>3, <2>5, <2>7, <2>8, <2>9, <2>10 DEF InOrder
<1>11. QED
  BY <1>9, <1>10

(* close(), and what the system does after it.                             *)
LEMMA CloseKeepsOrder ==
  ASSUME InOrder, IInv, CloseSlot \/ CloseWait \/ CloseHandle
  PROVE  InOrder'
<1>1. /\ ~Working /\ ~Working' /\ Bounded /\ Blame
      /\ UNCHANGED <<scenario, ring, then, issued, chunk, wanted, copied, delivered, cancel, outcome>>
  BY DEF CloseSlot, CloseWait, CloseHandle, Working, InOrder, user
<1>2. /\ pc' \in {"close", "closeWait", "closed"} /\ open' \in BOOLEAN /\ guard' \in Nat
  <2>1. pc' \in {"close", "closeWait", "closed"}
    BY DEF CloseSlot, CloseWait, CloseHandle
  <2>2. open' \in {open, FALSE} /\ guard' \in {guard, 0}
    BY DEF CloseSlot, CloseWait, CloseHandle, user
  <2>3. QED
    <3>1. open \in BOOLEAN /\ guard \in Nat
      BY <1>1 DEF Bounded
    <3>2. open' \in BOOLEAN
      BY <2>2, <3>1
    <3>3. guard' \in Nat
      BY <2>2, <3>1
    <3>4. QED
      BY <2>1, <3>2, <3>3
<1>3. at' \in 0 .. Depth
  <2>1. at \in Slot => at + 1 \in 0 .. Depth
    BY DepthIsPositive DEF Slot
  <2>2. CloseWait => at \in Slot
    BY DEF CloseWait, IInv, ClosedSoFar
  <2>3. QED
    BY <1>1, <2>1, <2>2 DEF CloseSlot, CloseWait, CloseHandle, Bounded
<1>4. slot' \in [Slot -> SlotType]
  <2>1. 0 \in 0 .. scenario.size /\ 0 \in 0 .. SlotSize
    BY <1>1, Sizes DEF Bounded
  <2>2. Free \in SlotType
    BY <2>1 DEF Free, SlotType
  <2>3. slot' = slot \/ slot' = [slot EXCEPT ![at] = Free]
    BY DEF CloseSlot, CloseWait, CloseHandle
  <2>4. QED
    BY <1>1, <2>2, <2>3 DEF Bounded, SlotType
<1>5. op' \in [Slot -> Results] /\ \A s \in Slot : op'[s] \in {"read", "short"} => op[s] = op'[s]
  <2>1. op' = op \/ op' = [op EXCEPT ![at] = IF @ = "pending" THEN "aborted" ELSE @]
    BY DEF CloseSlot, CloseWait, CloseHandle, AbortOrNot
  <2>2. QED
    BY <1>1, <2>1 DEF Bounded, Results
<1>6. Bounded'
  <2>1. SlotType' = SlotType
    BY <1>1 DEF SlotType
  <2>2. QED
    BY <1>1, <1>2, <1>3, <1>4, <1>5, <2>1 DEF Bounded, SlotType
<1>7. Data'
  BY <1>1 DEF InOrder, Data
<1>8. Blame'
  BY <1>1, <1>5 DEF Blame
<1>9. QED
  BY <1>1, <1>6, <1>7, <1>8 DEF InOrder

(* Reads that end and a cancellation, which abort reads or fail them.      *)
LEMMA SystemKeepsOrder ==
  ASSUME InOrder, op' \in [Slot -> Results], cancel' \in 0 .. 3,
         \A s \in Slot : /\ op'[s] \in {"read", "short"} => op'[s] \in {op[s], scenario.fault}
                         /\ op'[s] = "aborted" => op[s] = "aborted" \/ CancelRequested,
         CancelRequested => CancelRequested',
         UNCHANGED <<scenario, slot, ring, open, pc, then, issued, at, user, outcome>>
  PROVE  InOrder'
<1>1. Bounded'
  BY DEF InOrder, Bounded, user
<1>2. Working => Shape' /\ Chosen' /\ Course'
  BY DEF InOrder, Shape, Chosen, Course, InRing, Place, Length, ChunkSize, Source, Issuing, Copying, user
<1>3. Working' = Working
  BY DEF Working
<1>4. Data'
  BY <1>3 DEF InOrder, Data, user
<1>5. Blame'
  BY <1>3 DEF InOrder, Blame
<1>6. QED
  BY <1>1, <1>2, <1>3, <1>4, <1>5 DEF InOrder

(* The end of the queue, with the file in it or not.                       *)
LEMMA EndQueueKeepsOrder ==
  ASSUME InOrder, EndQueue
  PROVE  InOrder'
<1>1. UNCHANGED <<scenario, op, slot, ring, open, then, issued, chunk, wanted, copied, delivered, cancel,
                  guard>>
  BY DEF EndQueue, CloseQueue, AbandonQueue, Dispose
<1>2. CASE UNCHANGED <<pc, at, outcome>>
  <2>1. op \in [Slot -> Results] /\ cancel \in 0 .. 3
    BY DEF InOrder, Bounded
  <2>2. QED
    BY <1>1, <1>2, <2>1, SystemKeepsOrder DEF CancelRequested, user
<1>3. CASE ~UNCHANGED <<pc, at, outcome>>
  <2>1. pc \in {"parked", "queued"} /\ pc' = "close" /\ at' = 0 /\ outcome' = "disposed"
    BY <1>3 DEF EndQueue, CloseQueue, AbandonQueue, Dispose
  <2>2. Bounded /\ Working
    BY <2>1 DEF InOrder, Working
  <2>3. QED
    BY <1>1, <2>1, <2>2, LeavingKeepsOrder DEF Bounded
<1>4. QED
  BY <1>2, <1>3

(* Every step.                                                             *)
LEMMA NextKeepsOrder == InOrder /\ IInv /\ [Next]_vars => InOrder'
<1> SUFFICES ASSUME InOrder, IInv, [Next]_vars PROVE InOrder'
  OBVIOUS
<1>1. CASE Prefetch \/ Prime
  BY <1>1, PrefetchKeepsOrder
<1>2. CASE InQueue \/ Take \/ AddEntry \/ Read \/ Call \/ Drop
  BY <1>2, TakeKeepsOrder
<1>3. CASE Deliver
  BY <1>3, DeliverKeepsOrder
<1>4. CASE Copy
  BY <1>4, CopyKeepsOrder
<1>5. CASE Issue
  BY <1>5, IssueKeepsOrder
<1>6. CASE ReadFile
  BY <1>6, ReadFileKeepsOrder
<1>7. CASE Consume
  BY <1>7, ConsumeKeepsOrder
<1>8. CASE CloseSlot \/ CloseWait \/ CloseHandle
  BY <1>8, CloseKeepsOrder
<1>9. op \in [Slot -> Results] /\ cancel \in 0 .. 3
  BY DEF InOrder, Bounded
<1>10. CASE Complete
  <2>1. PICK s \in Slot : \/ op' = [op EXCEPT ![s] = "ok"]
                          \/ scenario.fault \in {"read", "short"} /\ op' = [op EXCEPT ![s] = scenario.fault]
    BY <1>10 DEF Complete
  <2>2. UNCHANGED <<scenario, slot, ring, open, pc, then, issued, at, user, cancel, outcome>>
    BY <1>10 DEF Complete
  <2>3. op' \in [Slot -> Results]
    BY <1>9, <2>1 DEF Results
  <2>4. \A t \in Slot : /\ op'[t] \in {"read", "short"} => op'[t] \in {op[t], scenario.fault}
                        /\ op'[t] = "aborted" => op[t] = "aborted"
    BY <1>9, <2>1
  <2>5. QED
    BY <1>9, <2>2, <2>3, <2>4, SystemKeepsOrder DEF CancelRequested
<1>11. CASE Cancel
  <2>1. /\ cancel = 0 /\ cancel' = 1
        /\ UNCHANGED <<scenario, op, slot, ring, open, pc, then, issued, at, user, outcome>>
    BY <1>11 DEF Cancel
  <2>2. QED
    BY <1>9, <2>1, SystemKeepsOrder DEF CancelRequested
<1>12. CASE CancelReader
  <2>1. UNCHANGED <<scenario, slot, ring, open, pc, then, issued, at, user, outcome>>
    BY <1>12 DEF CancelReader
  <2>2. \/ cancel = 1 /\ cancel' = 2 /\ op' = op
        \/ /\ cancel = 2 /\ cancel' = 3
           /\ \/ op' = op
              \/ \E done \in SUBSET Slot : op' = [s \in Slot |-> IF s \in done THEN "aborted" ELSE op[s]]
    BY <1>12 DEF CancelReader, RequestCancel, CancelIo
  <2>3. op' \in [Slot -> Results] /\ cancel' \in 0 .. 3
    BY <1>9, <2>2 DEF Results
  <2>4. \A t \in Slot : /\ op'[t] \in {"read", "short"} => op'[t] = op[t]
                        /\ op'[t] = "aborted" => op[t] = "aborted" \/ cancel = 2
    BY <1>9, <2>2
  <2>5. (CancelRequested => CancelRequested') /\ (cancel = 2 => CancelRequested)
    BY <2>2 DEF CancelRequested
  <2>6. QED
    BY <2>1, <2>3, <2>4, <2>5, SystemKeepsOrder
<1>13. CASE UNCHANGED vars
  <2>1. UNCHANGED <<scenario, op, slot, ring, open, pc, then, issued, at, user, cancel, outcome>>
    BY <1>13 DEF vars
  <2>2. QED
    BY <1>9, <2>1, SystemKeepsOrder DEF CancelRequested
<1>14. CASE EndQueue
  BY <1>14, EndQueueKeepsOrder
<1>15. QED
  BY <1>14, <1>1, <1>2, <1>3, <1>4, <1>5, <1>6, <1>7, <1>8, <1>10, <1>11, <1>12, <1>13
     DEF Next, UserStep, Finished

LEMMA InitInOrder == Init => InOrder
<1> SUFFICES ASSUME Init PROVE InOrder
  OBVIOUS
<1>1. /\ scenario \in Scenarios /\ scenario.size \in Nat /\ SlotSize \in Nat \ {0} /\ Depth \in Nat \ {0}
  BY Sizes DEF Init
<1>2. 0 \in Slot /\ 0 \in 0 .. Depth /\ 0 \in 0 .. scenario.size /\ 0 \in 0 .. SlotSize
  BY <1>1 DEF Slot
<1>3. Bounded
  BY <1>1, <1>2 DEF Init, Bounded, Free, Results
<1>4. Shape
  <2>1. (0 + 0) % Depth = 0
    <3>1. (0 + 0) % Depth = IF 0 + 0 < Depth THEN 0 + 0 ELSE 0 + 0 - Depth
      BY <1>2, PlaceValue
    <3>2. QED
      BY <1>1, <3>1
  <2>2. \A j \in 0 .. 0 - 1 : FALSE
    OBVIOUS
  <2>3. QED
    BY <1>1, <2>1, <2>2 DEF Init, Shape, Place, Free
<1>5. Chosen /\ Course
  BY <1>1 DEF Init, Chosen, Course, Issuing, Copying, Source, Free
<1>6. Data
  <2>1. Units(0, 0) = <<>> /\ 0 \in Nat
    BY UnitsAreUnits
  <2>2. QED
    BY <2>1 DEF Init, Data
<1>7. Blame
  BY DEF Init, Blame, Working, Source
<1>8. QED
  BY <1>3, <1>4, <1>5, <1>6, <1>7 DEF InOrder

(* InOrder holds throughout, with the invariant that buffers are owned.    *)
LEMMA AlwaysInOrder == Spec => []InOrder
<1>1. Spec => []IInv
  BY InitEstablishesInvariant, NextKeepsInvariant, PTL DEF Spec
<1>2. QED
  BY <1>1, InitInOrder, NextKeepsOrder, PTL DEF Spec

(* Every variable has its type. Until the reader is let go of the ring     *)
(* keeps its shape, however often it has gone round and whatever the       *)
(* system does with the reads: the reads in flight lie one behind the      *)
(* other in the slots and in the file, without a gap, and every read is    *)
(* issued to the slot behind the last.                                     *)
THEOREM TypeCorrect == Spec => []TypeOK
<1> DEFINE QueueOK == queue \in {"open", "closed", "abandoned"}
<1>1. InOrder /\ QueueOK => TypeOK
  <2>1. SUFFICES ASSUME InOrder, Working,
                        Bounded, Shape
                 PROVE  {s \in Slot : slot[s].inFlight} =
                          {(ring.toConsume + j) % Depth : j \in 0 .. ring.inFlight - 1}
    BY DEF InOrder, TypeOK, Bounded, Shape, Place, Results
  <2>2. ring.inFlight \in 0 .. Depth /\ ring.toConsume \in Slot /\ Depth \in Nat
    BY <2>1, DepthIsPositive DEF Bounded
  <2>3. \A j \in 0 .. ring.inFlight - 1 : Place(j) \in Slot /\ slot[Place(j)].inFlight
    <3> SUFFICES ASSUME NEW j \in 0 .. ring.inFlight - 1 PROVE Place(j) \in Slot /\ slot[Place(j)].inFlight
      OBVIOUS
    <3>1. j \in 0 .. Depth
      BY <2>2
    <3>2. QED
      BY <2>1, <2>2, <3>1, PlaceValue DEF Shape, InRing, Place
  <2>4. QED
    BY <2>1, <2>3 DEF Shape, Place
<1>2. Init => QueueOK
  BY DEF Init
<1>3. QueueOK /\ [Next]_vars => QueueOK'
  <2> SUFFICES ASSUME QueueOK, [Next]_vars PROVE QueueOK'
    OBVIOUS
  <2>1. CASE EndQueue
    BY <2>1 DEF EndQueue, CloseQueue, AbandonQueue
  <2>2. CASE ~EndQueue
    <3>1. queue' = queue
      BY <2>2 DEF Next, UserStep, Finished, vars, Prefetch, Prime, Issue, ReadFile, Read, Consume,
                  InQueue, Take, AddEntry, Deliver, Call, Copy, CloseSlot, CloseWait, CloseHandle,
                  Complete, Drop, Cancel, CancelReader
    <3>2. QED
      BY <3>1
  <2>3. QED
    BY <2>1, <2>2
<1>4. QED
  BY <1>1, <1>2, <1>3, AlwaysInOrder, PTL DEF Spec

(* In whatever order the system completes the reads, the user gets the     *)
(* units of the file in order, all of them if it thinks this was the end,  *)
(* and hears of a failed read only when one failed.                        *)
THEOREM DataInOrder == Spec => []DeliveredInOrder
<1>1. InOrder => DeliveredInOrder
  <2> SUFFICES ASSUME InOrder PROVE DeliveredInOrder
    OBVIOUS
  <2>1. PICK n \in Nat : delivered = Units(0, n) /\ (outcome = "done" => n = scenario.size)
    BY DEF InOrder, Data
  <2>2. Len(delivered) = n
    BY <2>1, UnitsAreUnits
  <2>3. \A k \in 1 .. n : 0 + k - 1 = k - 1
    OBVIOUS
  <2>4. delivered = [k \in 1 .. n |-> k - 1]
    BY <2>1, <2>3 DEF Units
  <2>5. QED
    BY <2>1, <2>2, <2>4 DEF DeliveredInOrder, InOrder, Blame
<1>2. QED
  BY <1>1, AlwaysInOrder, PTL

(***************************************************************************)
(* Sums of lengths. FoldSet is a recursive function that takes the         *)
(* elements off in the order CHOOSE gives them. On a finite set the order  *)
(* is of no consequence: there is a function on its subsets from which any *)
(* element may be taken off (Additive), and the recursion defines no other.*)
(***************************************************************************)
Pick(s) == CHOOSE x \in s : TRUE

FoldsTo(S, v, g) ==
  g = [s \in SUBSET S |-> IF s = {} THEN 0 ELSE g[s \ {Pick(s)}] + v[Pick(s)].length]

LengthOf(S, v) == (CHOOSE g : FoldsTo(S, v, g))[S]

Additive(S, v, g) ==
  /\ g \in [SUBSET S -> Nat]
  /\ g[{}] = 0
  /\ \A s \in SUBSET S : \A x \in s : g[s] = g[s \ {x}] + v[x].length

Buffered == {s \in Slot : slot[s].buffer}

(* ReadAhead is such a sum.                                                *)
LEMMA ReadAheadIsSum ==
  /\ ReadAhead = LengthOf(Buffered, slot)
  /\ ReadAhead' = LengthOf(Buffered', slot')
<1>1. ReadAhead = LengthOf(Buffered, slot)
  BY Zenon DEF ReadAhead, FoldSet, MapThenFoldSet, LengthOf, FoldsTo, Pick, Buffered
<1>2. ReadAhead' = LengthOf(Buffered', slot')
  BY Zenon DEF ReadAhead, FoldSet, MapThenFoldSet, LengthOf, FoldsTo, Pick, Buffered
<1>3. QED
  BY <1>1, <1>2

(* A set of subsets of a finite set to which each subset belongs when all  *)
(* those with one element less do holds the whole set.                     *)
LEMMA SubsetInduction ==
  ASSUME NEW S, IsFiniteSet(S), NEW Q,
         \A T \in SUBSET S : (\A x \in T : T \ {x} \in Q) => T \in Q
  PROVE  S \in Q
<1> DEFINE F == FiniteSubsetsOf(S)
           R == StrictSubsetOrdering(S)
           B == F \ Q
<1>1. IsWellFoundedOn(R, F)
  BY FS_StrictSubsetOrderingWellFounded
<1>2. \A T \in SUBSET S : T \in F
  BY FS_Subset DEF FiniteSubsetsOf
<1>3. \A T \in F : T \in SUBSET S
  BY DEF FiniteSubsetsOf
<1>4. \A T \in SUBSET S : \A x \in T : <<T \ {x}, T>> \in R
  BY DEF StrictSubsetOrdering
<1>5. B \subseteq F
  OBVIOUS
<1>6. SUFFICES ASSUME B # {} PROVE FALSE
  BY <1>2
<1> HIDE DEF F, R, B
<1>7. PICK T \in B : \A U \in B : ~ (<<U, T>> \in R)
  BY <1>1, <1>5, <1>6, WFMin
<1>8. T \in SUBSET S /\ T \notin Q
  BY <1>3, <1>7 DEF B
<1>9. PICK x \in T : T \ {x} \notin Q
  BY <1>8
<1>10. T \ {x} \in B
  BY <1>2, <1>8, <1>9 DEF B
<1>11. QED
  BY <1>4, <1>7, <1>8, <1>10

(* There is an additive function on the subsets of a finite set.           *)
LEMMA AdditiveExists ==
  ASSUME NEW S, IsFiniteSet(S), NEW v, \A x \in S : v[x].length \in Nat
  PROVE  \E g : Additive(S, v, g)
<1> DEFINE Q == {T \in SUBSET S : \E g : Additive(T, v, g)}
<1>1. {} \in Q
  <2> DEFINE g == [s \in SUBSET {} |-> 0]
  <2>1. Additive({}, v, g)
    BY DEF Additive
  <2>2. QED
    BY <2>1
<1>2. ASSUME NEW T \in SUBSET S, NEW x \in T, T \ {x} \in Q
      PROVE  T \in Q
  <2>1. PICK g : Additive(T \ {x}, v, g)
    BY <1>2
  <2> DEFINE h == [s \in SUBSET T |-> IF x \in s THEN g[s \ {x}] + v[x].length ELSE g[s]]
  <2>2. /\ g \in [SUBSET (T \ {x}) -> Nat] /\ g[{}] = 0
        /\ \A s \in SUBSET (T \ {x}) : \A y \in s : g[s] = g[s \ {y}] + v[y].length
    BY <2>1 DEF Additive
  <2>3. \A s \in SUBSET T : s \ {x} \in SUBSET (T \ {x}) /\ (x \notin s => s \in SUBSET (T \ {x}))
    OBVIOUS
  <2>4. \A y \in T : v[y].length \in Nat
    OBVIOUS
  <2>5. /\ DOMAIN h = SUBSET T
        /\ \A s \in SUBSET T : h[s] = IF x \in s THEN g[s \ {x}] + v[x].length ELSE g[s]
    OBVIOUS
  <2>6. h \in [SUBSET T -> Nat] /\ h[{}] = 0
    BY <2>2, <2>3, <2>4
  <2> HIDE DEF h
  <2>7. ASSUME NEW s \in SUBSET T, NEW y \in s
        PROVE  h[s] = h[s \ {y}] + v[y].length
    <3>1. s \ {y} \in SUBSET T /\ y \in T
      OBVIOUS
    <3>2. CASE x \notin s
      <4>1. h[s] = g[s] /\ h[s \ {y}] = g[s \ {y}] /\ s \in SUBSET (T \ {x})
        BY <2>3, <2>5, <3>1, <3>2
      <4>2. QED
        BY <2>2, <4>1
    <3>3. CASE x \in s /\ y = x
      BY <2>5, <3>1, <3>3
    <3>4. CASE x \in s /\ y # x
      <4>1. h[s] = g[s \ {x}] + v[x].length /\ h[s \ {y}] = g[(s \ {y}) \ {x}] + v[x].length
        BY <2>5, <3>1, <3>4
      <4>2. s \ {x} \in SUBSET (T \ {x}) /\ y \in s \ {x}
        BY <3>4
      <4>3. (s \ {x}) \ {y} = (s \ {y}) \ {x}
        OBVIOUS
      <4>4. g[s \ {x}] = g[(s \ {y}) \ {x}] + v[y].length
        BY <2>2, <4>2, <4>3
      <4>5. g[(s \ {y}) \ {x}] \in Nat /\ v[x].length \in Nat /\ v[y].length \in Nat
        BY <2>2, <2>3, <2>4, <3>1
      <4>6. QED
        BY <4>1, <4>4, <4>5
    <3>5. QED
      BY <3>2, <3>3, <3>4
  <2>8. Additive(T, v, h)
    BY <2>6, <2>7 DEF Additive
  <2>9. QED
    BY <2>8
<1> HIDE DEF Q
<1>3. S \in Q
  <2>1. ASSUME NEW T \in SUBSET S, \A x \in T : T \ {x} \in Q
        PROVE  T \in Q
    <3>1. CASE T = {}
      BY <1>1, <3>1
    <3>2. CASE T # {}
      BY <1>2, <2>1, <3>2
    <3>3. QED
      BY <3>1, <3>2
  <2>2. QED
    BY <2>1, SubsetInduction
<1>4. QED
  BY <1>3 DEF Q

(* The sum over a subset of a finite set is what any additive function on  *)
(* the whole gives for it.                                                 *)
LEMMA SumIsAdditive ==
  ASSUME NEW D, IsFiniteSet(D), NEW v, NEW a, Additive(D, v, a), NEW S \in SUBSET D
  PROVE  LengthOf(S, v) = a[S]
<1> DEFINE g == [s \in SUBSET S |-> a[s]]
           f == CHOOSE h : FoldsTo(S, v, h)
           Q == {T \in SUBSET S : f[T] = a[T]}
<1>1. /\ a[{}] = 0 /\ \A s \in SUBSET D : \A x \in s : a[s] = a[s \ {x}] + v[x].length
  BY DEF Additive
<1>2. \A s \in SUBSET S : s # {} => Pick(s) \in s
  BY DEF Pick
<1>3. FoldsTo(S, v, g)
  <2> DEFINE k == [s \in SUBSET S |-> IF s = {} THEN 0 ELSE g[s \ {Pick(s)}] + v[Pick(s)].length]
  <2>1. ASSUME NEW s \in SUBSET S PROVE g[s] = k[s]
    <3>1. CASE s = {}
      BY <1>1, <3>1
    <3>2. CASE s # {}
      <4>1. Pick(s) \in s /\ s \in SUBSET D /\ s \ {Pick(s)} \in SUBSET S
        BY <1>2, <3>2
      <4>2. QED
        BY <1>1, <3>2, <4>1
    <3>3. QED
      BY <3>1, <3>2
  <2>2. g = k
    BY <2>1
  <2>3. QED
    BY <2>2 DEF FoldsTo
<1>4. FoldsTo(S, v, f)
  BY <1>3, Zenon
<1>5. \A s \in SUBSET S : f[s] = IF s = {} THEN 0 ELSE f[s \ {Pick(s)}] + v[Pick(s)].length
  BY <1>4 DEF FoldsTo
<1>6. LengthOf(S, v) = f[S]
  BY DEF LengthOf
<1> HIDE DEF f
<1>7. f[{}] = a[{}]
  BY <1>1, <1>5
<1>8. S \in Q
  <2>1. ASSUME NEW T \in SUBSET S, \A x \in T : T \ {x} \in Q
        PROVE  T \in Q
    <3>1. CASE T = {}
      BY <1>1, <1>5, <3>1
    <3>2. CASE T # {}
      <4>1. Pick(T) \in T /\ T \in SUBSET D /\ f[T \ {Pick(T)}] = a[T \ {Pick(T)}]
        BY <1>2, <2>1, <3>2
      <4>2. f[T] = a[T]
        BY <1>1, <1>5, <3>2, <4>1
      <4>3. QED
        BY <4>2
    <3>3. QED
      BY <3>1, <3>2
  <2>2. IsFiniteSet(S)
    BY FS_Subset
  <2> HIDE DEF Q
  <2>3. QED
    BY <2>1, <2>2, SubsetInduction
<1>9. QED
  BY <1>6, <1>8

(* What is needed of sums: the empty one is zero, any element can be taken *)
(* off, and it is the lengths in the set alone that count.                 *)
LEMMA SumOfNone == ASSUME NEW v PROVE LengthOf({}, v) = 0
<1> DEFINE g == [s \in SUBSET {} |-> 0]
<1>1. Additive({}, v, g)
  BY DEF Additive
<1>2. IsFiniteSet({})
  BY FS_EmptySet
<1> HIDE DEF g
<1>3. LengthOf({}, v) = g[{}]
  BY <1>1, <1>2, SumIsAdditive
<1>4. QED
  BY <1>1, <1>3 DEF Additive

(* Any element can be taken off.                                           *)
LEMMA SumWithout ==
  ASSUME NEW S, IsFiniteSet(S), NEW v, \A x \in S : v[x].length \in Nat, NEW x \in S
  PROVE  /\ LengthOf(S, v) = LengthOf(S \ {x}, v) + v[x].length
         /\ LengthOf(S \ {x}, v) \in Nat
<1>1. PICK a : Additive(S, v, a)
  BY AdditiveExists
<1>2. S \ {x} \in SUBSET S /\ S \in SUBSET S
  OBVIOUS
<1>3. LengthOf(S, v) = a[S] /\ LengthOf(S \ {x}, v) = a[S \ {x}]
  BY <1>1, <1>2, SumIsAdditive
<1>4. a[S] = a[S \ {x}] + v[x].length /\ a[S \ {x}] \in Nat
  BY <1>1, <1>2 DEF Additive
<1>5. QED
  BY <1>3, <1>4

(* Only the lengths in the set count.                                      *)
LEMMA SumOfSame ==
  ASSUME NEW S, IsFiniteSet(S), NEW v, NEW w,
         \A x \in S : v[x].length \in Nat /\ w[x].length = v[x].length
  PROVE  LengthOf(S, w) = LengthOf(S, v)
<1>1. PICK a : Additive(S, v, a)
  BY AdditiveExists
<1>2. Additive(S, w, a)
  BY <1>1 DEF Additive
<1>3. QED
  BY <1>1, <1>2, SumIsAdditive

(***************************************************************************)
(* The budget. Prefetching issues reads of one length until they have used *)
(* the budget or are the whole file: what they read ahead is issued_bytes. *)
(* The last of them still fits, since the budget is a number of such reads *)
(* or the whole file (Prefetching, ReadFits).                              *)
(***************************************************************************)
Prefetching ==
  /\ guard = PrefetchBytes /\ issued = ring.issueOffset /\ issued <= PrefetchBytes
  /\ Issuing => issued < PrefetchBytes
  /\ issued = ring.inFlight * ChunkSize \/ issued = scenario.size
  /\ ReadAhead = IF pc = "readFile" THEN issued + slot[at].length ELSE issued

Budgeted ==
  ~Source =>
    /\ pc = "opened" => /\ guard = 0 /\ issued = 0 /\ ring.issueOffset = 0 /\ ring.inFlight = 0
                        /\ ReadAhead = 0
    /\ Priming => Prefetching
    /\ BudgetCoversReads

(* A multiple of s below m * s is at least s below it.                     *)
LEMMA Multiples ==
  ASSUME NEW n \in Nat, NEW m \in Nat, NEW s \in Nat
  PROVE  /\ n * s \in Nat /\ m * s \in Nat /\ (n + 1) * s = n * s + s
         /\ n * s < m * s => n * s + s <= m * s
         /\ n > 0 => s <= n * s
<1>1. n * s \in Nat /\ m * s \in Nat /\ (n + 1) * s = n * s + s
  OBVIOUS
<1>2. ASSUME NEW a \in Nat, NEW b \in Nat, a <= b PROVE a * s <= b * s
  <2>1. PICK d \in Nat : b = a + d
    <3>1. b - a \in Nat /\ b = a + (b - a)
      BY <1>2
    <3>2. QED
      BY <3>1
  <2>2. b * s = a * s + d * s /\ d * s \in Nat /\ a * s \in Nat
    BY <2>1
  <2>3. QED
    BY <2>2
<1>3. ASSUME n * s < m * s PROVE n * s + s <= m * s
  <2>1. ~ (m <= n)
    BY <1>1, <1>2, <1>3
  <2>2. n + 1 <= m /\ n + 1 \in Nat
    BY <2>1
  <2>3. (n + 1) * s <= m * s
    BY <1>2, <2>2
  <2>4. QED
    BY <1>1, <2>3
<1>4. ASSUME n > 0 PROVE s <= n * s
  <2>1. 1 * s <= n * s /\ 1 * s = s
    BY <1>2, <1>4
  <2>2. QED
    BY <2>1
<1>5. QED
  BY <1>1, <1>3, <1>4

(* The next read is still within the budget.                              *)
LEMMA NextReadFits ==
  ASSUME Bounded, ~Source, issued = ring.issueOffset, issued < PrefetchBytes,
         ring.issueOffset < scenario.size,
         issued = ring.inFlight * ChunkSize \/ issued = scenario.size
  PROVE  /\ issued + Length <= PrefetchBytes
         /\ issued + Length = (ring.inFlight + 1) * ChunkSize \/ issued + Length = scenario.size
<1>1. PICK z, s, m, n, i : /\ z = scenario.size /\ s = SlotSize /\ m = MaxSlots
                           /\ n = ring.inFlight /\ i = issued
  OBVIOUS
<1>2. PICK c, p, l : c = ChunkSize /\ p = PrefetchBytes /\ l = Length
  OBVIOUS
<1>3. z \in Nat /\ s \in Nat \ {0} /\ m \in Nat \ {0} /\ n \in Nat /\ i \in Nat
  BY <1>1, Sizes DEF Bounded
<1>4. c = Smaller(z, s)
  BY <1>1, <1>2 DEF ChunkSize
<1>5. p = Smaller(z, m * s)
  BY <1>1, <1>2 DEF PrefetchBytes
<1>6. l = Smaller(c, z - i)
  BY <1>1, <1>2 DEF Length
<1>7. i < p /\ i < z /\ (i = n * c \/ i = z)
  BY <1>1, <1>2
<1>8. i = n * c
  BY <1>3, <1>7
<1>9. s <= m * s /\ m * s \in Nat
  BY <1>3, Multiples
<1>10. ASSUME z <= s PROVE i + l <= p /\ (i + l = (n + 1) * c \/ i + l = z)
  <2>1. c = z /\ p = z
    BY <1>3, <1>4, <1>5, <1>9, <1>10 DEF Smaller
  <2>2. n = 0
    <3>1. n > 0 => z <= n * z
      BY <1>3, Multiples
    <3>2. QED
      BY <1>3, <1>7, <1>8, <2>1, <3>1
  <2>3. i = 0
    BY <1>3, <1>8, <2>1, <2>2
  <2>4. l = z
    BY <1>3, <1>6, <2>1, <2>3 DEF Smaller
  <2>5. QED
    BY <1>3, <2>1, <2>3, <2>4
<1>11. ASSUME z > s PROVE i + l <= p /\ (i + l = (n + 1) * c \/ i + l = z)
  <2>1. c = s
    BY <1>3, <1>4, <1>11 DEF Smaller
  <2>2. (n + 1) * s = i + s /\ (i < m * s => i + s <= m * s)
    BY <1>3, <1>8, <2>1, Multiples
  <2>3. p <= z /\ p <= m * s /\ (p = z \/ p = m * s) /\ p \in Nat
    BY <1>3, <1>5, <1>9 DEF Smaller
  <2>4. i + s <= m * s
    BY <1>3, <1>7, <1>9, <2>2, <2>3
  <2>5. (s < z - i /\ l = s) \/ (z - i <= s /\ l = z - i)
    BY <1>3, <1>6, <2>1 DEF Smaller
  <2>6. i + l <= z /\ i + l <= m * s /\ (i + l = i + s \/ i + l = z)
    BY <1>3, <1>7, <1>9, <2>4, <2>5
  <2>7. QED
    BY <1>3, <1>7, <1>9, <2>1, <2>2, <2>3, <2>6
<1>12. QED
  BY <1>1, <1>2, <1>3, <1>10, <1>11

(* What is read ahead when nothing happens to the slots, when one gets a   *)
(* buffer, and when one is freed.                                          *)
LEMMA SlotsAreFinite ==
  /\ \A S : S \subseteq Slot => IsFiniteSet(S)
  /\ Buffered \subseteq Slot /\ Buffered' \subseteq Slot
<1>1. IsFiniteSet(Slot)
  BY DepthIsPositive, FS_Interval DEF Slot
<1>2. QED
  BY <1>1, FS_Subset DEF Buffered

LEMMA SameSlots == ASSUME UNCHANGED slot PROVE ReadAhead' = ReadAhead
<1>1. Buffered' = Buffered
  BY DEF Buffered
<1>2. QED
  BY <1>1, ReadAheadIsSum

(* A slot that gets a buffer adds the length of its read.                  *)
LEMMA OneMoreBuffer ==
  ASSUME Bounded, NEW t \in Slot, ~slot[t].buffer, slot'[t].buffer, slot'[t].length \in Nat,
         \A s \in Slot : s # t => slot'[s] = slot[s]
  PROVE  ReadAhead' = ReadAhead + slot'[t].length
<1>1. PICK v, w, B : v = slot /\ w = slot' /\ B = Buffered
  OBVIOUS
<1>2. t \notin B /\ Buffered' = B \cup {t} /\ B \subseteq Slot
  BY <1>1 DEF Buffered
<1>3. \A x \in B \cup {t} : w[x].length \in Nat
  BY <1>1, <1>2 DEF Bounded
<1>4. \A x \in B : v[x].length \in Nat /\ w[x].length = v[x].length
  BY <1>1, <1>2 DEF Bounded
<1>5. IsFiniteSet(B \cup {t}) /\ IsFiniteSet(B) /\ (B \cup {t}) \ {t} = B /\ t \in B \cup {t}
  <2>1. B \cup {t} \subseteq Slot
    BY <1>2
  <2>2. QED
    BY <1>2, <2>1, SlotsAreFinite
<1>6. LengthOf(B \cup {t}, w) = LengthOf((B \cup {t}) \ {t}, w) + w[t].length
  BY <1>3, <1>5, SumWithout
<1>7. LengthOf(B, w) = LengthOf(B, v)
  BY <1>4, <1>5, SumOfSame
<1>8. ReadAhead = LengthOf(B, v) /\ ReadAhead' = LengthOf(B \cup {t}, w)
  BY <1>1, <1>2, ReadAheadIsSum
<1>9. QED
  BY <1>1, <1>5, <1>6, <1>7, <1>8

(* A slot that is freed adds nothing any more.                             *)
LEMMA OneFreed ==
  ASSUME Bounded, NEW t \in Slot, slot' = [slot EXCEPT ![t] = Free]
  PROVE  ReadAhead' <= ReadAhead /\ ReadAhead \in Nat /\ ReadAhead' \in Nat
<1>1. PICK v, w, B : v = slot /\ w = slot' /\ B = Buffered
  OBVIOUS
<1>2. Buffered' = B \ {t} /\ B \subseteq Slot
  BY <1>1 DEF Buffered, Bounded, Free
<1>3. IsFiniteSet(B) /\ IsFiniteSet(B \ {t})
  <2>1. B \ {t} \subseteq Slot
    BY <1>2
  <2>2. QED
    BY <1>2, <2>1, SlotsAreFinite
<1>4. \A x \in B : v[x].length \in Nat
  BY <1>1, <1>2 DEF Bounded
<1>5. \A x \in B \ {t} : v[x].length \in Nat /\ w[x].length = v[x].length
  BY <1>1, <1>2 DEF Bounded
<1>6. LengthOf(B \ {t}, w) = LengthOf(B \ {t}, v)
  BY <1>3, <1>5, SumOfSame
<1>7. ReadAhead = LengthOf(B, v) /\ ReadAhead' = LengthOf(B \ {t}, w)
  BY <1>1, <1>2, ReadAheadIsSum
<1>8. CASE t \in B
  <2>1. LengthOf(B, v) = LengthOf(B \ {t}, v) + v[t].length /\ LengthOf(B \ {t}, v) \in Nat
    BY <1>3, <1>4, <1>8, SumWithout
  <2>2. QED
    BY <1>4, <1>6, <1>7, <1>8, <2>1
<1>9. CASE t \notin B
  <2>1. B \ {t} = B
    BY <1>9
  <2>2. LengthOf(B, v) \in Nat
    <3>1. CASE B = {}
      BY <3>1, SumOfNone
    <3>2. CASE B # {}
      <4>1. PICK x : x \in B
        BY <3>2
      <4>2. LengthOf(B, v) = LengthOf(B \ {x}, v) + v[x].length /\ LengthOf(B \ {x}, v) \in Nat
        BY <1>3, <1>4, <4>1, SumWithout
      <4>3. QED
        BY <1>4, <4>1, <4>2
    <3>3. QED
      BY <3>1, <3>2
  <2>3. QED
    BY <1>6, <1>7, <2>1, <2>2
<1>10. QED
  BY <1>8, <1>9

(* Where no budget is held.                                                *)
Unbudgeted ==
  \/ Source
  \/ /\ pc \notin {"opened", "push", "parked", "queued", "prime"} /\ ~(Issuing /\ then = "prime")
     /\ pc \in {"close", "closeWait"} => ~Lost

(* There is nothing to show there.                                         *)
LEMMA UnbudgetedIsBudgeted == ASSUME Unbudgeted' PROVE Budgeted'
BY DEF Unbudgeted, Budgeted, Priming, Issuing, BudgetCoversReads, Waiting

(* A budget is no more than one file may take.                             *)
LEMMA BudgetIsBounded ==
  ASSUME Bounded, ~Source
  PROVE  /\ PrefetchBytes \in Nat /\ PrefetchBytes <= MaxSlots * SlotSize
         /\ MaxSlots * SlotSize \in Nat /\ ChunkSize \in Nat /\ scenario.size \in Nat
         /\ (scenario.size > 0 => PrefetchBytes > 0)
<1>1. /\ scenario.size \in Nat /\ SlotSize \in Nat \ {0} /\ MaxSlots \in Nat \ {0}
      /\ ChunkSize \in 0 .. SlotSize /\ PrefetchBytes \in Nat
  BY Sizes DEF Bounded
<1>2. MaxSlots * SlotSize \in Nat /\ SlotSize <= MaxSlots * SlotSize
  BY <1>1, Multiples
<1>3. PrefetchBytes = Smaller(scenario.size, MaxSlots * SlotSize)
  BY DEF PrefetchBytes
<1>4. QED
  BY <1>1, <1>2, <1>3 DEF Smaller

(* The prefetcher takes the budget and has nothing read ahead yet.         *)
LEMMA PrefetchKeepsBudget ==
  ASSUME InOrder, Budgeted, Prefetch
  PROVE  Budgeted'
<1>1. /\ pc = "opened" /\ UNCHANGED <<scenario, slot, ring, then, issued>>
      /\ Working /\ Course /\ Bounded
  BY DEF Prefetch, InOrder, Working
<1>2. CASE Source
  BY <1>1, <1>2, UnbudgetedIsBudgeted DEF Unbudgeted, Source
<1>3. CASE ~Source /\ Emitted
  <2>1. pc' = "close" /\ outcome' = "cancelled"
    BY <1>1, <1>3 DEF Prefetch, Throw
  <2>2. QED
    BY <2>1, UnbudgetedIsBudgeted DEF Unbudgeted, Issuing, Lost
<1>4. CASE ~Source /\ ~Emitted
  <2>1. guard' = PrefetchBytes /\ pc' = IF scenario.size = 0 THEN "push" ELSE "prime"
    BY <1>1, <1>4 DEF Prefetch
  <2>2. issued = 0 /\ ring.issueOffset = 0 /\ ring.inFlight = 0 /\ ReadAhead = 0
    BY <1>1, <1>4 DEF Budgeted
  <2>3. /\ PrefetchBytes \in Nat /\ PrefetchBytes <= MaxSlots * SlotSize
        /\ ChunkSize \in Nat /\ PrefetchBytes' = PrefetchBytes /\ ChunkSize' = ChunkSize
        /\ ReadAhead' = ReadAhead
    BY <1>1, <1>4, BudgetIsBounded, SameSlots DEF PrefetchBytes, ChunkSize, Source
  <2>4. 0 = 0 * ChunkSize
    BY <2>3
  <2>5. Prefetching'
    BY <1>1, <2>1, <2>2, <2>3, <2>4 DEF Prefetching, Issuing
  <2>6. BudgetCoversReads'
    BY <2>1, <2>2, <2>3 DEF BudgetCoversReads
  <2>7. QED
    BY <2>1, <2>5, <2>6 DEF Budgeted
<1>5. QED
  BY <1>2, <1>3, <1>4

(* What a file that goes to the packer read ahead is within its budget.    *)
LEMMA PrefetchedIsCovered ==
  ASSUME Bounded, ~Source, Prefetching, pc # "readFile", UNCHANGED <<scenario, slot, guard>>
  PROVE  BudgetCoversReads'
<1>1. guard = PrefetchBytes /\ issued <= PrefetchBytes /\ ReadAhead = issued /\ issued \in Nat
  BY DEF Prefetching, Bounded
<1>2. ReadAhead' = ReadAhead /\ PrefetchBytes \in Nat /\ PrefetchBytes <= MaxSlots * SlotSize
  BY SameSlots, BudgetIsBounded
<1>3. QED
  BY <1>1, <1>2 DEF BudgetCoversReads

(* The next read is issued only while the budget is not used up.           *)
LEMMA PrimeKeepsBudget ==
  ASSUME InOrder, Budgeted, Prime
  PROVE  Budgeted'
<1>1. /\ pc = "prime" /\ UNCHANGED <<scenario, slot, ring, issued>>
      /\ Working /\ Course /\ Bounded /\ Priming
  BY DEF Prime, InOrder, Working, Priming
<1>2. CASE Source
  BY <1>1, <1>2, UnbudgetedIsBudgeted DEF Unbudgeted, Source
<1>3. CASE ~Source /\ pc' = "close"
  <2>1. outcome' = "cancelled"
    BY <1>1, <1>3 DEF Prime, Throw, AfterPrefetch
  <2>2. QED
    BY <1>3, <2>1, UnbudgetedIsBudgeted DEF Unbudgeted, Issuing, Lost
<1>4. CASE ~Source /\ pc' # "close"
  <2>1. /\ guard' = guard
        /\ \/ pc' = "push"
           \/ pc' = "issue" /\ ~(issued >= PrefetchBytes)
    BY <1>1, <1>4 DEF Prime, Throw, AfterPrefetch, PrefetchedEnough
  <2>2. Prefetching /\ pc # "readFile" /\ pc' # "readFile"
    BY <1>1, <1>4, <2>1 DEF Budgeted
  <2>3. BudgetCoversReads'
    BY <1>1, <1>4, <2>1, <2>2, PrefetchedIsCovered
  <2>4. PrefetchBytes' = PrefetchBytes /\ ChunkSize' = ChunkSize /\ ReadAhead' = ReadAhead
    BY <1>1, SameSlots DEF PrefetchBytes, ChunkSize, Source
  <2>5. PrefetchBytes \in Nat /\ issued \in Nat
    BY <1>1, <1>4, BudgetIsBounded DEF Bounded
  <2>6. pc' = "issue" => issued < PrefetchBytes
    BY <2>1, <2>5
  <2>7. pc' = "issue" => Prefetching'
    BY <1>1, <2>1, <2>2, <2>4, <2>6 DEF Prefetching
  <2>8. QED
    BY <2>1, <2>3, <2>7 DEF Budgeted, Priming, Issuing
<1>5. QED
  BY <1>2, <1>3, <1>4

(* A read that is issued adds its length, which still fits.                *)
LEMMA IssueKeepsBudget ==
  ASSUME InOrder, Budgeted, Issue
  PROVE  Budgeted'
<1>1. /\ pc = "issue" /\ pc # "readFile" /\ UNCHANGED <<scenario, ring, then, issued>>
      /\ Working /\ Course /\ Bounded /\ Shape /\ Chosen
  BY DEF Issue, InOrder, Working
<1>2. CASE Source
  BY <1>1, <1>2, UnbudgetedIsBudgeted DEF Unbudgeted, Source
<1>3. CASE ~Source /\ CancelRequested
  <2>1. pc' = "close" /\ outcome' = "cancelled"
    BY <1>1, <1>3 DEF Issue, Throw
  <2>2. QED
    BY <2>1, UnbudgetedIsBudgeted DEF Unbudgeted, Issuing, Lost
<1>4. CASE ~Source /\ ~CancelRequested /\ then # "prime"
  <2>1. pc' \in {"readFile", "consume", "deliver"}
    <3>1. pc' \in {"readFile", then}
      BY <1>1, <1>4 DEF Issue, NothingIssued
    <3>2. QED
      BY <1>1, <1>4, <3>1 DEF Bounded
  <2>2. QED
    BY <1>1, <1>4, <2>1, UnbudgetedIsBudgeted DEF Unbudgeted
<1>5. CASE ~Source /\ ~CancelRequested /\ then = "prime"
  <2>1. Prefetching
    BY <1>1, <1>5 DEF Budgeted, Priming, Issuing
  <2>2. \/ pc' = "push" /\ UNCHANGED <<slot, guard>>
        \/ /\ ~(ring.issueOffset >= scenario.size \/ ring.inFlight >= Depth)
           /\ at' = (ring.toIssue + Min(Probes)) % Depth
           /\ slot' = [slot EXCEPT ![at'] = [inFlight |-> FALSE, buffer |-> TRUE,
                                             offset |-> ring.issueOffset, length |-> Length]]
           /\ pc' = "readFile" /\ UNCHANGED guard
    BY <1>1, <1>5 DEF Issue, NothingIssued, AfterPrefetch
  <2>3. CASE pc' = "push"
    <3>1. UNCHANGED <<slot, guard>>
      BY <2>2, <2>3
    <3>2. BudgetCoversReads'
      BY <1>1, <1>5, <2>1, <3>1, PrefetchedIsCovered
    <3>3. QED
      BY <2>3, <3>2 DEF Budgeted, Priming, Issuing
  <2>4. CASE pc' # "push"
    <3>1. ring.issueOffset < scenario.size /\ ring.inFlight < Depth
      BY <1>1, <2>2, <2>4, Sizes DEF Bounded
    <3>2. PICK t : t = ring.toIssue
      OBVIOUS
    <3>3. t \in Slot /\ ~slot[t].buffer /\ (t + Min(Probes)) % Depth = t
      BY <1>1, <3>1, <3>2, SlotBehindIsFree
    <3>4. at' = t /\ pc' = "readFile" /\ guard' = guard
          /\ slot' = [slot EXCEPT ![t] = [inFlight |-> FALSE, buffer |-> TRUE,
                                          offset |-> ring.issueOffset, length |-> Length]]
      BY <2>2, <2>4, <3>2, <3>3
    <3>5. /\ slot'[t].buffer /\ slot'[t].length = Length
          /\ \A s \in Slot : s # t => slot'[s] = slot[s]
      BY <1>1, <3>3, <3>4 DEF Bounded
    <3>6. Length \in Nat
      BY <1>1, <3>1, LengthFits
    <3>7. ReadAhead' = ReadAhead + slot'[t].length
      BY <1>1, <3>3, <3>5, <3>6, OneMoreBuffer
    <3>8. PrefetchBytes' = PrefetchBytes /\ ChunkSize' = ChunkSize
      BY <1>1 DEF PrefetchBytes, ChunkSize, Source
    <3>9. /\ guard = PrefetchBytes /\ issued = ring.issueOffset /\ issued < PrefetchBytes
          /\ ReadAhead = issued /\ (issued = ring.inFlight * ChunkSize \/ issued = scenario.size)
      BY <1>1, <2>1 DEF Prefetching, Issuing
    <3>10. Prefetching'
      BY <1>1, <2>1, <3>4, <3>7, <3>8, <3>9 DEF Prefetching
    <3>11. issued + Length <= PrefetchBytes
      BY <1>1, <1>5, <3>1, <3>9, NextReadFits
    <3>12. PrefetchBytes <= MaxSlots * SlotSize
      BY <1>1, <1>5, BudgetIsBounded
    <3>13. BudgetCoversReads'
      BY <3>4, <3>5, <3>7, <3>9, <3>11, <3>12 DEF BudgetCoversReads
    <3>14. QED
      BY <3>4, <3>10, <3>13 DEF Budgeted
  <2>5. QED
    BY <2>3, <2>4
<1>6. QED
  BY <1>2, <1>3, <1>4, <1>5

(* The read is in flight: issued_bytes has caught up with the slots.       *)
LEMMA ReadFileKeepsBudget ==
  ASSUME InOrder, Budgeted, ReadFile
  PROVE  Budgeted'
<1>1. /\ pc = "readFile" /\ UNCHANGED <<scenario, then>>
      /\ Working /\ Course /\ Bounded /\ Chosen
  BY DEF ReadFile, InOrder, Working
<1>2. CASE Source
  BY <1>1, <1>2, UnbudgetedIsBudgeted DEF Unbudgeted, Source
<1>3. CASE ~Source /\ pc' = "close"
  <2>1. outcome' = "failed"
    BY <1>1, <1>3 DEF ReadFile, Throw, Bounded
  <2>2. QED
    BY <1>3, <2>1, UnbudgetedIsBudgeted DEF Unbudgeted, Issuing, Lost
<1>4. CASE ~Source /\ pc' # "close" /\ then # "prime"
  <2>1. pc' \in {"consume", "deliver"}
    BY <1>1, <1>4 DEF ReadFile, Throw, Bounded
  <2>2. QED
    BY <1>1, <2>1, UnbudgetedIsBudgeted DEF Unbudgeted, Issuing, Lost
<1>5. CASE ~Source /\ pc' # "close" /\ then = "prime"
  <2>1. PICK n, i, l, t : n = ring.inFlight /\ i = issued /\ l = Length /\ t = at
    OBVIOUS
  <2>2. /\ t \in Slot /\ slot[t].length = l /\ ring.issueOffset < scenario.size
        /\ slot[t].length \in Nat
    BY <1>1, <2>1 DEF Chosen, Bounded
  <2>3. /\ slot' = [slot EXCEPT ![t].inFlight = TRUE]
        /\ ring' = [ring EXCEPT !.toIssue = NextSlot(t), !.issueOffset = @ + slot[t].length,
                                !.inFlight = @ + 1]
        /\ issued' = issued + slot[t].length /\ pc' = "prime" /\ guard' = guard
    BY <1>1, <1>5, <2>1 DEF ReadFile, Throw
  <2>4. /\ guard = PrefetchBytes /\ issued = ring.issueOffset /\ issued < PrefetchBytes
        /\ ReadAhead = issued + slot[t].length
        /\ issued = ring.inFlight * ChunkSize \/ issued = scenario.size
    BY <1>1, <1>5, <2>1 DEF Budgeted, Priming, Prefetching, Issuing
  <2>5. /\ i + l <= PrefetchBytes
        /\ i + l = (n + 1) * ChunkSize \/ i + l = scenario.size
    BY <1>1, <1>5, <2>1, <2>2, <2>4, NextReadFits
  <2>6. PrefetchBytes' = PrefetchBytes /\ ChunkSize' = ChunkSize
    BY <1>1 DEF PrefetchBytes, ChunkSize, Source
  <2>7. issued' = i + l /\ ring'.issueOffset = i + l /\ ring'.inFlight = n + 1
    BY <1>1, <2>1, <2>2, <2>3, <2>4 DEF Bounded
  <2>8. ReadAhead' = ReadAhead
    <3>1. PICK v, w, B : v = slot /\ w = slot' /\ B = Buffered
      OBVIOUS
    <3>2. Buffered' = B /\ B \subseteq Slot
      BY <1>1, <2>2, <2>3, <3>1 DEF Buffered, Bounded
    <3>3. \A x \in B : v[x].length \in Nat /\ w[x].length = v[x].length
      BY <1>1, <2>2, <2>3, <3>1, <3>2 DEF Bounded
    <3>4. IsFiniteSet(B)
      BY <3>2, SlotsAreFinite
    <3>5. LengthOf(B, w) = LengthOf(B, v)
      BY <3>3, <3>4, SumOfSame
    <3>6. QED
      BY <3>1, <3>2, <3>5, ReadAheadIsSum
  <2>9. ReadAhead' = i + l
    BY <2>1, <2>2, <2>4, <2>8
  <2>10. Prefetching'
    BY <1>1, <2>3, <2>4, <2>5, <2>6, <2>7, <2>9 DEF Prefetching, Issuing
  <2>11. PrefetchBytes <= MaxSlots * SlotSize
    BY <1>1, <1>5, BudgetIsBounded
  <2>12. BudgetCoversReads'
    BY <2>3, <2>4, <2>5, <2>9, <2>11 DEF BudgetCoversReads
  <2>13. QED
    BY <2>3, <2>10, <2>12 DEF Budgeted
<1>6. QED
  BY <1>2, <1>3, <1>4, <1>5

(* The packer gives the budget back before it reads; and whoever lets go   *)
(* of a reader, except to dispose of the queue, gives it back first.       *)
LEMMA PackerKeepsBudget ==
  ASSUME InOrder, Take \/ AddEntry \/ Deliver \/ Read \/ Consume \/ Call \/ Copy
  PROVE  Budgeted'
<1>1. CASE Source
  <2>1. scenario' = scenario
    BY DEF Take, AddEntry, Deliver, Read, Consume, Call, Copy
  <2>2. QED
    BY <1>1, <2>1, UnbudgetedIsBudgeted DEF Unbudgeted, Source
<1>2. CASE ~Source
  <2>1. Working /\ Course
    BY DEF Take, AddEntry, Deliver, Read, Consume, Call, Copy, InOrder, Working
  <2>2. ~Call /\ ~Copy
    BY <1>2, <2>1 DEF Call, Copy, Course
  <2>3. CASE Take \/ AddEntry
    <3>1. \/ pc' \in {"entry", "read"}
          \/ pc' = "close" /\ outcome' \in {"cancelled", "done"}
      BY <2>3 DEF Take, AddEntry, Throw
    <3>2. QED
      BY <3>1, UnbudgetedIsBudgeted DEF Unbudgeted, Issuing, Lost
  <2>4. CASE Deliver
    <3>1. pc' = "entry" \/ (pc' = "close" /\ outcome' = "failed")
      BY <2>4 DEF Deliver, Throw
    <3>2. QED
      BY <3>1, UnbudgetedIsBudgeted DEF Unbudgeted, Issuing, Lost
  <2>5. CASE Read
    <3>1. \/ pc' \in {"deliver", "consume"} \/ (pc' = "issue" /\ then' = "consume")
          \/ pc' = "close" /\ outcome' = "cancelled"
      BY <2>5 DEF Read, Throw
    <3>2. QED
      BY <3>1, UnbudgetedIsBudgeted DEF Unbudgeted, Issuing, Lost
  <2>6. CASE Consume
    <3>1. \/ pc' \in {"deliver", "issue"} /\ (pc' = "issue" => then' = "deliver")
          \/ pc' = "close" /\ outcome' \in {"cancelled", "failed"}
      BY <2>6 DEF Consume, Throw, Verdict
    <3>2. QED
      BY <3>1, UnbudgetedIsBudgeted DEF Unbudgeted, Issuing, Lost
  <2>7. QED
    BY <2>2, <2>3, <2>4, <2>5, <2>6
<1>3. QED
  BY <1>1, <1>2

(* A file that waits, or is disposed of, with the budget it had.           *)
LEMMA WaitingKeepsBudget ==
  ASSUME Bounded, Budgeted, ~Source, UNCHANGED <<scenario, slot, guard>>,
         pc \in {"opened", "push", "parked", "queued"},
         pc' \in {"parked", "queued", "close"}
  PROVE  Budgeted'
<1>1. guard <= MaxSlots * SlotSize /\ ReadAhead <= guard
  <2>1. CASE pc \in {"push", "parked", "queued"}
    BY <2>1 DEF Budgeted, BudgetCoversReads, Waiting
  <2>2. CASE pc = "opened"
    <3>1. guard = 0 /\ ReadAhead = 0
      BY <2>2 DEF Budgeted
    <3>2. 0 <= MaxSlots * SlotSize
      BY BudgetIsBounded
    <3>3. QED
      BY <3>1, <3>2
  <2>3. QED
    BY <2>1, <2>2
<1>2. BudgetCoversReads'
  BY <1>1, SameSlots DEF BudgetCoversReads
<1>3. QED
  BY <1>2 DEF Budgeted, Priming, Issuing

(* On the way through the queue it keeps its budget, unless it is destroyed*)
(* when the queue has ended.                                               *)
LEMMA InQueueKeepsBudget ==
  ASSUME InOrder, Budgeted, InQueue \/ Drop
  PROVE  Budgeted'
<1>1. Bounded /\ UNCHANGED <<scenario, slot, queue>>
  BY DEF InOrder, InQueue, Drop
<1>2. CASE Source
  BY <1>1, <1>2, UnbudgetedIsBudgeted DEF Unbudgeted, Source
<1>3. CASE ~Source /\ pc' = "close" /\ outcome' # "disposed"
  <2>1. outcome' = "stopped" \/ (outcome' = "destroyed" /\ queue # "open")
    BY <1>3 DEF InQueue, Push, Promote, Leave, Drop, Dispose, Throw
  <2>2. ~Lost'
    BY <1>1, <2>1 DEF Lost
  <2>3. QED
    BY <1>3, <2>2, UnbudgetedIsBudgeted DEF Unbudgeted, Issuing
<1>4. CASE ~Source /\ ~(pc' = "close" /\ outcome' # "disposed")
  <2>1. /\ pc \in {"opened", "push", "parked", "queued"} /\ pc' \in {"parked", "queued", "close"}
        /\ guard' = guard
    BY <1>4 DEF InQueue, Push, Promote, Leave, Drop, Dispose, Throw
  <2>2. QED
    BY <1>1, <1>4, <2>1, WaitingKeepsBudget
<1>5. QED
  BY <1>2, <1>3, <1>4

(* The end of the queue disposes of the file with its budget, or leaves it *)
(* where it is.                                                            *)
LEMMA EndQueueKeepsBudget ==
  ASSUME InOrder, Budgeted, EndQueue
  PROVE  Budgeted'
<1>1. Bounded /\ ~Source /\ UNCHANGED <<scenario, slot, ring, then, issued, guard>>
  BY DEF InOrder, EndQueue, CloseQueue, AbandonQueue, Dispose
<1>2. CASE UNCHANGED <<pc, at, outcome>>
  <2>1. queue' # "open"
    BY DEF EndQueue, CloseQueue, AbandonQueue
  <2>2. Waiting' => Waiting
    BY <1>1, <1>2, <2>1 DEF Waiting, Lost, Source
  <2>3. /\ Source' = Source /\ Priming' = Priming /\ Issuing' = Issuing /\ ReadAhead' = ReadAhead
        /\ PrefetchBytes' = PrefetchBytes /\ ChunkSize' = ChunkSize
    BY <1>1, <1>2, SameSlots DEF Source, Priming, Issuing, PrefetchBytes, ChunkSize
  <2>4. Prefetching' = Prefetching /\ (BudgetCoversReads => BudgetCoversReads')
    BY <1>1, <1>2, <2>2, <2>3 DEF Prefetching, BudgetCoversReads
  <2>5. QED
    BY <1>1, <1>2, <2>3, <2>4 DEF Budgeted
<1>3. CASE ~UNCHANGED <<pc, at, outcome>>
  <2>1. pc \in {"parked", "queued"} /\ pc' = "close"
    BY <1>3 DEF EndQueue, CloseQueue, AbandonQueue, Dispose
  <2>2. QED
    BY <1>1, <2>1, WaitingKeepsBudget
<1>4. QED
  BY <1>2, <1>3

(* close() frees slots, and the budget is held until it has freed them all.*)
LEMMA CloseKeepsBudget ==
  ASSUME InOrder, IInv, Budgeted, CloseSlot \/ CloseWait \/ CloseHandle
  PROVE  Budgeted'
<1>1. Bounded /\ UNCHANGED <<scenario, outcome, queue>>
  BY DEF InOrder, CloseSlot, CloseWait, CloseHandle
<1>2. CASE Source \/ ~Lost \/ CloseHandle
  <2>1. pc' \in {"close", "closeWait", "closed"} /\ (CloseHandle => pc' = "closed")
    BY DEF CloseSlot, CloseWait, CloseHandle
  <2>2. QED
    BY <1>1, <1>2, <2>1, UnbudgetedIsBudgeted DEF Unbudgeted, Source, Issuing, Lost
<1>3. CASE ~Source /\ Lost /\ ~CloseHandle
  <2>1. /\ pc \in {"close", "closeWait"} /\ pc' \in {"close", "closeWait"} /\ guard' = guard
        /\ at \in Slot /\ (slot' = slot \/ slot' = [slot EXCEPT ![at] = Free])
    BY <1>3 DEF CloseSlot, CloseWait, user, IInv, ClosedSoFar
  <2>2. guard <= MaxSlots * SlotSize /\ ReadAhead <= guard
    BY <1>3, <2>1 DEF Budgeted, BudgetCoversReads, Waiting
  <2>3. ReadAhead' <= guard
    <3>1. CASE slot' = slot
      BY <2>2, <3>1, SameSlots
    <3>2. CASE slot' = [slot EXCEPT ![at] = Free]
      <4>1. PICK t : t = at
        OBVIOUS
      <4>2. t \in Slot /\ slot' = [slot EXCEPT ![t] = Free]
        BY <2>1, <3>2, <4>1
      <4>3. ReadAhead' <= ReadAhead /\ ReadAhead \in Nat /\ ReadAhead' \in Nat
        BY <1>1, <4>2, OneFreed
      <4>4. guard \in Nat
        BY <1>1 DEF Bounded
      <4>5. QED
        BY <2>2, <4>3, <4>4
    <3>3. QED
      BY <2>1, <3>1, <3>2
  <2>4. BudgetCoversReads'
    BY <2>1, <2>2, <2>3 DEF BudgetCoversReads
  <2>5. QED
    BY <2>1, <2>4 DEF Budgeted, Priming, Issuing
<1>4. QED
  BY <1>2, <1>3

(* Reads that end and a cancellation leave the slots as they are.          *)
LEMMA SystemKeepsBudget ==
  ASSUME Budgeted, UNCHANGED <<scenario, slot, ring, pc, then, issued, at, user, queue, outcome>>
  PROVE  Budgeted'
<1>1. ReadAhead' = ReadAhead
  BY SameSlots
<1>2. /\ Source' = Source /\ Priming' = Priming /\ Issuing' = Issuing /\ Waiting' = Waiting
      /\ PrefetchBytes' = PrefetchBytes /\ ChunkSize' = ChunkSize /\ guard' = guard
  BY DEF Source, Priming, Issuing, Waiting, Lost, PrefetchBytes, ChunkSize, user
<1>3. Prefetching' = Prefetching /\ BudgetCoversReads' = BudgetCoversReads
  BY <1>1, <1>2 DEF Prefetching, BudgetCoversReads
<1>4. QED
  BY <1>1, <1>2, <1>3 DEF Budgeted

(* Every step.                                                             *)
LEMMA NextKeepsBudget == InOrder /\ IInv /\ Budgeted /\ [Next]_vars => Budgeted'
<1> SUFFICES ASSUME InOrder, IInv, Budgeted, [Next]_vars PROVE Budgeted'
  OBVIOUS
<1>1. CASE Prefetch
  BY <1>1, PrefetchKeepsBudget
<1>2. CASE Prime
  BY <1>2, PrimeKeepsBudget
<1>3. CASE Issue
  BY <1>3, IssueKeepsBudget
<1>4. CASE ReadFile
  BY <1>4, ReadFileKeepsBudget
<1>5. CASE Take \/ AddEntry \/ Deliver \/ Read \/ Consume \/ Call \/ Copy
  BY <1>5, PackerKeepsBudget
<1>6. CASE InQueue \/ Drop
  BY <1>6, InQueueKeepsBudget
<1>7. CASE CloseSlot \/ CloseWait \/ CloseHandle
  BY <1>7, CloseKeepsBudget
<1>8. CASE Complete \/ Cancel \/ CancelReader \/ UNCHANGED vars
  BY <1>8, SystemKeepsBudget DEF Complete, Cancel, CancelReader, vars
<1>9. CASE EndQueue
  BY <1>9, EndQueueKeepsBudget
<1>10. QED
  BY <1>1, <1>2, <1>3, <1>4, <1>5, <1>6, <1>7, <1>8, <1>9 DEF Next, UserStep, Finished

(* While a file waits for the packer, and while it is lost with a queue    *)
(* that has not ended or is disposed of with one that has, what is read    *)
(* ahead for it is within the budget it holds, which is no more than one   *)
(* file may take: however the sizes of the file, of a slot and of the      *)
(* budget compare.                                                         *)
THEOREM BudgetIsEnough == Spec => []BudgetCoversReads
<1>1. Init => Budgeted
  <2> SUFFICES ASSUME Init, ~Source PROVE Budgeted
    BY DEF Budgeted
  <2>1. Buffered = {}
    BY DEF Init, Buffered, Free
  <2>2. ReadAhead = 0
    BY <2>1, ReadAheadIsSum, SumOfNone
  <2>3. QED
    BY <2>2 DEF Init, Budgeted, Priming, Issuing, BudgetCoversReads, Waiting
<1>2. InOrder /\ Budgeted => BudgetCoversReads
  BY DEF Budgeted, BudgetCoversReads, Waiting
<1>3. Spec => []IInv
  BY InitEstablishesInvariant, NextKeepsInvariant, PTL DEF Spec
<1>4. QED
  BY <1>1, <1>2, <1>3, AlwaysInOrder, NextKeepsBudget, PTL DEF Spec
=============================================================================
