------------------------ MODULE FileComparisonProofs ------------------------
(***************************************************************************)
(* What FileComparison promises, for every number of entries, every limit  *)
(* of a batch and every capacity. The inductive invariant follows an entry *)
(* on its way: Chain links found, traversal, the producer's batch, pending *)
(* and the main thread's batch into one sequence of entries without a gap; *)
(* NumbersFit and NoneMissing say the same of the numbers behind the main  *)
(* thread; OneQuestion and AnswerFits of the question and its answer.      *)
(***************************************************************************)
EXTENDS FileComparison, FiniteSetTheorems, SequenceTheorems, TLAPS

Traversed == Items("traversal")
Pending == Items("pending")
Filtered == Items("filtered")

Failed == {"own", "closed", "cancelled"}

(* The wanted entries up to n: the number of the one that comes next.      *)
UpTo(n) == Cardinality({e \in Wanted : e <= n})

Starts == [Nat -> 0 .. Entries]

(***************************************************************************)
(* The entries on their way to the main thread. The main thread is behind  *)
(* entry lo, the producer has taken the entries up to top; from has the    *)
(* entry in front of each pending batch, and in front of the one that is   *)
(* collected.                                                              *)
(***************************************************************************)
Consecutive(s, n) == \A i \in DOMAIN s : s[i] = n + i

CurrentFollows(lo) ==
  /\ Consecutive(current, lo) /\ lo + Len(current) <= Entries
  /\ sequence = UpTo(lo)

PendingFollows(from) ==
  \A k \in DOMAIN Pending : /\ Consecutive(Pending[k], from[k])
                            /\ from[k + 1] = from[k] + Len(Pending[k])

BatchFollows(top, from) ==
  /\ Consecutive(batch, from[Len(Pending) + 1])
  /\ from[Len(Pending) + 1] + Len(batch) = top

TraversedFollows(top) ==
  producer \notin Failed /\ queue["traversal"].status # "Abandoned" =>
    Consecutive(Traversed, top) /\ top + Len(Traversed) = found

AbandonedIsEmpty == \A q \in Queues : queue[q].status = "Abandoned" => Items(q) = <<>>

MainIsInFront(lo, from) ==
  error = "none" /\ queue["pending"].status # "Abandoned" => from[1] = lo + Len(current)

(* What the end of the producer says, and what is left of it further on.   *)
ProducerHasAll(top) ==
  /\ producer \in {"pushLast", "close", "ok"} => top = found /\ ~Open("traversal")
  /\ producer \in {"close", "ok"} => batch = <<>>
  /\ queue["pending"].status = "Closed" => ProducerDone

MainHasAll(lo, top) ==
  /\ main \in {"pop", "finish"} => current = <<>>
  /\ main = "finish" \/ (main = "join" /\ error = "none") =>
       ProducerDone /\ lo + Len(batch) = top
  /\ main = "future" => lo = found /\ ~Open("traversal")
  /\ main = "rest" => sequence = UpTo(Entries)

Chain ==
  \E lo, top \in 0 .. Entries, from \in Starts :
    /\ CurrentFollows(lo)
    /\ PendingFollows(from)
    /\ BatchFollows(top, from)
    /\ TraversedFollows(top)
    /\ MainIsInFront(lo, from)
    /\ ProducerHasAll(top)
    /\ MainHasAll(lo, top)

(***************************************************************************)
(* The queues hold what their pushers put there.                           *)
(***************************************************************************)
Statuses == {"Open", "Closed", "Abandoned"}
NumberedEntry == [entry : Entry, sequence : 0 .. Entries]

Contents == Seq(Entry) \cup Seq(Seq(Entry)) \cup Seq(NumberedEntry)

QueueTyped ==
  /\ queue \in [Queues -> [items : Contents, status : Statuses]]
  /\ Traversed \in Seq(Entry) /\ Pending \in Seq(Seq(Entry)) /\ Filtered \in Seq(NumberedEntry)

BatchTyped(b) == b \in Seq(Entry) /\ Len(b) <= EntryLimit /\ Cardinality(Infos(b)) <= InfoLimit

BatchesTyped ==
  /\ BatchTyped(batch) /\ BatchTyped(current)
  /\ \A i \in DOMAIN Pending : BatchTyped(Pending[i])

(***************************************************************************)
(* The threads.                                                            *)
(***************************************************************************)
BatchGrows ==
  /\ producer = "pop" => ~BatchFull(batch)
  /\ found \in 0 .. Entries
  /\ traverser = "ok" => found = Entries

(* What the main thread may do to the queues on its way out.               *)
Cleanup == {c \in [queue : Queues, how : {"close", "abandon"}] :
              c.how = "close" => c.queue = "filtered"}

Normal == {"pop", "ask", "await", "forward", "finish", "future", "rest"}

MainIsSound ==
  /\ main \in Normal => error = "none"
  /\ main = "unwind" => error # "none"
  /\ main = "handling" => /\ error # "none"
                          /\ todo # <<>>
                          /\ todo \in Seq(Cleanup)

(***************************************************************************)
(* The question and its answer.                                            *)
(***************************************************************************)
Messages == [type : {"infos", "infoEnd", "transportEnd"}, infos : SUBSET Entry]
Questions == {i \in DOMAIN requests : requests[i].type = "infos"}

OneQuestion ==
  /\ requests \in Seq(Messages) /\ answers \in Seq(SUBSET Entry)
  /\ \/ answers = <<>> /\ Questions \subseteq {1}
     \/ Len(answers) = 1 /\ Questions = {}
  /\ main \in {"pop", "ask", "forward", "finish"} => requests = <<>> /\ answers = <<>>
  /\ main = "await" => Questions = DOMAIN requests

AnswerFits ==
  /\ main = "await" =>
       /\ \A i \in Questions : requests[i].infos = Infos(current)
       /\ \A i \in DOMAIN answers : answers[i] = Answer(Infos(current))
  /\ main = "forward" => \A i \in DOMAIN current : Chosen(current[i]) <=> current[i] \in Wanted

(***************************************************************************)
(* The entries behind the main thread.                                     *)
(***************************************************************************)
OnTheWay == arrived \cup ToSet(Filtered)

Numbered(e, n) == e \in Wanted /\ n = UpTo(e - 1)

NumbersFit ==
  /\ \A f \in OnTheWay : Numbered(f.entry, f.sequence) /\ f.sequence < sequence
  /\ \A i \in DOMAIN packed : Numbered(packed[i], i - 1)
  /\ Len(packed) <= sequence

NoneMissing ==
  queue["filtered"].status # "Abandoned" =>
    \A n \in Len(packed) .. sequence - 1 : \E f \in OnTheWay : f.sequence = n

RestIsSound ==
  /\ rest = "guard" => state # "none"
  /\ rest = "done" /\ state = "none" => Len(packed) = sequence /\ ~Open("filtered")

EndIsTrue ==
  \/ \E i \in DOMAIN requests : requests[i].type = "transportEnd"
  \/ receiver = "completed" \/ report = "completed"
  => main = "over" /\ rest = "done" /\ Len(packed) = UpTo(Entries)

IInv ==
  /\ TypeOK
  /\ QueueTyped
  /\ Chain
  /\ AbandonedIsEmpty
  /\ BatchGrows
  /\ MainIsSound
  /\ OneQuestion
  /\ AnswerFits
  /\ NumbersFit
  /\ NoneMissing
  /\ RestIsSound
  /\ EndIsTrue

(***************************************************************************)
(* The numbers of the wanted entries.                                      *)
(***************************************************************************)
LEMMA UpToType ==
  ASSUME NEW n \in Int
  PROVE  /\ IsFiniteSet({e \in Wanted : e <= n})
         /\ UpTo(n) \in Nat /\ UpTo(n) <= UpTo(Entries) /\ UpTo(Entries) <= Entries
<1>1. IsFiniteSet(Entry) /\ Cardinality(Entry) = Entries
  <2>1. Entries \in Nat  BY ComparisonAssumption
  <2>. QED  BY <2>1, FS_Interval DEF Entry
<1>2. {e \in Wanted : e <= n} \subseteq {e \in Wanted : e <= Entries}
  BY ComparisonAssumption DEF Wanted, Entry
<1>3. {e \in Wanted : e <= Entries} \subseteq Entry
  BY DEF Wanted
<1>4. IsFiniteSet({e \in Wanted : e <= Entries})
  BY <1>1, <1>3, FS_Subset
<1>. QED  BY <1>1, <1>2, <1>3, <1>4, FS_Subset, FS_CardinalityType, Zenon DEF UpTo

(* Nothing is in front of the first entry.                                 *)
LEMMA UpToZero == UpTo(0) = 0
<1>1. {e \in Wanted : e <= 0} = {}
  BY ComparisonAssumption DEF Wanted, Entry
<1>. QED  BY <1>1, FS_EmptySet DEF UpTo

(* A wanted entry, and no other, adds one to the numbers.                  *)
LEMMA UpToStep ==
  ASSUME NEW n \in Nat
  PROVE  /\ n + 1 \in Wanted => UpTo(n + 1) = UpTo(n) + 1
         /\ n + 1 \notin Wanted => UpTo(n + 1) = UpTo(n)
<1>1. ASSUME n + 1 \in Wanted PROVE UpTo(n + 1) = UpTo(n) + 1
  <2>1. {e \in Wanted : e <= n + 1} = {e \in Wanted : e <= n} \cup {n + 1}
    BY <1>1, ComparisonAssumption DEF Wanted, Entry
  <2>2. n + 1 \notin {e \in Wanted : e <= n}
    OBVIOUS
  <2>3. IsFiniteSet({e \in Wanted : e <= n}) /\ n \in Int
    BY UpToType
  <2>. HIDE DEF Wanted
  <2>4. Cardinality({e \in Wanted : e <= n} \cup {n + 1}) = Cardinality({e \in Wanted : e <= n}) + 1
    BY <2>2, <2>3, FS_AddElement
  <2>. QED  BY <2>1, <2>4 DEF UpTo
<1>2. ASSUME n + 1 \notin Wanted PROVE UpTo(n + 1) = UpTo(n)
  <2>1. {e \in Wanted : e <= n + 1} = {e \in Wanted : e <= n}
    BY <1>2, ComparisonAssumption DEF Wanted, Entry
  <2>. QED  BY <2>1 DEF UpTo
<1>. QED  BY <1>1, <1>2

(* The number of a wanted entry is less than that of any later one.        *)
LEMMA NumbersGrow ==
  ASSUME NEW e \in Wanted, NEW n \in Int, e <= n
  PROVE  UpTo(e - 1) < UpTo(n)
<1>1. e \in Nat /\ e >= 1
  BY ComparisonAssumption DEF Wanted, Entry
<1>2. UpTo(e) = UpTo(e - 1) + 1
  <2>1. e - 1 \in Nat /\ (e - 1) + 1 = e  BY <1>1
  <2>. QED  BY <2>1, UpToStep
<1>3. {d \in Wanted : d <= e} \subseteq {d \in Wanted : d <= n}
  BY <1>1, ComparisonAssumption DEF Wanted, Entry
<1>4. UpTo(e) <= UpTo(n)
  BY <1>1, <1>3, UpToType, FS_Subset DEF UpTo
<1>5. UpTo(e - 1) \in Nat /\ UpTo(e) \in Nat /\ UpTo(n) \in Nat
  <2>1. e - 1 \in Int /\ e \in Int  BY <1>1
  <2>. QED  BY <2>1, UpToType
<1>. QED  BY <1>2, <1>4, <1>5

(* What is numbered one after the other is sent in order, with none passed *)
(* over.                                                                   *)
LEMMA NumbersTell ==
  ASSUME TypeOK, NumbersFit, EndIsTrue
  PROVE  OnlyDifferencesAreSent
<1>. USE ComparisonAssumption
<1>1. packed \in Seq(Entry)
  BY DEF TypeOK
<1>2. \A i \in DOMAIN packed : packed[i] \in Wanted /\ UpTo(packed[i] - 1) = i - 1
  BY DEF NumbersFit, Numbered
<1>3. ASSUME NEW i \in DOMAIN packed, NEW e \in Wanted, UpTo(e - 1) = i - 1
      PROVE  packed[i] = e
  <2>1. packed[i] \in Int /\ e \in Int /\ e - 1 \in Int  BY <1>1 DEF Wanted, Entry
  <2>2. UpTo(packed[i] - 1) = UpTo(e - 1) /\ UpTo(e - 1) \in Nat
    BY <1>2, <1>3, <2>1, UpToType
  <2>3. ~(packed[i] < e)
    <3>1. SUFFICES ASSUME packed[i] < e PROVE FALSE  OBVIOUS
    <3>2. packed[i] <= e - 1 /\ e - 1 \in Int  BY <2>1, <3>1
    <3>. QED  BY <1>2, <2>2, <3>2, NumbersGrow
  <2>4. ~(e < packed[i])
    <3>1. SUFFICES ASSUME e < packed[i] PROVE FALSE  OBVIOUS
    <3>2. e <= packed[i] - 1 /\ packed[i] - 1 \in Int  BY <2>1, <3>1
    <3>. QED  BY <2>2, <3>2, NumbersGrow
  <2>. QED  BY <2>1, <2>3, <2>4
<1>4. ASSUME NEW i \in DOMAIN packed
      PROVE  {packed[j] : j \in 1 .. i - 1} = {e \in Wanted : e < packed[i]}
  <2>0. i \in 1 .. Len(packed)  BY <1>1
  <2>1. ASSUME NEW j \in 1 .. i - 1
        PROVE  packed[j] \in Wanted /\ packed[j] < packed[i]
    <3>1. j \in DOMAIN packed  BY <1>1, <2>0
    <3>2. packed[i] \in Int /\ packed[j] \in Int  BY <1>1, <3>1 DEF Entry
    <3>3. ~(packed[i] <= packed[j])
      <4>1. SUFFICES ASSUME packed[i] <= packed[j] PROVE FALSE  OBVIOUS
      <4>2. CASE packed[i] = packed[j]
        BY <1>2, <2>0, <3>1, <4>2
      <4>3. CASE packed[i] # packed[j]
        <5>1. packed[i] <= packed[j] - 1 /\ packed[j] - 1 \in Int
          BY <3>2, <4>1, <4>3
        <5>2. UpTo(packed[i] - 1) < UpTo(packed[j] - 1)
          BY <1>2, <5>1, NumbersGrow
        <5>. QED  BY <1>2, <2>0, <3>1, <5>2
      <4>. QED  BY <4>2, <4>3
    <3>. QED  BY <1>2, <3>1, <3>2, <3>3
  <2>2. ASSUME NEW e \in Wanted, e < packed[i]
        PROVE  \E j \in 1 .. i - 1 : packed[j] = e
    <3>1. e \in Int /\ e - 1 \in Int /\ packed[i] \in Int  BY <1>1 DEF Wanted, Entry
    <3>2. e <= packed[i] - 1 /\ packed[i] - 1 \in Int  BY <2>2, <3>1
    <3>3. UpTo(e - 1) < i - 1 /\ UpTo(e - 1) \in Nat
      <4>1. UpTo(e - 1) < UpTo(packed[i] - 1)  BY <3>2, NumbersGrow
      <4>2. UpTo(e - 1) \in Nat  BY <3>1, UpToType
      <4>. QED  BY <1>2, <4>1, <4>2
    <3>4. PICK j \in Nat : j = UpTo(e - 1) + 1
      BY <3>3
    <3>5. j \in 1 .. i - 1 /\ j \in DOMAIN packed /\ UpTo(e - 1) = j - 1
      BY <1>1, <2>0, <3>3, <3>4
    <3>. QED  BY <1>3, <3>5
  <2>. QED  BY <2>1, <2>2
<1>5. ASSUME report = "completed" \/ receiver = "completed"
      PROVE  ToSet(packed) = Wanted
  <2>1. Len(packed) = UpTo(Entries)
    BY <1>5 DEF EndIsTrue
  <2>2. ASSUME NEW e \in Wanted PROVE e \in ToSet(packed)
    <3>1. e - 1 \in Int /\ e <= Entries /\ Entries \in Int  BY DEF Wanted, Entry
    <3>2. UpTo(e - 1) < UpTo(Entries) /\ UpTo(e - 1) \in Nat
      <4>1. UpTo(e - 1) < UpTo(Entries)  BY <3>1, NumbersGrow
      <4>2. UpTo(e - 1) \in Nat  BY <3>1, UpToType
      <4>. QED  BY <4>1, <4>2
    <3>3. PICK i \in Nat : i = UpTo(e - 1) + 1
      BY <3>2
    <3>4. i \in DOMAIN packed /\ UpTo(e - 1) = i - 1
      BY <1>1, <2>1, <3>2, <3>3
    <3>. QED  BY <1>3, <3>4 DEF ToSet
  <2>. QED  BY <1>2, <2>2 DEF ToSet
<1>. QED  BY <1>2, <1>4, <1>5 DEF OnlyDifferencesAreSent

(***************************************************************************)
(* What the operations do to the queues.                                   *)
(***************************************************************************)
LEMMA PushedIs ==
  ASSUME QueueTyped, NEW q \in Queues, NEW item
  PROVE  /\ Pushed(q, item)[q].items = Append(Items(q), item)
         /\ Pushed(q, item)[q].status = queue[q].status
         /\ \A r \in Queues \ {q} : Pushed(q, item)[r] = queue[r]
BY DEF QueueTyped, Pushed, Items

(* What a pop leaves.                                                      *)
LEMMA PoppedIs ==
  ASSUME QueueTyped, NEW q \in Queues
  PROVE  /\ Popped(q)[q].items = Tail(Items(q))
         /\ Popped(q)[q].status = queue[q].status
         /\ \A r \in Queues \ {q} : Popped(q)[r] = queue[r]
BY DEF QueueTyped, Popped, Items

(* What closing a queue changes: its status, if it was open.               *)
LEMMA ClosedIs ==
  ASSUME QueueTyped, NEW q \in Queues
  PROVE  /\ Closed(q)[q].items = Items(q)
         /\ Closed(q)[q].status = (IF Open(q) THEN "Closed" ELSE queue[q].status)
         /\ \A r \in Queues \ {q} : Closed(q)[r] = queue[r]
BY DEF QueueTyped, Closed, Items, Open

(* What abandoning a queue leaves: nothing.                                *)
LEMMA AbandonedIs ==
  ASSUME QueueTyped, NEW q \in Queues
  PROVE  /\ Abandoned(q)[q].items = <<>>
         /\ Abandoned(q)[q].status = "Abandoned"
         /\ \A r \in Queues \ {q} : Abandoned(q)[r] = queue[r]
BY DEF QueueTyped, Abandoned, Items

(* The producer stumbles: what it popped is lost, and pending is closed.   *)
LEMMA PoppedAndClosedIs ==
  ASSUME QueueTyped, NEW next, 
         next = [Popped("traversal") EXCEPT !["pending"] = Closed("pending")["pending"]]
  PROVE  /\ next["traversal"].items = Tail(Traversed)
         /\ next["traversal"].status = queue["traversal"].status
         /\ next["pending"].items = Pending
         /\ next["pending"].status = (IF Open("pending") THEN "Closed" ELSE queue["pending"].status)
         /\ next["filtered"] = queue["filtered"]
BY DEF QueueTyped, Closed, Popped, Items, Open, Queues, Traversed, Pending


(* A queue with other items or another status is a queue still.            *)
LEMMA RecordsStay ==
  ASSUME NEW C, NEW S, NEW f \in [Queues -> [items : C, status : S]], NEW q \in Queues
  PROVE  /\ \A x \in C : [f EXCEPT ![q].items = x] \in [Queues -> [items : C, status : S]]
         /\ \A y \in S : [f EXCEPT ![q].status = y] \in [Queues -> [items : C, status : S]]
         /\ \A x \in C, y \in S :
              [f EXCEPT ![q] = [items |-> x, status |-> y]] \in [Queues -> [items : C, status : S]]
OBVIOUS

(* What one of the queues holds after it has changed.                      *)
LEMMA QueuesKeepTypes ==
  ASSUME QueueTyped
  PROVE  /\ \A e \in Entry : queue' = Pushed("traversal", e) => QueueTyped'
         /\ \A b \in Seq(Entry) : queue' = Pushed("pending", b) => QueueTyped'
         /\ \A f \in NumberedEntry : queue' = Pushed("filtered", f) => QueueTyped'
         /\ \A q \in Queues : queue' = Popped(q) /\ Items(q) # <<>> => QueueTyped'
         /\ \A q \in Queues : queue' = Closed(q) => QueueTyped'
         /\ \A q \in Queues : queue' = Abandoned(q) => QueueTyped'
         /\ Traversed # <<>> /\ queue' = [Popped("traversal") EXCEPT !["pending"] = Closed("pending")["pending"]]
              => QueueTyped'
         /\ queue' = queue => QueueTyped'
<1>0. /\ queue \in [Queues -> [items : Contents, status : Statuses]]
      /\ Traversed \in Seq(Entry) /\ Pending \in Seq(Seq(Entry)) /\ Filtered \in Seq(NumberedEntry)
      /\ "traversal" \in Queues /\ "pending" \in Queues /\ "filtered" \in Queues
      /\ "traversal" # "pending" /\ "traversal" # "filtered" /\ "filtered" # "pending"
      /\ "Closed" \in Statuses /\ "Abandoned" \in Statuses
  BY DEF QueueTyped, Queues, Statuses
<1>1. /\ \A s \in Seq(Entry) : s \in Contents
      /\ \A s \in Seq(Seq(Entry)) : s \in Contents
      /\ \A s \in Seq(NumberedEntry) : s \in Contents
      /\ <<>> \in Contents
  <2>. HIDE DEF NumberedEntry, Entry
  <2>. QED  BY DEF Contents
<1>2. \A q \in Queues : q = "traversal" \/ q = "pending" \/ q = "filtered"
  BY DEF Queues
<1>. HIDE DEF Contents, Queues, Statuses, NumberedEntry, Entry
<1>3. ASSUME queue' \in [Queues -> [items : Contents, status : Statuses]],
             queue'["traversal"].items \in Seq(Entry), queue'["pending"].items \in Seq(Seq(Entry)),
             queue'["filtered"].items \in Seq(NumberedEntry)
      PROVE  QueueTyped'
  <2>1. Contents' = Contents /\ Statuses' = Statuses
    BY DEF Contents, Statuses, NumberedEntry, Entry
  <2>2. NumberedEntry' = NumberedEntry /\ Entry' = Entry /\ Queues' = Queues
    BY DEF NumberedEntry, Entry, Queues
  <2>. QED  BY <1>3, <2>1, <2>2 DEF QueueTyped, Traversed, Pending, Filtered, Items
<1>4. ASSUME NEW e \in Entry, queue' = Pushed("traversal", e) PROVE QueueTyped'
  <2>1. Append(Traversed, e) \in Seq(Entry)  BY <1>0
  <2>2. queue' \in [Queues -> [items : Contents, status : Statuses]]
    BY <1>0, <1>1, <1>4, <2>1, RecordsStay DEF Pushed, Traversed, Items
  <2>3. /\ queue'["traversal"].items = Append(Items("traversal"), e)
        /\ queue'["pending"] = queue["pending"] /\ queue'["filtered"] = queue["filtered"]
    <3>1. \A r \in Queues \ {"traversal"} : Pushed("traversal", e)[r] = queue[r]
      BY <1>0, PushedIs, Zenon
    <3>2. Pushed("traversal", e)["traversal"].items = Append(Items("traversal"), e)
      BY <1>0, PushedIs, Zenon
    <3>. QED  BY <1>0, <1>4, <3>1, <3>2
  <2>. QED  BY <1>0, <1>3, <2>1, <2>2, <2>3 DEF Traversed, Pending, Filtered, Items
<1>5. ASSUME NEW b \in Seq(Entry), queue' = Pushed("pending", b) PROVE QueueTyped'
  <2>1. Append(Pending, b) \in Seq(Seq(Entry))  BY <1>0
  <2>2. queue' \in [Queues -> [items : Contents, status : Statuses]]
    BY <1>0, <1>1, <1>5, <2>1, RecordsStay DEF Pushed, Pending, Items
  <2>3. /\ queue'["pending"].items = Append(Items("pending"), b)
        /\ queue'["traversal"] = queue["traversal"] /\ queue'["filtered"] = queue["filtered"]
    <3>1. \A r \in Queues \ {"pending"} : Pushed("pending", b)[r] = queue[r]
      BY <1>0, PushedIs, Zenon
    <3>2. Pushed("pending", b)["pending"].items = Append(Items("pending"), b)
      BY <1>0, PushedIs, Zenon
    <3>. QED  BY <1>0, <1>5, <3>1, <3>2
  <2>. QED  BY <1>0, <1>3, <2>1, <2>2, <2>3 DEF Traversed, Pending, Filtered, Items
<1>6. ASSUME NEW f \in NumberedEntry, queue' = Pushed("filtered", f) PROVE QueueTyped'
  <2>1. Append(Filtered, f) \in Seq(NumberedEntry)  BY <1>0
  <2>2. queue' \in [Queues -> [items : Contents, status : Statuses]]
    BY <1>0, <1>1, <1>6, <2>1, RecordsStay DEF Pushed, Filtered, Items
  <2>3. /\ queue'["filtered"].items = Append(Items("filtered"), f)
        /\ queue'["traversal"] = queue["traversal"] /\ queue'["pending"] = queue["pending"]
    <3>1. \A r \in Queues \ {"filtered"} : Pushed("filtered", f)[r] = queue[r]
      BY <1>0, PushedIs, Zenon
    <3>2. Pushed("filtered", f)["filtered"].items = Append(Items("filtered"), f)
      BY <1>0, PushedIs, Zenon
    <3>. QED  BY <1>0, <1>6, <3>1, <3>2
  <2>. QED  BY <1>0, <1>3, <2>1, <2>2, <2>3 DEF Traversed, Pending, Filtered, Items
<1>7. ASSUME NEW q \in Queues, queue' = Popped(q), Items(q) # <<>> PROVE QueueTyped'
  <2>1. CASE q = "traversal"
    <3>1. Tail(Traversed) \in Seq(Entry)  BY <1>0, <1>7, <2>1 DEF Traversed
    <3>2. queue' \in [Queues -> [items : Contents, status : Statuses]]
      BY <1>0, <1>1, <1>7, <2>1, <3>1, RecordsStay DEF Popped, Traversed, Items
    <3>. QED  BY <1>0, <1>3, <1>7, <2>1, <3>1, <3>2, PoppedIs DEF Traversed, Pending, Filtered, Items
  <2>2. CASE q = "pending"
    <3>1. Tail(Pending) \in Seq(Seq(Entry))  BY <1>0, <1>7, <2>2 DEF Pending
    <3>2. queue' \in [Queues -> [items : Contents, status : Statuses]]
      BY <1>0, <1>1, <1>7, <2>2, <3>1, RecordsStay DEF Popped, Pending, Items
    <3>. QED  BY <1>0, <1>3, <1>7, <2>2, <3>1, <3>2, PoppedIs DEF Traversed, Pending, Filtered, Items
  <2>3. CASE q = "filtered"
    <3>1. Tail(Filtered) \in Seq(NumberedEntry)  BY <1>0, <1>7, <2>3 DEF Filtered
    <3>2. queue' \in [Queues -> [items : Contents, status : Statuses]]
      BY <1>0, <1>1, <1>7, <2>3, <3>1, RecordsStay DEF Popped, Filtered, Items
    <3>. QED  BY <1>0, <1>3, <1>7, <2>3, <3>1, <3>2, PoppedIs DEF Traversed, Pending, Filtered, Items
  <2>. QED  BY <1>2, <2>1, <2>2, <2>3
<1>8. ASSUME NEW q \in Queues, queue' = Closed(q) PROVE QueueTyped'
  <2>1. queue' \in [Queues -> [items : Contents, status : Statuses]]
    BY <1>0, <1>8, RecordsStay DEF Closed
  <2>2. \A r \in Queues : queue'[r].items = queue[r].items
    BY <1>8, ClosedIs DEF Items
  <2>. QED  BY <1>0, <1>3, <2>1, <2>2 DEF Traversed, Pending, Filtered, Items
<1>9. ASSUME NEW q \in Queues, queue' = Abandoned(q) PROVE QueueTyped'
  <2>1. queue' \in [Queues -> [items : Contents, status : Statuses]]
    BY <1>0, <1>1, <1>9, RecordsStay DEF Abandoned
  <2>2. \A r \in Queues : queue'[r].items = queue[r].items \/ queue'[r].items = <<>>
    BY <1>9, AbandonedIs DEF Items
  <2>3. /\ queue'["traversal"].items \in {Traversed, <<>>}
        /\ queue'["pending"].items \in {Pending, <<>>}
        /\ queue'["filtered"].items \in {Filtered, <<>>}
    BY <1>0, <2>2 DEF Traversed, Pending, Filtered, Items
  <2>4. <<>> \in Seq(Entry) /\ <<>> \in Seq(Seq(Entry)) /\ <<>> \in Seq(NumberedEntry)
    OBVIOUS
  <2>. QED  BY <1>0, <1>3, <2>1, <2>3, <2>4
<1>10. ASSUME Traversed # <<>>,
              queue' = [Popped("traversal") EXCEPT !["pending"] = Closed("pending")["pending"]]
       PROVE QueueTyped'
  <2>1. Tail(Traversed) \in Seq(Entry)  BY <1>0, <1>10
  <2>2. Popped("traversal") \in [Queues -> [items : Contents, status : Statuses]]
    BY <1>0, <1>1, <2>1, RecordsStay DEF Popped, Traversed, Items
  <2>3. Closed("pending") \in [Queues -> [items : Contents, status : Statuses]]
    BY <1>0, RecordsStay DEF Closed
  <2>4. queue' \in [Queues -> [items : Contents, status : Statuses]]
    BY <1>0, <1>10, <2>2, <2>3
  <2>. QED  BY <1>0, <1>3, <1>10, <2>1, <2>4, PoppedAndClosedIs DEF Traversed, Pending, Filtered, Items
<1>11. queue' = queue => QueueTyped'
  BY <1>0, <1>3 DEF Items, Traversed, Pending, Filtered
<1>. QED  BY <1>4, <1>5, <1>6, <1>7, <1>8, <1>9, <1>10, <1>11, Zenon

(***************************************************************************)
(* Type correctness.                                                       *)
(***************************************************************************)
(* The queue the main thread closes or abandons on its way out.            *)
LEMMA HandledQueue ==
  ASSUME MainIsSound, Handle
  PROVE  /\ Head(todo).queue \in Queues
         /\ \/ queue' = Closed("filtered")
            \/ queue' = Abandoned(Head(todo).queue)
<1>1. todo # <<>> /\ todo \in Seq(Cleanup)
  BY DEF MainIsSound, Handle
<1>2. \A c \in Cleanup : c.queue \in Queues /\ (c.how = "close" => c.queue = "filtered")
  BY DEF Cleanup
<1>3. Head(todo) \in Cleanup
  BY <1>1
<1>4. Head(todo).queue \in Queues /\ (Head(todo).how = "close" => Head(todo).queue = "filtered")
  BY <1>2, <1>3
<1>. QED  BY <1>4 DEF Handle

(* Every step leaves the queues typed.                                     *)
LEMMA QueuesTyped ==
  ASSUME IInv, [Next]_vars
  PROVE  QueueTyped'
<1>1. QueueTyped /\ found \in 0 .. Entries /\ batch \in Seq(Entry) /\ current \in Seq(Entry)
      /\ sequence \in 0 .. Entries /\ Entries \in Nat
  BY ComparisonAssumption DEF IInv, TypeOK, Chain
<1>2. "traversal" \in Queues /\ "pending" \in Queues /\ "filtered" \in Queues
  BY DEF Queues
<1>3. CASE Traverse
  <2>1. CASE queue' = Closed("traversal")
    BY <1>1, <1>2, <2>1, QueuesKeepTypes
  <2>2. CASE found < Entries /\ queue' = Pushed("traversal", found + 1)
    <3>1. found + 1 \in Entry  BY <1>1, <2>2 DEF Entry
    <3>. QED  BY <1>1, <2>2, <3>1, QueuesKeepTypes
  <2>3. CASE queue' = queue
    BY <1>1, <2>3 DEF QueueTyped, Traversed, Pending, Filtered, Items
  <2>. QED  BY <1>3, <2>1, <2>2, <2>3 DEF Traverse, TraverserEnds
<1>4. CASE ProducerStep
  <2>1. CASE Traversed # <<>> /\ queue' = Popped("traversal")
    BY <1>1, <1>2, <2>1, QueuesKeepTypes DEF Traversed
  <2>2. CASE Traversed # <<>> /\ queue' = [Popped("traversal") EXCEPT !["pending"] = Closed("pending")["pending"]]
    BY <1>1, <2>2, QueuesKeepTypes, Zenon
  <2>3. CASE queue' = Pushed("pending", batch)
    BY <1>1, <2>3, QueuesKeepTypes
  <2>4. CASE queue' = Closed("pending")
    BY <1>1, <1>2, <2>4, QueuesKeepTypes
  <2>5. CASE queue' = queue
    BY <1>1, <2>5, QueuesKeepTypes
  <2>. QED  BY <1>4, <2>1, <2>2, <2>3, <2>4, <2>5
            DEF ProducerStep, ProducerPop, ProducerAtEnd, ProducerPush, ProducerClose, ProducerEnds, Traversed
<1>5. CASE MainStep
  <2>1. CASE Pending # <<>> /\ queue' = Popped("pending")
    BY <1>1, <1>2, <2>1, QueuesKeepTypes DEF Pending
  <2>2. CASE current # <<>> /\ queue' = Pushed("filtered", Renumbered(Head(current)))
    <3>1. Renumbered(Head(current)) \in NumberedEntry
      BY <1>1, <2>2 DEF Renumbered, NumberedEntry
    <3>. QED  BY <1>1, <2>2, <3>1, QueuesKeepTypes
  <2>3. CASE queue' = Closed("filtered")
    BY <1>1, <1>2, <2>3, QueuesKeepTypes
  <2>4. CASE Handle
    <3>1. Head(todo).queue \in Queues
      BY <2>4, HandledQueue DEF IInv
    <3>. QED  BY <1>1, <2>4, <3>1, QueuesKeepTypes DEF Handle
  <2>5. CASE queue' = queue
    BY <1>1, <2>5, QueuesKeepTypes
  <2>. QED  BY <1>5, <2>1, <2>2, <2>3, <2>4, <2>5
            DEF MainStep, MainPop, Ask, Await, Forward, Finish, JoinProducer, AwaitTraverser, Unwind,
                Conclude, Pending
<1>6. CASE RestStep \/ RestFailure
  <2>1. CASE Filtered # <<>> /\ queue' = Popped("filtered")
    BY <1>1, <1>2, <2>1, QueuesKeepTypes DEF Filtered
  <2>2. CASE queue' = Closed("traversal") \/ queue' = Closed("filtered")
    BY <1>1, <1>2, <2>2, QueuesKeepTypes
  <2>3. CASE queue' = queue
    BY <1>1, <2>3, QueuesKeepTypes
  <2>. QED  BY <1>6, <2>1, <2>2, <2>3
            DEF RestStep, RestFailure, RestTake, Emit, RestEnds, GuardCloses, Filtered
<1>7. CASE CancelSlot
  <2>1. CASE Slots[cancel] \in Queues
    BY <1>1, <1>7, <2>1, QueuesKeepTypes DEF CancelSlot
  <2>2. CASE Slots[cancel] \notin Queues
    BY <1>1, <1>7, <2>2, QueuesKeepTypes DEF CancelSlot
  <2>. QED  BY <2>1, <2>2
<1>8. CASE Receive \/ ReceiverFails \/ Lose \/ Cancel \/ UNCHANGED vars
  BY <1>1, <1>8, QueuesKeepTypes DEF Receive, ReceiverFails, Lose, Cancel, vars
<1>. QED  BY <1>3, <1>4, <1>5, <1>6, <1>7, <1>8 DEF Next, Finished

(* The program counters and the flags.                                     *)
CountersTyped ==
  /\ scenario \in Scenarios
  /\ traverser \in Errors \cup {"running", "ok"} /\ found \in 0 .. Entries
  /\ producer \in Errors \cup {"pop", "push", "pushLast", "close", "ok"}
  /\ main \in {"pop", "ask", "await", "forward", "finish", "handling", "join", "future",
               "unwind", "rest", "over"}
  /\ error \in Errors \cup {"none"}
  /\ receiver \in {"reading", "completed", "failed"} /\ link \in {"up", "down"}
  /\ rest \in {"running", "guard", "done"}
  /\ state \in Errors \cup {"none"}
  /\ report \in {"none", "completed", "cancelled", "failed"}
  /\ cancel \in 0 .. Len(Slots) + 1

(* Every step leaves the single values typed.                              *)
LEMMA CountersStayTyped ==
  ASSUME CountersTyped, [Next]_vars
  PROVE  CountersTyped'
<1>1. \A q : Ended(q) \in {"closed", "cancelled"}
  BY DEF Ended
<1>2. SocketError \in {"cancelled", "lost"}
  BY DEF SocketError
<1>3. \A e : Verdict(e) \in {"cancelled", "failed"}
  BY DEF Verdict
<1>4. {"own", "closed", "cancelled", "lost"} = Errors
  BY DEF Errors
<1>5. CASE Traverse
  BY <1>1, <1>4, <1>5, ComparisonAssumption
  DEF Traverse, TraverserEnds, CountersTyped, linkVars, restVars
<1>6. CASE ProducerStep
  BY <1>1, <1>4, <1>6
  DEF ProducerStep, ProducerPop, ProducerAtEnd, ProducerPush, ProducerClose, ProducerEnds,
      CountersTyped, linkVars, restVars
<1>7. CASE MainPop \/ Forward
  BY <1>1, <1>4, <1>7 DEF MainPop, Forward, Throw, CountersTyped, linkVars, restVars
<1>8. CASE Ask \/ Await \/ Finish
  BY <1>2, <1>4, <1>8 DEF Ask, Await, Finish, SendMessage, Throw, CountersTyped, linkVars, restVars
<1>9. CASE Handle \/ AwaitTraverser \/ Unwind \/ Conclude
  BY <1>3, <1>4, <1>9 DEF Handle, AwaitTraverser, Unwind, Conclude, CountersTyped, linkVars, restVars
<1>10. CASE JoinProducer
  BY <1>4, <1>10 DEF JoinProducer, ProducerDone, CountersTyped, linkVars, restVars
<1>11. CASE RestStep \/ RestFailure
  BY <1>4, <1>11
  DEF RestStep, RestFailure, RestTake, Emit, RestEnds, GuardCloses, RestFails,
      CountersTyped, senderVars, linkVars
<1>12. CASE Receive \/ ReceiverFails \/ Lose \/ Cancel \/ UNCHANGED vars
  BY <1>12
  DEF Receive, ReceiverFails, Lose, Cancel, CountersTyped, vars, senderVars, linkVars, restVars, Slots
<1>13. CASE CancelSlot
  BY <1>13 DEF CancelSlot, CountersTyped, senderVars, restVars, Slots
<1>. QED  BY <1>5, <1>6, <1>7, <1>8, <1>9, <1>10, <1>11, <1>12, <1>13 DEF Next, MainStep, Finished

(* The main thread handles an error if and only if it has one.             *)
LEMMA MainStaysSound ==
  ASSUME CountersTyped, MainIsSound, [Next]_vars
  PROVE  MainIsSound'
<1>1. \A q : Ended(q) # "none"
  BY DEF Ended
<1>2. SocketError # "none"
  BY DEF SocketError
<1>3. Handling # <<>> /\ Handling \in Seq(Cleanup)
  <2>1. /\ [queue |-> "filtered", how |-> "close"] \in Cleanup
        /\ [queue |-> "traversal", how |-> "abandon"] \in Cleanup
        /\ [queue |-> "pending", how |-> "abandon"] \in Cleanup
    BY DEF Cleanup, Queues
  <2>. QED  BY <2>1 DEF Handling
<1>4. ASSUME main' = main, error' = error, todo' = todo
      PROVE  MainIsSound'
  BY <1>4 DEF MainIsSound, Normal
<1>5. ASSUME NEW e, e # "none", Throw(e)
      PROVE  MainIsSound'
  BY <1>3, <1>5 DEF Throw, MainIsSound, Normal
<1>6. ASSUME main \in Normal, main' \in Normal \cup {"join", "over"}, error' = error, todo' = todo
      PROVE  MainIsSound'
  BY <1>6 DEF MainIsSound, Normal
<1>7. CASE MainPop
  BY <1>1, <1>5, <1>6, <1>7 DEF MainPop, Normal
<1>8. CASE Ask \/ Await \/ Finish
  <2>1. CASE Throw(SocketError)
    BY <1>2, <1>5, <2>1
  <2>. QED  BY <1>6, <1>8, <2>1 DEF Ask, Await, Finish, SendMessage, Normal
<1>9. CASE Forward
  <2>1. CASE Throw(Ended("filtered"))
    BY <1>1, <1>5, <2>1
  <2>. QED  BY <1>6, <1>9, <2>1 DEF Forward, Normal
<1>10. CASE Handle
  <2>1. todo # <<>> /\ todo \in Seq(Cleanup) /\ error # "none"
    BY <1>10 DEF Handle, MainIsSound
  <2>2. Len(todo) # 1 => Tail(todo) # <<>>
    <3>1. Len(Tail(todo)) = Len(todo) - 1 /\ Len(todo) \in Nat /\ Len(<<>>) = 0
      BY <2>1
    <3>2. Tail(todo) = <<>> => Len(Tail(todo)) = 0
      BY <3>1
    <3>. QED  BY <3>1, <3>2
  <2>3. Tail(todo) \in Seq(Cleanup)
    BY <2>1
  <2>. QED  BY <1>10, <2>1, <2>2, <2>3 DEF Handle, MainIsSound, Normal
<1>11. CASE JoinProducer
  BY <1>11 DEF JoinProducer, ProducerDone, MainIsSound, Normal
<1>12. CASE AwaitTraverser
  BY <1>12 DEF AwaitTraverser, MainIsSound, Normal, CountersTyped, Errors
<1>13. CASE Unwind \/ Conclude
  BY <1>13 DEF Unwind, Conclude, MainIsSound, Normal
<1>14. CASE Traverse \/ ProducerStep \/ RestStep \/ RestFailure \/ Receive \/ ReceiverFails \/ Lose
            \/ Cancel \/ CancelSlot \/ UNCHANGED vars
  BY <1>4, <1>14
  DEF Traverse, ProducerStep, ProducerPop, ProducerAtEnd, ProducerPush, ProducerClose, RestStep,
      RestFailure, RestTake, Emit, RestEnds, GuardCloses, Receive, ReceiverFails, Lose, Cancel,
      CancelSlot, vars, senderVars
<1>. QED  BY <1>7, <1>8, <1>9, <1>10, <1>11, <1>12, <1>13, <1>14 DEF Next, MainStep, Finished

(* One more element is at most one more to count.                          *)
LEMMA OneMore ==
  ASSUME NEW S, IsFiniteSet(S), NEW x
  PROVE  IsFiniteSet(S \cup {x}) /\ Cardinality(S \cup {x}) <= Cardinality(S) + 1
<1>1. Cardinality(S) \in Nat
  BY FS_CardinalityType
<1>2. Cardinality(S \cup {x}) = IF x \in S THEN Cardinality(S) ELSE Cardinality(S) + 1
  BY FS_AddElement
<1>3. IsFiniteSet(S \cup {x})
  BY FS_AddElement
<1>4. Cardinality(S \cup {x}) <= Cardinality(S) + 1
  BY <1>1, <1>2
<1>. QED  BY <1>3, <1>4

(* Batches stay within their limits, on their way from the producer to the *)
(* main thread.                                                            *)
LEMMA InfosOfBatch ==
  ASSUME NEW b \in Seq(Entry), NEW e \in Entry
  PROVE  /\ IsFiniteSet(Infos(b)) /\ Cardinality(Infos(b)) \in Nat
         /\ Infos(<<>>) = {}
         /\ Cardinality(Infos(Append(b, e))) <= Cardinality(Infos(b)) + 1
         /\ b # <<>> => Cardinality(Infos(Tail(b))) <= Cardinality(Infos(b))
<1>1. Infos(b) \subseteq Entry /\ IsFiniteSet(Entry)
  <2>1. IsFiniteSet(Entry)  BY ComparisonAssumption, FS_Interval DEF Entry
  <2>. QED  BY <2>1 DEF Infos, ToSet
<1>2. IsFiniteSet(Infos(b)) /\ Cardinality(Infos(b)) \in Nat
  BY <1>1, FS_Subset, FS_CardinalityType
<1>3. Infos(<<>>) = {}
  BY DEF Infos, ToSet
<1>4. Cardinality(Infos(Append(b, e))) <= Cardinality(Infos(b)) + 1
  <2>1. Infos(Append(b, e)) \subseteq Infos(b) \cup {e}
    BY DEF Infos, ToSet
  <2>2. /\ IsFiniteSet(Infos(b) \cup {e})
        /\ Cardinality(Infos(b) \cup {e}) <= Cardinality(Infos(b)) + 1
    BY <1>2, OneMore
  <2>3. Cardinality(Infos(Append(b, e))) <= Cardinality(Infos(b) \cup {e})
        /\ Cardinality(Infos(Append(b, e))) \in Nat /\ Cardinality(Infos(b) \cup {e}) \in Nat
    BY <2>1, <2>2, FS_Subset, FS_CardinalityType
  <2>. QED  BY <1>2, <2>2, <2>3
<1>5. ASSUME b # <<>> PROVE Cardinality(Infos(Tail(b))) <= Cardinality(Infos(b))
  <2>1. Infos(Tail(b)) \subseteq Infos(b)
    BY <1>5 DEF Infos, ToSet
  <2>. QED  BY <1>2, <2>1, FS_Subset
<1>. QED  BY <1>2, <1>3, <1>4, <1>5

(* The scenario never changes.                                             *)
LEMMA ScenarioFixed ==
  ASSUME [Next]_vars
  PROVE  scenario' = scenario
BY DEF Next, vars, Finished, Traverse, ProducerStep, ProducerPop, ProducerAtEnd, ProducerPush,
       ProducerClose, MainStep, MainPop, Ask, Await, Forward, Finish, Handle, JoinProducer,
       AwaitTraverser, Unwind, Conclude, RestStep, RestTake, Emit, RestEnds, RestFailure,
       GuardCloses, Receive, ReceiverFails, Lose, Cancel, CancelSlot

(* What depends on the scenario only stays as it is.                       *)
LEMMA TypedLater ==
  ASSUME scenario' = scenario, NEW b, BatchTyped(b)
  PROVE  BatchTyped(b)'
BY DEF BatchTyped, Infos, Regular

(* Whether a batch is full depends on the scenario only.                   *)
LEMMA FullLater ==
  ASSUME scenario' = scenario, NEW b
  PROVE  BatchFull(b)' <=> BatchFull(b)
BY DEF BatchFull, Infos, Regular

(* The part of TypeOK about batches.                                       *)
LEMMA BatchesAreTyped ==
  ASSUME TypeOK
  PROVE  BatchesTyped
BY DEF TypeOK, BatchesTyped, BatchTyped, Pending, ToSet

(* An empty batch is within the limits, and not full.                      *)
LEMMA EmptyBatchTyped == BatchTyped(<<>>) /\ ~BatchFull(<<>>)
<1>1. Infos(<<>>) = {} /\ Cardinality({}) = 0
  BY FS_EmptySet DEF Infos, ToSet
<1>2. Cardinality(Infos(<<>>)) = 0 /\ Len(<<>>) = 0 /\ <<>> \in Seq(Entry)
  BY <1>1
<1>3. InfoLimit \in Nat \ {0} /\ EntryLimit \in Nat \ {0}
  BY ComparisonAssumption
<1>4. BatchTyped(<<>>)
  BY <1>2, <1>3 DEF BatchTyped
<1>5. ~BatchFull(<<>>)
  BY <1>2, <1>3 DEF BatchFull
<1>. QED  BY <1>4, <1>5

(* A batch that was not full is within the limits with one entry more.     *)
LEMMA BatchGrown ==
  ASSUME BatchTyped(batch), ~BatchFull(batch), NEW e \in Entry
  PROVE  BatchTyped(Append(batch, e))
<1>1. batch \in Seq(Entry)
  BY DEF BatchTyped
<1>2. Len(Append(batch, e)) = Len(batch) + 1 /\ Append(batch, e) \in Seq(Entry)
  BY <1>1
<1>3. /\ Cardinality(Infos(batch)) \in Nat
      /\ Cardinality(Infos(Append(batch, e))) \in Nat
      /\ Cardinality(Infos(Append(batch, e))) <= Cardinality(Infos(batch)) + 1
  BY <1>1, <1>2, InfosOfBatch
<1>. QED  BY <1>1, <1>2, <1>3, ComparisonAssumption DEF BatchTyped, BatchFull

(* The batch that is collected stays within the limits.                    *)
LEMMA BatchStaysTyped ==
  ASSUME IInv, [Next]_vars
  PROVE  BatchTyped(batch)' /\ (producer = "pop" => ~BatchFull(batch))'
<1>1. scenario' = scenario
  BY ScenarioFixed
<1>2. BatchTyped(batch) /\ (producer = "pop" => ~BatchFull(batch)) /\ Traversed \in Seq(Entry)
  BY BatchesAreTyped DEF IInv, BatchesTyped, BatchGrows, QueueTyped
<1>3. ASSUME NEW b, BatchTyped(b), batch' = b, producer' = "pop" => ~BatchFull(b)
      PROVE  BatchTyped(batch)' /\ (producer = "pop" => ~BatchFull(batch))'
  BY <1>1, <1>3 DEF BatchTyped, BatchFull, Infos, Regular
<1>4. CASE batch' = batch /\ producer' # "pop"
  BY <1>2, <1>3, <1>4
<1>5. CASE batch' = batch /\ producer' = producer
  BY <1>2, <1>3, <1>5
<1>6. CASE batch' = <<>>
  BY <1>3, <1>6, EmptyBatchTyped
<1>7. CASE /\ producer = "pop" /\ Traversed # <<>>
           /\ batch' = Append(batch, Head(Traversed))
           /\ producer' = IF BatchFull(batch') THEN "push" ELSE "pop"
  <2>1. Head(Traversed) \in Entry
    BY <1>2, <1>7
  <2>2. BatchTyped(Append(batch, Head(Traversed)))
    BY <1>2, <1>7, <2>1, BatchGrown
  <2>. QED  BY <1>3, <1>7, <2>2
<1>8. CASE ProducerStep
  BY <1>4, <1>6, <1>7, <1>8
  DEF ProducerStep, ProducerPop, ProducerAtEnd, ProducerPush, ProducerClose, ProducerEnds, Ended, Traversed
<1>9. CASE ~ProducerStep
  BY <1>5, <1>9
  DEF Next, vars, Finished, Traverse, MainStep, MainPop, Ask, Await, Forward, Finish, Handle,
      JoinProducer, AwaitTraverser, Unwind, Conclude, RestStep, RestTake, Emit, RestEnds, RestFailure,
      GuardCloses, Receive, ReceiverFails, Lose, Cancel, CancelSlot, senderVars
<1>. QED  BY <1>8, <1>9

(* What happens to pending: the producer puts its batch behind it, the     *)
(* main thread takes the first, or it is emptied.                          *)
LEMMA PendingSteps ==
  ASSUME IInv, [Next]_vars
  PROVE  \/ Pending' = Pending
         \/ ProducerPush /\ Room("pending") /\ Pending' = Append(Pending, batch) /\ batch' = <<>>
         \/ MainPop /\ Pending # <<>> /\ Pending' = Tail(Pending)
         \/ Pending' = <<>> /\ queue'["pending"].status = "Abandoned" /\ (Handle \/ CancelSlot)
<1>1. QueueTyped /\ "pending" \in Queues /\ "traversal" \in Queues /\ "filtered" \in Queues
  BY DEF IInv, Queues
<1>2. CASE Traverse
  BY <1>1, <1>2, ClosedIs, PushedIs DEF Traverse, TraverserEnds, Pending, Items
<1>3. CASE ProducerPop
  BY <1>1, <1>3, PoppedIs, PoppedAndClosedIs DEF ProducerPop, Pending, Items
<1>4. CASE ProducerAtEnd \/ ProducerClose
  BY <1>1, <1>4, ClosedIs DEF ProducerAtEnd, ProducerClose, ProducerEnds, Pending, Items
<1>5. CASE ProducerPush
  BY <1>1, <1>5, ClosedIs, PushedIs DEF ProducerPush, ProducerEnds, Pending, Items
<1>6. CASE MainPop
  BY <1>1, <1>6, PoppedIs DEF MainPop, Pending, Items
<1>7. CASE Forward
  BY <1>1, <1>7, PushedIs DEF Forward, Pending, Items
<1>8. CASE Finish
  BY <1>1, <1>8, ClosedIs DEF Finish, Pending, Items
<1>9. CASE Handle
  <2>1. CASE queue' = Closed("filtered")
    BY <1>1, <1>9, <2>1, ClosedIs DEF Pending, Items
  <2>2. CASE queue' = Abandoned(Head(todo).queue)
    BY <1>1, <1>9, <2>2, HandledQueue, AbandonedIs DEF IInv, Pending, Items
  <2>. QED  BY <1>9, <2>1, <2>2, HandledQueue DEF IInv
<1>10. CASE CancelSlot
  BY <1>1, <1>10, AbandonedIs DEF CancelSlot, Pending, Items
<1>11. CASE RestTake
  BY <1>1, <1>11, PoppedIs DEF RestTake, Pending, Items
<1>12. CASE GuardCloses
  BY <1>1, <1>12, ClosedIs DEF GuardCloses, Pending, Items
<1>13. CASE Ask \/ Await \/ JoinProducer \/ AwaitTraverser \/ Unwind \/ Conclude \/ Emit \/ RestEnds
            \/ RestFailure \/ Receive \/ ReceiverFails \/ Lose \/ Cancel \/ UNCHANGED vars
  BY <1>13
  DEF Ask, Await, JoinProducer, AwaitTraverser, Unwind, Conclude, Emit, RestEnds, RestFailure,
      Receive, ReceiverFails, Lose, Cancel, vars, Pending, Items
<1>. QED  BY <1>2, <1>3, <1>4, <1>5, <1>6, <1>7, <1>8, <1>9, <1>10, <1>11, <1>12, <1>13
          DEF Next, ProducerStep, MainStep, RestStep, Finished

(* What happens to the batch of the main thread.                           *)
LEMMA CurrentSteps ==
  ASSUME IInv, [Next]_vars
  PROVE  \/ current' = current
         \/ MainPop /\ Pending # <<>> /\ current' = Head(Pending)
         \/ Forward /\ current # <<>> /\ current' = Tail(current)
<1>1. CASE MainPop
  BY <1>1 DEF MainPop, Pending
<1>2. CASE Forward
  BY <1>2 DEF Forward
<1>3. CASE ~MainPop /\ ~Forward
  BY <1>3
  DEF Next, vars, Finished, Traverse, ProducerStep, ProducerPop, ProducerAtEnd, ProducerPush,
      ProducerClose, MainStep, Ask, Await, Finish, Handle, JoinProducer, AwaitTraverser, Unwind,
      Conclude, RestStep, RestTake, Emit, RestEnds, RestFailure, GuardCloses, Receive, ReceiverFails,
      Lose, Cancel, CancelSlot, senderVars
<1>. QED  BY <1>1, <1>2, <1>3

(* All batches stay within the limits, wherever they are.                  *)
LEMMA BatchesStayTyped ==
  ASSUME IInv, [Next]_vars
  PROVE  BatchesTyped'
<1>1. scenario' = scenario /\ BatchTyped(batch)'
  BY ScenarioFixed, BatchStaysTyped
<1>2. BatchesTyped /\ Pending \in Seq(Seq(Entry))
  BY BatchesAreTyped DEF IInv, QueueTyped
<1>3. BatchTyped(current)'
  <2>1. PICK b : b = current'
    OBVIOUS
  <2>2. BatchTyped(b)
    <3>1. CASE b = current
      BY <1>2, <3>1 DEF BatchesTyped
    <3>2. CASE Pending # <<>> /\ b = Head(Pending)
      <4>1. 1 \in DOMAIN Pending /\ b = Pending[1]
        BY <1>2, <3>2
      <4>. QED  BY <1>2, <4>1 DEF BatchesTyped
    <3>3. CASE current # <<>> /\ b = Tail(current)
      <4>1. BatchTyped(current) /\ current \in Seq(Entry)
        BY <1>2 DEF BatchesTyped, BatchTyped
      <4>2. Tail(current) \in Seq(Entry) /\ Len(Tail(current)) <= Len(current)
            /\ Len(current) \in Nat /\ Len(Tail(current)) \in Nat
        BY <3>3, <4>1
      <4>3. /\ Cardinality(Infos(Tail(current))) <= Cardinality(Infos(current))
            /\ Cardinality(Infos(Tail(current))) \in Nat /\ Cardinality(Infos(current)) \in Nat
        <5>1. Head(current) \in Entry  BY <3>3, <4>1
        <5>. QED  BY <3>3, <4>1, <4>2, <5>1, InfosOfBatch
      <4>. QED  BY <3>3, <4>1, <4>2, <4>3, ComparisonAssumption DEF BatchTyped
    <3>. QED  BY <2>1, <3>1, <3>2, <3>3, CurrentSteps
  <2>3. BatchTyped(b)'
    BY <1>1, <2>2, TypedLater
  <2>. QED  BY <2>1, <2>3 DEF BatchTyped, Infos, Regular
<1>4. (\A i \in DOMAIN Pending : BatchTyped(Pending[i]))'
  <2>1. PICK p : p = Pending'
    OBVIOUS
  <2>2. \A i \in DOMAIN p : BatchTyped(p[i])
    <3>1. CASE p = Pending
      BY <1>2, <3>1 DEF BatchesTyped
    <3>2. CASE p = Append(Pending, batch)
      BY <1>2, <3>2 DEF BatchesTyped
    <3>3. CASE Pending # <<>> /\ p = Tail(Pending)
      BY <1>2, <3>3 DEF BatchesTyped
    <3>4. CASE p = <<>>
      BY <3>4
    <3>. QED  BY <2>1, <3>1, <3>2, <3>3, <3>4, PendingSteps
  <2>3. ASSUME NEW i \in DOMAIN p PROVE BatchTyped(p[i])'
    BY <1>1, <2>2 DEF BatchTyped, Infos, Regular
  <2>. QED  BY <2>1, <2>3 DEF BatchTyped, Infos, Regular
<1>. QED  BY <1>1, <1>3, <1>4 DEF BatchesTyped

(* An ended queue stays ended, an abandoned one abandoned.                 *)
Onward(q) ==
  \/ queue'[q].status = queue[q].status
  \/ Open(q) /\ queue'[q].status = "Closed"
  \/ queue'[q].status = "Abandoned" /\ queue'[q].items = <<>>

(* A queue that is closed stays closed, and one that is abandoned stays    *)
(* so.                                                                     *)
LEMMA QueuesGoOnward ==
  ASSUME IInv, [Next]_vars, NEW q \in Queues
  PROVE  Onward(q)
<1>1. QueueTyped /\ "pending" \in Queues /\ "traversal" \in Queues /\ "filtered" \in Queues
  BY DEF IInv, Queues
<1>2. CASE queue' = queue
  BY <1>2 DEF Onward
<1>3. CASE \E r \in Queues : \E item : queue' = Pushed(r, item)
  <2>0. PICK r \in Queues : \E item : queue' = Pushed(r, item)
    BY <1>3
  <2>1. PICK item : queue' = Pushed(r, item)
    BY <2>0
  <2>2. Pushed(r, item)[r].status = queue[r].status /\ \A s \in Queues \ {r} : Pushed(r, item)[s] = queue[s]
    BY <1>1, PushedIs, Zenon
  <2>. QED  BY <2>1, <2>2 DEF Onward
<1>4. CASE \E r \in Queues : queue' = Popped(r)
  BY <1>1, <1>4, PoppedIs DEF Onward
<1>5. CASE \E r \in Queues : queue' = Closed(r)
  BY <1>1, <1>5, ClosedIs DEF Onward
<1>6. CASE \E r \in Queues : queue' = Abandoned(r)
  BY <1>1, <1>6, AbandonedIs DEF Onward
<1>7. CASE queue' = [Popped("traversal") EXCEPT !["pending"] = Closed("pending")["pending"]]
  <2>1. q = "traversal" \/ q = "pending" \/ q = "filtered"
    BY DEF Queues
  <2>. QED  BY <1>1, <1>7, <2>1, PoppedAndClosedIs DEF Onward
<1>8. CASE Traverse
  BY <1>1, <1>2, <1>3, <1>5, <1>8 DEF Traverse, TraverserEnds
<1>9. CASE ProducerStep
  BY <1>1, <1>2, <1>3, <1>4, <1>5, <1>7, <1>9
  DEF ProducerStep, ProducerPop, ProducerAtEnd, ProducerPush, ProducerClose, ProducerEnds
<1>10. CASE Handle
  BY <1>1, <1>5, <1>6, <1>10, HandledQueue DEF IInv
<1>11. CASE MainStep /\ ~Handle
  BY <1>1, <1>2, <1>3, <1>4, <1>5, <1>11
  DEF MainStep, MainPop, Ask, Await, Forward, Finish, JoinProducer, AwaitTraverser, Unwind, Conclude
<1>12. CASE RestStep \/ RestFailure
  BY <1>1, <1>2, <1>4, <1>5, <1>12
  DEF RestStep, RestTake, Emit, RestEnds, RestFailure, GuardCloses
<1>13. CASE CancelSlot
  BY <1>2, <1>6, <1>13 DEF CancelSlot
<1>14. CASE Receive \/ ReceiverFails \/ Lose \/ Cancel \/ UNCHANGED vars
  BY <1>2, <1>14 DEF Receive, ReceiverFails, Lose, Cancel, vars
<1>. QED  BY <1>8, <1>9, <1>10, <1>11, <1>12, <1>13, <1>14 DEF Next, Finished

(* What happens to the queue of the traverser ...                          *)
LEMMA TraversedSteps ==
  ASSUME IInv, [Next]_vars
  PROVE  \/ Traversed' = Traversed /\ found' = found
         \/ /\ Traverse /\ Room("traversal") /\ found < Entries
            /\ Traversed' = Append(Traversed, found + 1) /\ found' = found + 1
         \/ ProducerPop /\ Traversed # <<>> /\ Traversed' = Tail(Traversed) /\ found' = found
         \/ Traversed' = <<>> /\ queue'["traversal"].status = "Abandoned" /\ found' = found
<1>1. QueueTyped /\ "pending" \in Queues /\ "traversal" \in Queues /\ "filtered" \in Queues
  BY DEF IInv, Queues
<1>2. CASE Traverse
  BY <1>1, <1>2, ClosedIs, PushedIs DEF Traverse, TraverserEnds, Traversed, Items
<1>3. CASE ProducerPop
  BY <1>1, <1>3, PoppedIs, PoppedAndClosedIs DEF ProducerPop, Traversed, Items
<1>4. CASE ProducerAtEnd \/ ProducerClose
  BY <1>1, <1>4, ClosedIs DEF ProducerAtEnd, ProducerClose, ProducerEnds, Traversed, Items
<1>5. CASE ProducerPush
  BY <1>1, <1>5, ClosedIs, PushedIs DEF ProducerPush, ProducerEnds, Traversed, Items
<1>6. CASE MainPop
  BY <1>1, <1>6, PoppedIs DEF MainPop, Traversed, Items
<1>7. CASE Forward
  BY <1>1, <1>7, PushedIs DEF Forward, Traversed, Items
<1>8. CASE Finish
  BY <1>1, <1>8, ClosedIs DEF Finish, Traversed, Items
<1>9. CASE Handle
  <2>1. CASE queue' = Closed("filtered")
    BY <1>1, <1>9, <2>1, ClosedIs DEF Handle, Traversed, Items
  <2>2. CASE queue' = Abandoned(Head(todo).queue)
    BY <1>1, <1>9, <2>2, HandledQueue, AbandonedIs DEF IInv, Handle, Traversed, Items
  <2>. QED  BY <1>9, <2>1, <2>2, HandledQueue DEF IInv
<1>10. CASE CancelSlot
  BY <1>1, <1>10, AbandonedIs DEF CancelSlot, Traversed, Items, senderVars
<1>11. CASE RestTake
  BY <1>1, <1>11, PoppedIs DEF RestTake, Traversed, Items, senderVars
<1>12. CASE GuardCloses
  BY <1>1, <1>12, ClosedIs DEF GuardCloses, Traversed, Items, senderVars
<1>13. CASE Ask \/ Await \/ JoinProducer \/ AwaitTraverser \/ Unwind \/ Conclude \/ Emit \/ RestEnds
            \/ RestFailure \/ Receive \/ ReceiverFails \/ Lose \/ Cancel \/ UNCHANGED vars
  BY <1>13
  DEF Ask, Await, JoinProducer, AwaitTraverser, Unwind, Conclude, Emit, RestEnds, RestFailure,
      Receive, ReceiverFails, Lose, Cancel, vars, senderVars, Traversed, Items
<1>. QED  BY <1>2, <1>3, <1>4, <1>5, <1>6, <1>7, <1>8, <1>9, <1>10, <1>11, <1>12, <1>13
          DEF Next, ProducerStep, MainStep, RestStep, Finished

(* ... and to that of the opener.                                          *)
LEMMA FilteredSteps ==
  ASSUME IInv, [Next]_vars
  PROVE  \/ Filtered' = Filtered
         \/ /\ Forward /\ Room("filtered")
            /\ Filtered' = Append(Filtered, Renumbered(Head(current)))
         \/ RestTake /\ Filtered # <<>> /\ Filtered' = Tail(Filtered)
         \/ /\ Filtered' = <<>> /\ queue'["filtered"].status = "Abandoned" /\ (Handle \/ CancelSlot)
<1>1. QueueTyped /\ "pending" \in Queues /\ "traversal" \in Queues /\ "filtered" \in Queues
  BY DEF IInv, Queues
<1>2. CASE Traverse
  BY <1>1, <1>2, ClosedIs, PushedIs DEF Traverse, TraverserEnds, Filtered, Items
<1>3. CASE ProducerPop
  BY <1>1, <1>3, PoppedIs, PoppedAndClosedIs DEF ProducerPop, Filtered, Items
<1>4. CASE ProducerAtEnd \/ ProducerClose
  BY <1>1, <1>4, ClosedIs DEF ProducerAtEnd, ProducerClose, ProducerEnds, Filtered, Items
<1>5. CASE ProducerPush
  BY <1>1, <1>5, ClosedIs, PushedIs DEF ProducerPush, ProducerEnds, Filtered, Items
<1>6. CASE MainPop
  BY <1>1, <1>6, PoppedIs DEF MainPop, Filtered, Items
<1>7. CASE Forward
  BY <1>1, <1>7, PushedIs DEF Forward, Filtered, Items
<1>8. CASE Finish
  BY <1>1, <1>8, ClosedIs DEF Finish, Filtered, Items
<1>9. CASE Handle
  <2>1. CASE queue' = Closed("filtered")
    BY <1>1, <1>9, <2>1, ClosedIs DEF Filtered, Items
  <2>2. CASE queue' = Abandoned(Head(todo).queue)
    BY <1>1, <1>9, <2>2, HandledQueue, AbandonedIs DEF IInv, Filtered, Items
  <2>. QED  BY <1>9, <2>1, <2>2, HandledQueue DEF IInv
<1>10. CASE CancelSlot
  BY <1>1, <1>10, AbandonedIs DEF CancelSlot, Filtered, Items
<1>11. CASE RestTake
  BY <1>1, <1>11, PoppedIs DEF RestTake, Filtered, Items
<1>12. CASE GuardCloses
  BY <1>1, <1>12, ClosedIs DEF GuardCloses, Filtered, Items
<1>13. CASE Ask \/ Await \/ JoinProducer \/ AwaitTraverser \/ Unwind \/ Conclude \/ Emit \/ RestEnds
            \/ RestFailure \/ Receive \/ ReceiverFails \/ Lose \/ Cancel \/ UNCHANGED vars
  BY <1>13
  DEF Ask, Await, JoinProducer, AwaitTraverser, Unwind, Conclude, Emit, RestEnds, RestFailure,
      Receive, ReceiverFails, Lose, Cancel, vars, Filtered, Items
<1>. QED  BY <1>2, <1>3, <1>4, <1>5, <1>6, <1>7, <1>8, <1>9, <1>10, <1>11, <1>12, <1>13
          DEF Next, ProducerStep, MainStep, RestStep, Finished

(* No queue outgrows its capacity.                                         *)
LEMMA CapacitiesKept ==
  ASSUME IInv, [Next]_vars
  PROVE  Len(Traversed)' <= Capacity /\ Len(Pending)' <= Capacity /\ Len(Filtered)' <= Capacity
<1>1. /\ Len(Traversed) <= Capacity /\ Len(Pending) <= Capacity /\ Len(Filtered) <= Capacity
      /\ Traversed \in Seq(Entry) /\ Pending \in Seq(Seq(Entry)) /\ Filtered \in Seq(NumberedEntry)
      /\ Capacity \in Nat
  BY ComparisonAssumption DEF IInv, TypeOK, QueueTyped, Traversed, Pending, Filtered, Queues
<1>2. /\ Room("traversal") => Len(Traversed) < Capacity
      /\ Room("pending") => Len(Pending) < Capacity
      /\ Room("filtered") => Len(Filtered) < Capacity
  BY DEF Room, Traversed, Pending, Filtered
<1>. HIDE DEF NumberedEntry, Entry
<1>3. Len(Traversed)' <= Capacity
  BY <1>1, <1>2, TraversedSteps
<1>4. Len(Pending)' <= Capacity
  BY <1>1, <1>2, PendingSteps
<1>5. Len(Filtered)' <= Capacity
  BY <1>1, <1>2, FilteredSteps
<1>. QED  BY <1>3, <1>4, <1>5

(***************************************************************************)
(* The chain of entries.                                                   *)
(***************************************************************************)
(* A producer that is done has stopped.                                    *)
LEMMA DoneIsDone ==
  ASSUME ProducerDone, [Next]_vars
  PROVE  producer' = producer /\ batch' = batch /\ ~ProducerPush /\ ~ProducerPop
BY DEF ProducerDone, Next, vars, Finished, Traverse, ProducerStep, ProducerPop, ProducerAtEnd,
       ProducerPush, ProducerClose, MainStep, MainPop, Ask, Await, Forward, Finish, Handle,
       JoinProducer, AwaitTraverser, Unwind, Conclude, RestStep, RestTake, Emit, RestEnds, RestFailure,
       GuardCloses, Receive, ReceiverFails, Lose, Cancel, CancelSlot, senderVars

(* Nobody but the producer touches its batch or its place.                 *)
LEMMA OthersKeepProducer ==
  ASSUME [Next]_vars, ~ProducerStep
  PROVE  producer' = producer /\ batch' = batch
BY DEF Next, vars, Finished, Traverse, MainStep, MainPop, Ask, Await, Forward, Finish, Handle,
       JoinProducer, AwaitTraverser, Unwind, Conclude, RestStep, RestTake, Emit, RestEnds, RestFailure,
       GuardCloses, Receive, ReceiverFails, Lose, Cancel, CancelSlot, senderVars

(* Only the producer closes pending.                                       *)
LEMMA PendingIsClosedByItsProducer ==
  ASSUME IInv, [Next]_vars, queue["pending"].status = "Closed" => ProducerDone,
         queue'["pending"].status = "Closed"
  PROVE  ProducerDone'
<1>1. QueueTyped /\ "pending" \in Queues /\ "traversal" \in Queues /\ "filtered" \in Queues
  BY DEF IInv, Queues
<1>2. CASE queue'["pending"].status = queue["pending"].status
  <2>1. ProducerDone
    BY <1>2
  <2>. QED  BY <2>1, DoneIsDone DEF ProducerDone
<1>3. CASE ProducerStep
  <2>1. CASE ProducerPop
    BY <1>1, <1>2, <2>1, PoppedIs DEF ProducerPop, ProducerDone
  <2>2. CASE ProducerAtEnd \/ ProducerClose
    BY <1>1, <1>2, <2>2 DEF ProducerAtEnd, ProducerClose, ProducerEnds, ProducerDone
  <2>3. CASE ProducerPush
    <3>1. CASE queue' = Pushed("pending", batch)
      BY <1>1, <1>2, <3>1, PushedIs
    <3>. QED  BY <2>3, <3>1 DEF ProducerPush, ProducerEnds, ProducerDone, Ended
  <2>. QED  BY <1>3, <2>1, <2>2, <2>3 DEF ProducerStep
<1>4. CASE Traverse
  BY <1>1, <1>2, <1>4, ClosedIs, PushedIs DEF Traverse, TraverserEnds
<1>5. CASE MainPop \/ Finish
  BY <1>1, <1>2, <1>5, PoppedIs, ClosedIs DEF MainPop, Finish
<1>6. CASE Forward
  BY <1>1, <1>2, <1>6, PushedIs DEF Forward
<1>7. CASE Handle
  BY <1>1, <1>2, <1>7, HandledQueue, ClosedIs, AbandonedIs DEF IInv
<1>8. CASE CancelSlot
  BY <1>1, <1>2, <1>8, AbandonedIs DEF CancelSlot
<1>9. CASE RestTake \/ GuardCloses
  BY <1>1, <1>2, <1>9, PoppedIs, ClosedIs DEF RestTake, GuardCloses
<1>10. CASE Ask \/ Await \/ JoinProducer \/ AwaitTraverser \/ Unwind \/ Conclude \/ Emit \/ RestEnds
            \/ RestFailure \/ Receive \/ ReceiverFails \/ Lose \/ Cancel \/ UNCHANGED vars
  BY <1>2, <1>10
  DEF Ask, Await, JoinProducer, AwaitTraverser, Unwind, Conclude, Emit, RestEnds, RestFailure,
      Receive, ReceiverFails, Lose, Cancel, vars
<1>. QED  BY <1>3, <1>4, <1>5, <1>6, <1>7, <1>8, <1>9, <1>10 DEF Next, MainStep, RestStep, Finished

(* The numbers depend on the scenario only.                                *)
LEMMA UpToLater ==
  ASSUME scenario' = scenario, NEW n
  PROVE  UpTo(n)' = UpTo(n) /\ Wanted' = Wanted
BY DEF UpTo, Wanted, Regular, Differs

(* The main thread passes over one entry, or forwards it under the next    *)
(* number.                                                                 *)
LEMMA CurrentForwarded ==
  ASSUME IInv, [Next]_vars, NEW lo \in 0 .. Entries, CurrentFollows(lo),
         Forward, current # <<>>, current' = Tail(current)
  PROVE  lo + 1 \in 0 .. Entries /\ CurrentFollows(lo + 1)' /\ Head(current) = lo + 1
<1>1. scenario' = scenario
  BY ScenarioFixed
<1>2. current \in Seq(Entry) /\ Len(current) \in Nat /\ Len(current) # 0 /\ Entries \in Nat
  BY ComparisonAssumption DEF IInv, TypeOK
<1>3. current[1] = lo + 1 /\ Head(current) = current[1]
      /\ lo + Len(current) <= Entries /\ sequence = UpTo(lo)
  BY <1>2 DEF CurrentFollows, Consecutive
<1>4. Consecutive(Tail(current), lo + 1) /\ (lo + 1) + Len(Tail(current)) <= Entries
  BY <1>2, <1>3 DEF CurrentFollows, Consecutive
<1>5. main = "forward" => (Chosen(current[1]) <=> current[1] \in Wanted)
  BY <1>2 DEF IInv, AnswerFits
<1>6. Len(current) > 0 /\ lo \in Nat
  BY <1>2
<1>7. sequence' = UpTo(lo + 1)
  <2>1. \/ sequence' = sequence /\ ~Chosen(current[1])
        \/ sequence' = sequence + 1 /\ Chosen(current[1])
    <3>1. \/ current' = current /\ sequence' = sequence
          \/ sequence' = sequence /\ ~Chosen(Head(current))
          \/ sequence' = sequence + 1 /\ Chosen(Head(current))
      BY DEF Forward
    <3>2. current' # current
      <4>1. Len(Tail(current)) = Len(current) - 1  BY <1>2
      <4>2. Tail(current) = current => Len(Tail(current)) = Len(current)
        OBVIOUS
      <4>3. Len(Tail(current)) # Len(current)
        <5>1. PICK n \in Nat : n = Len(current)  BY <1>2
        <5>2. n - 1 # n  OBVIOUS
        <5>. QED  BY <4>1, <5>1, <5>2, Zenon
      <4>. QED  BY <4>2, <4>3, Zenon
    <3>. QED  BY <1>3, <3>1, <3>2
  <2>2. Chosen(current[1]) <=> lo + 1 \in Wanted
    BY <1>3, <1>5 DEF Forward
  <2>3. /\ lo + 1 \in Wanted => UpTo(lo + 1) = UpTo(lo) + 1
        /\ lo + 1 \notin Wanted => UpTo(lo + 1) = UpTo(lo)
    BY <1>6, UpToStep
  <2>. QED  BY <1>3, <2>1, <2>2, <2>3
<1>8. UpTo(lo + 1)' = UpTo(lo + 1)
  BY <1>1, UpToLater
<1>9. CurrentFollows(lo + 1)'
  BY <1>4, <1>7, <1>8 DEF CurrentFollows, Consecutive
<1>. QED  BY <1>2, <1>3, <1>6, <1>9

(* The main thread takes the batch in front of pending, which follows the  *)
(* last.                                                                   *)
LEMMA CurrentTaken ==
  ASSUME IInv, [Next]_vars, NEW lo \in 0 .. Entries, CurrentFollows(lo),
         NEW from \in Starts, PendingFollows(from), from[1] = lo,
         Pending # <<>>, current' = Head(Pending), sequence' = sequence
  PROVE  CurrentFollows(lo)'
<1>1. scenario' = scenario /\ UpTo(lo)' = UpTo(lo)
  BY ScenarioFixed, UpToLater
<1>2. Pending \in Seq(Seq(Entry)) /\ Entries \in Nat
  BY ComparisonAssumption DEF IInv, QueueTyped
<1>3. 1 \in DOMAIN Pending /\ current' = Pending[1]
  BY <1>2
<1>4. Consecutive(Pending[1], lo) /\ from[2] = lo + Len(Pending[1]) /\ from[2] <= Entries
  <2>1. 1 \in Nat /\ 2 \in Nat /\ 1 + 1 = 2
    OBVIOUS
  <2>2. from[1] = lo /\ from[2] \in 0 .. Entries
    BY <2>1 DEF Starts
  <2>3. Consecutive(Pending[1], from[1]) /\ from[1 + 1] = from[1] + Len(Pending[1])
    BY <1>3 DEF PendingFollows
  <2>. QED  BY <1>2, <2>1, <2>2, <2>3
<1>5. sequence = UpTo(lo)
  BY DEF CurrentFollows
<1>. QED  BY <1>1, <1>3, <1>4, <1>5 DEF CurrentFollows, Consecutive

(* A step that leaves the batch of the main thread alone keeps its place.  *)
LEMMA CurrentSame ==
  ASSUME [Next]_vars, NEW lo \in 0 .. Entries, CurrentFollows(lo),
         current' = current, sequence' = sequence
  PROVE  CurrentFollows(lo)'
<1>1. scenario' = scenario /\ UpTo(lo)' = UpTo(lo)
  BY ScenarioFixed, UpToLater
<1>. QED  BY <1>1 DEF CurrentFollows, Consecutive

(* Nothing gets into an abandoned queue.                                   *)
LEMMA AbandonedStaysEmpty ==
  ASSUME IInv, [Next]_vars
  PROVE  AbandonedIsEmpty'
<1>0. "pending" \in Queues /\ "traversal" \in Queues /\ "filtered" \in Queues
      /\ \A q \in Queues : q = "pending" \/ q = "traversal" \/ q = "filtered"
  BY DEF Queues
<1>1. ASSUME NEW q \in Queues, queue'[q].status = "Abandoned", queue[q].status # "Abandoned"
      PROVE  queue'[q].items = <<>>
  BY <1>1, QueuesGoOnward DEF Onward
<1>2. ASSUME NEW q \in Queues, queue[q].status = "Abandoned"
      PROVE  Items(q) = <<>> /\ ~Room(q)
  BY <1>2 DEF IInv, AbandonedIsEmpty, Room, Open
<1>3. queue["pending"].status = "Abandoned" => Pending' = <<>>
  BY <1>0, <1>2, PendingSteps DEF Pending
<1>4. queue["traversal"].status = "Abandoned" => Traversed' = <<>>
  BY <1>0, <1>2, TraversedSteps DEF Traversed
<1>5. queue["filtered"].status = "Abandoned" => Filtered' = <<>>
  BY <1>0, <1>2, FilteredSteps DEF Filtered
<1>. QED  BY <1>0, <1>1, <1>3, <1>4, <1>5 DEF AbandonedIsEmpty, Pending, Traversed, Filtered, Items

(* The batches stay linked when none of them moves.                        *)
LEMMA LinksSame ==
  ASSUME NEW from \in Starts, NEW top \in 0 .. Entries, PendingFollows(from), BatchFollows(top, from),
         Pending' = Pending, batch' = batch
  PROVE  PendingFollows(from)' /\ BatchFollows(top, from)'
BY DEF PendingFollows, BatchFollows, Consecutive

(* The producer appends its batch to pending.                              *)
LEMMA LinksPushed ==
  ASSUME NEW from \in Starts, NEW top \in 0 .. Entries, PendingFollows(from), BatchFollows(top, from),
         Pending \in Seq(Seq(Entry)), batch \in Seq(Entry),
         Pending' = Append(Pending, batch), batch' = <<>>
  PROVE  \E next \in Starts : /\ PendingFollows(next)' /\ BatchFollows(top, next)'
                              /\ next[1] = from[1]
<1>1. PICK n \in Nat : n = Len(Pending)
  OBVIOUS
<1>2. PICK next : next = [from EXCEPT ![n + 2] = top]
  OBVIOUS
<1>3. next \in Starts /\ next[n + 2] = top /\ \A k \in Nat : k # n + 2 => next[k] = from[k]
  <2>1. PICK S : S = 0 .. Entries  OBVIOUS
  <2>2. from \in [Nat -> S]  BY <2>1 DEF Starts
  <2>3. top \in S  BY <2>1
  <2>4. n + 2 \in Nat  BY <1>1
  <2>5. next \in [Nat -> S] /\ next[n + 2] = top /\ \A k \in Nat : k # n + 2 => next[k] = from[k]
    BY <1>2, <2>2, <2>3, <2>4
  <2>. QED  BY <2>1, <2>5 DEF Starts
<1>4. next[1] = from[1]
  BY <1>1, <1>3
<1>5. PICK p : p = Append(Pending, batch)
  OBVIOUS
<1>6. Len(p) = n + 1 /\ p[n + 1] = batch /\ \A k \in 1 .. n : p[k] = Pending[k]
  BY <1>1, <1>5
<1>7. Consecutive(batch, from[n + 1]) /\ top = from[n + 1] + Len(batch)
  BY <1>1 DEF BatchFollows
<1>8. ASSUME NEW k \in 1 .. n + 1
      PROVE  Consecutive(p[k], next[k]) /\ next[k + 1] = next[k] + Len(p[k])
  <2>1. CASE k = n + 1
    <3>1. k # n + 2 /\ k \in Nat /\ k + 1 = n + 2  BY <1>1, <2>1
    <3>. QED  BY <1>3, <1>6, <1>7, <2>1, <3>1
  <2>2. CASE k # n + 1
    <3>1. k \in 1 .. n /\ k # n + 2 /\ k + 1 # n + 2 /\ k \in Nat /\ k + 1 \in Nat
      BY <1>1, <2>2
    <3>2. k \in DOMAIN Pending  BY <1>1, <3>1
    <3>. QED  BY <1>3, <1>6, <3>1, <3>2 DEF PendingFollows
  <2>. QED  BY <2>1, <2>2
<1>9. DOMAIN p = 1 .. n + 1
  BY <1>1, <1>5
<1>10. PendingFollows(next)'
  BY <1>5, <1>8, <1>9 DEF PendingFollows, Consecutive
<1>11. BatchFollows(top, next)'
  <2>1. Len(Pending') = n + 1 /\ (n + 1) + 1 = n + 2 /\ top + 0 = top
    BY <1>1, <1>5, <1>6
  <2>2. next[Len(Pending') + 1] = top /\ Len(batch') = 0 /\ DOMAIN batch' = {}
    BY <1>3, <2>1
  <2>. QED  BY <2>1, <2>2 DEF BatchFollows, Consecutive
<1>. QED  BY <1>3, <1>4, <1>10, <1>11

(* The main thread takes the first batch.                                  *)
LEMMA LinksPopped ==
  ASSUME NEW from \in Starts, NEW top \in 0 .. Entries, PendingFollows(from), BatchFollows(top, from),
         Pending \in Seq(Seq(Entry)), Pending # <<>>, Pending' = Tail(Pending), batch' = batch
  PROVE  \E next \in Starts : /\ PendingFollows(next)' /\ BatchFollows(top, next)'
                              /\ next[1] = from[1] + Len(Head(Pending))
<1>1. PICK n \in Nat : n = Len(Pending)
  OBVIOUS
<1>2. PICK next : next = [k \in Nat |-> from[k + 1]]
  OBVIOUS
<1>3. next \in Starts /\ \A k \in Nat : next[k] = from[k + 1]
  <2>1. PICK S : S = 0 .. Entries  OBVIOUS
  <2>2. from \in [Nat -> S]  BY <2>1 DEF Starts
  <2>3. \A k \in Nat : k + 1 \in Nat /\ from[k + 1] \in S  BY <2>2
  <2>4. next \in [Nat -> S] /\ \A k \in Nat : next[k] = from[k + 1]  BY <1>2, <2>3
  <2>. QED  BY <2>1, <2>4 DEF Starts
<1>4. n # 0
  BY <1>1, EmptySeq
<1>5. PICK p : p = Tail(Pending)
  OBVIOUS
<1>6. Len(p) = n - 1 /\ DOMAIN p = 1 .. n - 1 /\ \A k \in 1 .. n - 1 : p[k] = Pending[k + 1]
  BY <1>1, <1>4, <1>5
<1>7. ASSUME NEW k \in DOMAIN p
      PROVE  Consecutive(p[k], next[k]) /\ next[k + 1] = next[k] + Len(p[k])
  <2>1. k \in Nat /\ k + 1 \in Nat /\ k + 1 \in DOMAIN Pending
    BY <1>1, <1>4, <1>6
  <2>2. p[k] = Pending[k + 1]
    BY <1>6
  <2>. QED  BY <1>3, <2>1, <2>2 DEF PendingFollows
<1>8. PendingFollows(next)'
  BY <1>5, <1>7 DEF PendingFollows, Consecutive
<1>9. next[1] = from[1] + Len(Head(Pending))
  <2>1. 1 \in DOMAIN Pending /\ Head(Pending) = Pending[1]  BY <1>1, <1>4
  <2>. QED  BY <1>3, <2>1 DEF PendingFollows
<1>10. BatchFollows(top, next)'
  <2>1. Len(Pending') + 1 = n /\ next[n] = from[n + 1]
    BY <1>1, <1>3, <1>4, <1>5, <1>6
  <2>. QED  BY <1>1, <2>1 DEF BatchFollows, Consecutive
<1>. QED  BY <1>3, <1>8, <1>9, <1>10

(* The producer takes the next entry.                                      *)
LEMMA LinksGrown ==
  ASSUME NEW from \in Starts, NEW top \in 0 .. Entries, PendingFollows(from), BatchFollows(top, from),
         batch \in Seq(Entry), Pending' = Pending, batch' = Append(batch, top + 1)
  PROVE  PendingFollows(from)' /\ BatchFollows(top + 1, from)'
<1>1. PendingFollows(from)'
  BY DEF PendingFollows, Consecutive
<1>2. PICK m : m = from[Len(Pending) + 1]
  OBVIOUS
<1>3. Consecutive(batch, m) /\ m + Len(batch) = top
  BY <1>2 DEF BatchFollows
<1>4. m \in Int
  <2>1. Len(Pending) + 1 \in Nat \/ m = m
    OBVIOUS
  <2>. QED  BY <1>2 DEF Starts
<1>. QED  BY <1>1, <1>2, <1>3, <1>4 DEF BatchFollows, Consecutive

(* Pending is abandoned.                                                   *)
LEMMA LinksDropped ==
  ASSUME NEW from \in Starts, NEW top \in 0 .. Entries, BatchFollows(top, from),
         Pending \in Seq(Seq(Entry)), Pending' = <<>>, batch' = batch
  PROVE  \E next \in Starts : PendingFollows(next)' /\ BatchFollows(top, next)'
<1>1. PICK m \in 0 .. Entries : m = from[Len(Pending) + 1]
  BY DEF Starts
<1>2. PICK next : next = [k \in Nat |-> m]
  OBVIOUS
<1>3. next \in Starts /\ \A k \in Nat : next[k] = m
  BY <1>2 DEF Starts
<1>4. PendingFollows(next)'
  BY DEF PendingFollows
<1>5. BatchFollows(top, next)'
  <2>1. next[Len(Pending') + 1] = m
    BY <1>3
  <2>. QED  BY <1>1, <2>1 DEF BatchFollows, Consecutive
<1>. QED  BY <1>3, <1>4, <1>5

(* Consecutive entries stay so at either end.                              *)
LEMMA ConsecutiveSteps ==
  ASSUME NEW S, NEW s \in Seq(S), NEW n \in Int, Consecutive(s, n)
  PROVE  /\ Consecutive(Append(s, n + Len(s) + 1), n)
         /\ s # <<>> => Head(s) = n + 1 /\ Consecutive(Tail(s), n + 1)
<1>1. Consecutive(Append(s, n + Len(s) + 1), n)
  BY DEF Consecutive
<1>2. ASSUME s # <<>> PROVE Head(s) = n + 1 /\ Consecutive(Tail(s), n + 1)
  BY <1>2 DEF Consecutive
<1>. QED  BY <1>1, <1>2

(* While the producer goes on and nothing was abandoned, what it has not   *)
(* taken is what the traverser has found since.                            *)
LEMMA TraversedKept ==
  ASSUME IInv, [Next]_vars, NEW top \in 0 .. Entries, TraversedFollows(top),
         batch' = batch \/ ~ProducerPop
  PROVE  TraversedFollows(top)'
<1>1. SUFFICES ASSUME producer' \notin Failed, queue'["traversal"].status # "Abandoned"
               PROVE  Consecutive(Traversed', top) /\ top + Len(Traversed') = found'
  BY DEF TraversedFollows, Consecutive
<1>2. Traversed \in Seq(Entry) /\ found \in 0 .. Entries
  BY DEF IInv, QueueTyped, TypeOK
<1>3. Onward("traversal")
  BY QueuesGoOnward DEF Queues
<1>4. queue["traversal"].status # "Abandoned"
  BY <1>1, <1>3 DEF Onward, Open
<1>5. producer \notin Failed
  <2>1. SUFFICES ASSUME producer \in Failed PROVE FALSE
    OBVIOUS
  <2>2. ProducerDone
    BY <2>1 DEF Failed, ProducerDone
  <2>. QED  BY <1>1, <2>1, <2>2, DoneIsDone
<1>6. Consecutive(Traversed, top) /\ top + Len(Traversed) = found
  BY <1>4, <1>5 DEF TraversedFollows
<1>7. ~(ProducerPop /\ Traversed # <<>> /\ Traversed' = Tail(Traversed) /\ found' = found)
  <2>1. SUFFICES ASSUME ProducerPop, batch' = batch, Traversed # <<>> PROVE FALSE
    OBVIOUS
  <2>2. batch \in Seq(Entry) /\ Head(Traversed) \in Entry
    BY <1>2, <2>1 DEF IInv, TypeOK
  <2>3. batch' # Append(batch, Head(Traversed))
    <3>1. PICK b : b = Append(batch, Head(Traversed))
      OBVIOUS
    <3>2. Len(b) = Len(batch) + 1 /\ Len(batch) \in Nat
      BY <2>2, <3>1
    <3>3. b # batch
      BY <3>2
    <3>. QED  BY <2>1, <3>1, <3>3
  <2>. QED  BY <1>1, <2>1, <2>3 DEF ProducerPop, Failed, Traversed
<1>8. CASE Traversed' = Traversed /\ found' = found
  BY <1>6, <1>8
<1>9. CASE Traversed' = Append(Traversed, found + 1) /\ found' = found + 1
  <2>1. top \in Int /\ found = top + Len(Traversed) /\ Len(Traversed) \in Nat
    BY <1>2, <1>6
  <2>2. Consecutive(Append(Traversed, found + 1), top)
    BY <1>2, <1>6, <2>1, ConsecutiveSteps
  <2>3. Len(Append(Traversed, found + 1)) = Len(Traversed) + 1
    BY <1>2
  <2>. QED  BY <1>9, <2>1, <2>2, <2>3
<1>. QED  BY <1>1, <1>7, <1>8, <1>9, TraversedSteps

(* The producer takes the entry that comes next.                           *)
LEMMA TraversedTaken ==
  ASSUME IInv, [Next]_vars, NEW top \in 0 .. Entries, TraversedFollows(top), producer = "pop",
         Traversed # <<>>, Traversed' = Tail(Traversed), found' = found
  PROVE  /\ TraversedFollows(top + 1)'
         /\ queue["traversal"].status # "Abandoned" =>
              Head(Traversed) = top + 1 /\ top + 1 \in 0 .. Entries
<1>2. Traversed \in Seq(Entry) /\ found \in 0 .. Entries /\ Len(Traversed) \in Nat /\ Len(Traversed) # 0
  BY EmptySeq DEF IInv, QueueTyped, TypeOK
<1>3. Onward("traversal")
  BY QueuesGoOnward DEF Queues
<1>4. ASSUME queue["traversal"].status # "Abandoned"
      PROVE  Consecutive(Traversed, top) /\ top + Len(Traversed) = found
  BY <1>4 DEF TraversedFollows, Failed
<1>5. ASSUME queue["traversal"].status # "Abandoned"
      PROVE  Head(Traversed) = top + 1 /\ top + 1 \in 0 .. Entries
  <2>1. top + Len(Traversed) = found /\ top \in Int
    BY <1>4, <1>5
  <2>2. Head(Traversed) = top + 1
    BY <1>2, <1>4, <1>5, <2>1, ConsecutiveSteps
  <2>3. top + 1 <= found
    BY <1>2, <2>1
  <2>. QED  BY <1>2, <2>1, <2>2, <2>3, ComparisonAssumption
<1>6. ASSUME queue'["traversal"].status # "Abandoned"
      PROVE  Consecutive(Traversed', top + 1) /\ (top + 1) + Len(Traversed') = found'
  <2>1. queue["traversal"].status # "Abandoned"
    BY <1>3, <1>6 DEF Onward, Open
  <2>2. top \in Int
    OBVIOUS
  <2>3. Consecutive(Tail(Traversed), top + 1)
    BY <1>2, <1>4, <2>1, <2>2, ConsecutiveSteps
  <2>4. Len(Tail(Traversed)) = Len(Traversed) - 1
    BY <1>2
  <2>. QED  BY <1>2, <1>4, <2>1, <2>2, <2>3, <2>4
<1>. QED  BY <1>5, <1>6 DEF TraversedFollows, Consecutive

(* The producer has come to the end of a queue that was closed behind the  *)
(* last entry found; nothing is found after that.                          *)
LEMMA ProducerHasAllKept ==
  ASSUME IInv, [Next]_vars, NEW top \in 0 .. Entries, TraversedFollows(top), ProducerHasAll(top)
  PROVE  ProducerHasAll(top)'
<1>0. QueueTyped /\ "pending" \in Queues /\ "traversal" \in Queues
      /\ Onward("traversal") /\ Onward("pending")
  BY QueuesGoOnward DEF IInv, Queues
<1>1. ASSUME ~Open("traversal") PROVE ~Open("traversal")' /\ found' = found
  <2>1. ~Open("traversal")'
    BY <1>0, <1>1 DEF Onward, Open
  <2>. QED  BY <1>1, <2>1, TraversedSteps DEF Room
<1>2. producer' \in {"pushLast", "close", "ok"} => top = found' /\ ~Open("traversal")'
  <2>1. CASE producer \in {"pushLast", "close", "ok"}
    BY <1>1, <2>1 DEF ProducerHasAll
  <2>2. CASE ProducerAtEnd /\ Ended("traversal") # "cancelled"
    <3>1. /\ ~Open("traversal") /\ Traversed = <<>> /\ producer \notin Failed
          /\ queue["traversal"].status \in Statuses
      BY <1>0, <2>2 DEF ProducerAtEnd, AtEnd, Traversed, Failed, QueueTyped
    <3>2. queue["traversal"].status # "Abandoned"
      BY <2>2 DEF Ended
    <3>3. top = found
      <4>1. top + Len(Traversed) = found
        BY <3>1, <3>2 DEF TraversedFollows
      <4>. QED  BY <3>1, <4>1
    <3>. QED  BY <1>1, <3>1, <3>3
  <2>3. ASSUME producer \notin {"pushLast", "close", "ok"},
               ~(ProducerAtEnd /\ Ended("traversal") # "cancelled")
        PROVE  producer' \notin {"pushLast", "close", "ok"}
    <3>1. CASE ProducerStep
      BY <2>3, <3>1
      DEF ProducerStep, ProducerPop, ProducerAtEnd, ProducerPush, ProducerClose, ProducerEnds, Ended
    <3>2. CASE ~ProducerStep
      BY <2>3, <3>2, OthersKeepProducer
    <3>. QED  BY <3>1, <3>2
  <2>. QED  BY <2>1, <2>2, <2>3
<1>3. producer' \in {"close", "ok"} => batch' = <<>>
  <2>1. CASE ProducerStep
    BY <2>1
    DEF ProducerStep, ProducerPop, ProducerAtEnd, ProducerPush, ProducerClose, ProducerEnds, Ended,
        LastBatch, ProducerHasAll
  <2>2. CASE ~ProducerStep
    BY <2>2, OthersKeepProducer DEF ProducerHasAll
  <2>. QED  BY <2>1, <2>2
<1>4. queue'["pending"].status = "Closed" => ProducerDone'
  BY PendingIsClosedByItsProducer DEF ProducerHasAll
<1>. QED  BY <1>2, <1>3, <1>4 DEF ProducerHasAll, Open

(* What the main thread knows when it has passed a join.                   *)
LEMMA MainHasAllKept ==
  ASSUME IInv, [Next]_vars, NEW lo \in 0 .. Entries, NEW top \in 0 .. Entries, NEW from \in Starts,
         CurrentFollows(lo), BatchFollows(top, from), MainIsInFront(lo, from), ProducerHasAll(top),
         MainHasAll(lo, top)
  PROVE  MainHasAll(lo, top)'
<1>0. QueueTyped /\ "pending" \in Queues /\ "traversal" \in Queues /\ MainIsSound
      /\ Onward("traversal")
  BY QueuesGoOnward DEF IInv, Queues
<1>1. ASSUME ~Open("traversal") PROVE ~Open("traversal")' /\ found' = found
  <2>1. ~Open("traversal")'
    BY <1>0, <1>1 DEF Onward, Open
  <2>. QED  BY <1>1, <2>1, TraversedSteps DEF Room
<1>2. UpTo(Entries)' = UpTo(Entries)
  BY ScenarioFixed, UpToLater
<1>3. ASSUME ProducerDone, lo + Len(batch) = top
      PROVE  ProducerDone' /\ lo + Len(batch') = top
  BY <1>3, DoneIsDone DEF ProducerDone
<1>4. CASE main' = main /\ error' = error /\ current' = current /\ sequence' = sequence
  BY <1>1, <1>2, <1>3, <1>4 DEF MainHasAll, Open, ProducerDone
<1>5. CASE main' \in {"ask", "await", "forward", "handling", "unwind", "over"}
  BY <1>5 DEF MainHasAll
<1>6. CASE MainPop /\ main' = "finish"
  <2>1. /\ Pending = <<>> /\ queue["pending"].status = "Closed" /\ current = <<>>
        /\ error = "none" /\ current' = current /\ error' = error
    <3>1. queue["pending"].status \in Statuses
      BY <1>0 DEF QueueTyped
    <3>2. Pending = <<>> /\ ~Open("pending") /\ Ended("pending") # "cancelled"
          /\ current' = current /\ error' = error
      BY <1>6 DEF MainPop, AtEnd, Pending, Throw
    <3>3. current = <<>> /\ error = "none"
      BY <1>0, <1>6 DEF MainPop, MainHasAll, MainIsSound, Normal
    <3>. QED  BY <3>1, <3>2, <3>3 DEF Open, Ended, Statuses
  <2>2. ProducerDone
    BY <2>1 DEF ProducerHasAll
  <2>3. lo + Len(batch) = top
    <3>1. from[1] = lo + Len(current) /\ Len(current) = 0
      BY <2>1 DEF MainIsInFront
    <3>2. from[Len(Pending) + 1] + Len(batch) = top /\ Len(Pending) + 1 = 1
      BY <2>1 DEF BatchFollows
    <3>. QED  BY <3>1, <3>2
  <2>. QED  BY <1>3, <1>6, <2>1, <2>2, <2>3 DEF MainHasAll, ProducerDone
<1>7. CASE Finish
  <2>1. CASE main' = "join"
    BY <1>3, <1>7, <2>1 DEF Finish, MainHasAll, ProducerDone
  <2>. QED  BY <1>5, <1>7, <2>1 DEF Finish, SendMessage, Throw
<1>8. CASE Handle
  <2>1. error' # "none"
    BY <1>0, <1>8 DEF Handle, MainIsSound
  <2>2. main' \in {"handling", "join"}
    BY <1>8 DEF Handle
  <2>. QED  BY <2>1, <2>2 DEF MainHasAll
<1>9. CASE JoinProducer
  <2>1. CASE error = "none" /\ producer = "ok"
    <3>1. batch = <<>> /\ top = found /\ ~Open("traversal")
      BY <2>1 DEF ProducerHasAll
    <3>2. lo + Len(batch) = top /\ main' = "future"
      BY <1>9, <2>1 DEF JoinProducer, MainHasAll
    <3>3. lo = found
      BY <3>1, <3>2
    <3>. QED  BY <1>1, <3>1, <3>2, <3>3 DEF MainHasAll, Open
  <2>2. CASE ~(error = "none" /\ producer = "ok")
    BY <1>5, <1>9, <2>2 DEF JoinProducer
  <2>. QED  BY <2>1, <2>2
<1>10. CASE AwaitTraverser
  <2>1. CASE traverser = "ok"
    <3>1. found = Entries /\ lo = found /\ sequence = UpTo(lo)
      BY <1>10, <2>1 DEF AwaitTraverser, IInv, BatchGrows, MainHasAll, CurrentFollows
    <3>2. main' = "rest" /\ sequence' = sequence
      BY <1>10, <2>1 DEF AwaitTraverser
    <3>. QED  BY <1>2, <3>1, <3>2 DEF MainHasAll
  <2>2. CASE traverser # "ok"
    BY <1>5, <1>10, <2>2 DEF AwaitTraverser
  <2>. QED  BY <2>1, <2>2
<1>11. CASE MainPop /\ main' # "finish"
  BY <1>5, <1>11 DEF MainPop, Throw
<1>12. CASE Ask \/ Await \/ Unwind \/ Conclude
  BY <1>5, <1>12 DEF Ask, Await, SendMessage, Throw, Unwind, Conclude
<1>13. CASE ~MainStep
  BY <1>4, <1>13
  DEF Next, vars, Finished, Traverse, ProducerStep, ProducerPop, ProducerAtEnd, ProducerPush,
      ProducerClose, RestStep, RestTake, Emit, RestEnds, RestFailure, GuardCloses, Receive,
      ReceiverFails, Lose, Cancel, CancelSlot, senderVars
<1>14. CASE Forward
  <2>1. \/ main' \in {"forward", "handling"}
        \/ main' = "pop" /\ current' = <<>>
    BY <1>14 DEF Forward, Throw
  <2>. QED  BY <2>1 DEF MainHasAll
<1>. QED  BY <1>6, <1>7, <1>8, <1>9, <1>10, <1>11, <1>12, <1>13, <1>14 DEF MainStep

(* An error of the main thread is never forgotten.                         *)
LEMMA ErrorStays ==
  ASSUME MainIsSound, CountersTyped, [Next]_vars, error # "none"
  PROVE  error' # "none"
<1>1. main \notin Normal
  BY DEF MainIsSound
<1>2. CASE MainStep
  BY <1>1, <1>2
  DEF MainStep, MainPop, Ask, Await, Forward, Finish, Handle, JoinProducer, AwaitTraverser, Unwind,
      Conclude, Normal
<1>3. CASE ~MainStep
  BY <1>3
  DEF Next, vars, Finished, Traverse, ProducerStep, ProducerPop, ProducerAtEnd, ProducerPush,
      ProducerClose, RestStep, RestTake, Emit, RestEnds, RestFailure, GuardCloses, Receive,
      ReceiverFails, Lose, Cancel, CancelSlot, senderVars
<1>. QED  BY <1>2, <1>3

(* The part of TypeOK about single values.                                 *)
LEMMA CountersAreTyped ==
  ASSUME TypeOK
  PROVE  CountersTyped
BY DEF TypeOK, CountersTyped

(* The main thread stays in front of pending as long as it met no error.   *)
LEMMA MainIsInFrontKept ==
  ASSUME IInv, [Next]_vars, NEW lo \in 0 .. Entries, NEW from \in Starts, MainIsInFront(lo, from),
         NEW to \in 0 .. Entries, NEW next \in Starts,
         error' = "none" /\ error = "none" /\ from[1] = lo + Len(current) => next[1] = to + Len(current')
  PROVE  MainIsInFront(to, next)'
<1>1. error' = "none" => error = "none"
  BY ErrorStays, CountersAreTyped DEF IInv
<1>2. queue'["pending"].status # "Abandoned" => queue["pending"].status # "Abandoned"
  BY QueuesGoOnward DEF Onward, Open, Queues
<1>. QED  BY <1>1, <1>2 DEF MainIsInFront

(* The chain from its links, after a step.                                 *)
LEMMA ChainFrom ==
  ASSUME NEW lo \in 0 .. Entries, NEW top \in 0 .. Entries, NEW from \in Starts,
         CurrentFollows(lo)', PendingFollows(from)', BatchFollows(top, from)', TraversedFollows(top)',
         MainIsInFront(lo, from)', ProducerHasAll(top)', MainHasAll(lo, top)'
  PROVE  Chain'
<1>1. Starts' = Starts
  BY DEF Starts
<1>. QED  BY <1>1 DEF Chain

(* No step of anybody breaks the chain of entries from the traverser to    *)
(* the main thread.                                                        *)
LEMMA ChainKept ==
  ASSUME IInv, [Next]_vars
  PROVE  Chain'
<1>1. PICK lo \in 0 .. Entries, top \in 0 .. Entries, from \in Starts :
        /\ CurrentFollows(lo) /\ PendingFollows(from) /\ BatchFollows(top, from)
        /\ TraversedFollows(top) /\ MainIsInFront(lo, from) /\ ProducerHasAll(top)
        /\ MainHasAll(lo, top)
  BY DEF IInv, Chain
<1>2. /\ QueueTyped /\ "pending" \in Queues /\ "traversal" \in Queues /\ "filtered" \in Queues
      /\ Pending \in Seq(Seq(Entry)) /\ Traversed \in Seq(Entry)
      /\ batch \in Seq(Entry) /\ current \in Seq(Entry) /\ MainIsSound
  BY DEF IInv, QueueTyped, TypeOK, Queues
<1>3. ProducerHasAll(top)'
  BY <1>1, ProducerHasAllKept
<1>4. MainHasAll(lo, top)'
  BY <1>1, MainHasAllKept
<1>5. ASSUME Pending' = Pending, batch' = batch, current' = current, sequence' = sequence,
             MainHasAll(lo, top)'
      PROVE  Chain'
  <2>1. CurrentFollows(lo)'
    BY <1>1, <1>5, CurrentSame
  <2>2. PendingFollows(from)' /\ BatchFollows(top, from)'
    BY <1>1, <1>5, LinksSame
  <2>3. TraversedFollows(top)'
    BY <1>1, <1>5, TraversedKept
  <2>4. MainIsInFront(lo, from)'
    BY <1>1, <1>5, MainIsInFrontKept
  <2>. QED  BY <1>1, <1>3, <1>5, <2>1, <2>2, <2>3, <2>4, ChainFrom
<1>6. CASE ProducerPush
  <2>0. current' = current /\ sequence' = sequence /\ ~ProducerPop
    BY <1>6 DEF ProducerPush, ProducerPop
  <2>1. CASE queue' = Pushed("pending", batch) /\ batch' = <<>>
    <3>1. Pending' = Append(Pending, batch)
      BY <1>2, <2>1, PushedIs DEF Pending, Items
    <3>2. PICK next \in Starts : PendingFollows(next)' /\ BatchFollows(top, next)' /\ next[1] = from[1]
      BY <1>1, <1>2, <2>1, <3>1, LinksPushed
    <3>3. CurrentFollows(lo)'
      BY <1>1, <2>0, CurrentSame
    <3>4. TraversedFollows(top)'
      BY <1>1, <2>0, TraversedKept
    <3>5. MainIsInFront(lo, next)'
      BY <1>1, <2>0, <3>2, MainIsInFrontKept
    <3>. QED  BY <1>1, <1>3, <1>4, <2>0, <3>2, <3>3, <3>4, <3>5, ChainFrom
  <2>2. CASE queue' = Closed("pending") /\ batch' = batch
    <3>1. Pending' = Pending
      BY <1>2, <2>2, ClosedIs DEF Pending, Items
    <3>. QED  BY <1>4, <1>5, <2>0, <2>2, <3>1
  <2>. QED  BY <1>6, <2>1, <2>2 DEF ProducerPush, ProducerEnds
<1>7. CASE ProducerPop
  <2>0. current' = current /\ sequence' = sequence /\ Traversed # <<>> /\ producer = "pop"
    BY <1>7 DEF ProducerPop, Traversed
  <2>1. Pending' = Pending
    <3>1. CASE queue' = Popped("traversal")
      BY <1>2, <3>1, PoppedIs DEF Pending, Items
    <3>2. CASE queue' = [Popped("traversal") EXCEPT !["pending"] = Closed("pending")["pending"]]
      BY <1>2, <3>2, PoppedAndClosedIs DEF Pending, Items
    <3>. QED  BY <1>7, <3>1, <3>2 DEF ProducerPop
  <2>2. CASE batch' = batch
    BY <1>4, <1>5, <2>0, <2>1, <2>2
  <2>3. CASE batch' = Append(batch, Head(Traversed))
    <3>1. Traversed' = Tail(Traversed) /\ found' = found
      <4>1. CASE queue' = Popped("traversal")
        BY <1>2, <1>7, <4>1, PoppedIs DEF ProducerPop, Traversed, Items
      <4>2. CASE queue' = [Popped("traversal") EXCEPT !["pending"] = Closed("pending")["pending"]]
        BY <1>2, <1>7, <4>2, PoppedAndClosedIs DEF ProducerPop, Traversed, Items
      <4>. QED  BY <1>7, <4>1, <4>2 DEF ProducerPop
    <3>2. TraversedFollows(top + 1)' /\ Head(Traversed) = top + 1 /\ top + 1 \in 0 .. Entries
      <4>1. queue["traversal"].status # "Abandoned"
        BY <1>2, <2>0 DEF IInv, AbandonedIsEmpty, Traversed
      <4>. QED  BY <1>1, <2>0, <3>1, <4>1, TraversedTaken
    <3>3. PendingFollows(from)' /\ BatchFollows(top + 1, from)'
      BY <1>1, <1>2, <2>1, <2>3, <3>2, LinksGrown
    <3>4. CurrentFollows(lo)'
      BY <1>1, <2>0, CurrentSame
    <3>5. MainIsInFront(lo, from)'
      BY <1>1, <2>0, MainIsInFrontKept
    <3>6. batch' # batch
      <4>1. Len(batch') = Len(batch) + 1 /\ Len(batch) \in Nat
        BY <1>2, <2>3, <3>2
      <4>2. batch' = batch => Len(batch') = Len(batch)
        OBVIOUS
      <4>3. PICK n \in Nat : n = Len(batch)
        BY <4>1
      <4>4. n + 1 # n
        OBVIOUS
      <4>. QED  BY <4>1, <4>2, <4>3, <4>4, Zenon
    <3>7. producer' \in {"pop", "push"}
      BY <1>7, <3>6 DEF ProducerPop
    <3>8. ProducerHasAll(top + 1)'
      BY <1>3, <3>7 DEF ProducerHasAll
    <3>9. MainHasAll(lo, top + 1)'
      BY <1>4, <2>0, <3>7 DEF MainHasAll, ProducerDone
    <3>. QED  BY <1>1, <3>2, <3>3, <3>4, <3>5, <3>8, <3>9, ChainFrom
  <2>. QED  BY <1>7, <2>2, <2>3 DEF ProducerPop, Traversed
<1>8. CASE MainPop
  <2>0. batch' = batch /\ sequence' = sequence /\ ~ProducerPop /\ main = "pop"
        /\ error = "none"
    BY <1>2, <1>8 DEF MainPop, ProducerPop, MainIsSound, Normal
  <2>1. CASE queue' = queue /\ current' = current
    BY <1>4, <1>5, <2>0, <2>1 DEF Pending, Items
  <2>2. CASE Pending # <<>> /\ queue' = Popped("pending")
    <3>1. Pending' = Tail(Pending)
      BY <1>2, <2>2, PoppedIs DEF Pending, Items
    <3>2. PICK next \in Starts : /\ PendingFollows(next)' /\ BatchFollows(top, next)'
                                 /\ next[1] = from[1] + Len(Head(Pending))
      BY <1>1, <1>2, <2>0, <2>2, <3>1, LinksPopped
    <3>3. TraversedFollows(top)'
      BY <1>1, <2>0, TraversedKept
    <3>4. current = <<>> /\ from[1] = lo
      <4>1. current = <<>> /\ Len(<<>>) = 0
        BY <1>1, <2>0 DEF MainHasAll
      <4>2. queue["pending"].status # "Abandoned"
        BY <1>2, <2>2 DEF IInv, AbandonedIsEmpty, Pending
      <4>. QED  BY <1>1, <2>0, <4>1, <4>2 DEF MainIsInFront
    <3>5. CASE current' = Head(Pending) /\ error' = error
      <4>1. CurrentFollows(lo)'
        BY <1>1, <2>0, <2>2, <3>4, <3>5, CurrentTaken
      <4>2. MainIsInFront(lo, next)'
        BY <1>1, <3>2, <3>4, <3>5, MainIsInFrontKept
      <4>. QED  BY <1>1, <1>3, <1>4, <2>0, <3>2, <3>3, <4>1, <4>2, ChainFrom
    <3>6. CASE current' = current /\ Throw("cancelled")
      <4>1. CurrentFollows(lo)'
        BY <1>1, <2>0, <3>6, CurrentSame
      <4>2. MainIsInFront(lo, next)'
        BY <3>6 DEF MainIsInFront, Throw
      <4>. QED  BY <1>1, <1>3, <1>4, <2>0, <3>2, <3>3, <4>1, <4>2, ChainFrom
    <3>. QED  BY <1>8, <2>2, <3>5, <3>6 DEF MainPop, Pending, AtEnd, Items
  <2>. QED  BY <1>8, <2>1, <2>2 DEF MainPop, Pending
<1>9. CASE Forward
  <2>0. /\ batch' = batch /\ ~ProducerPop /\ ~MainPop
    BY <1>9 DEF Forward, ProducerPop, MainPop
  <2>1. Pending' = Pending
    <3>1. CASE queue' = queue
      BY <3>1 DEF Pending, Items
    <3>2. CASE queue' = Pushed("filtered", Renumbered(Head(current)))
      BY <1>2, <3>2, PushedIs DEF Pending, Items
    <3>. QED  BY <1>9, <3>1, <3>2 DEF Forward
  <2>2. CASE current' = current /\ sequence' = sequence /\ (current # <<>> => main' = "handling")
    <3>1. MainHasAll(lo, top)'
      BY <1>9, <2>2 DEF MainHasAll, Forward, Throw
    <3>. QED  BY <1>5, <2>0, <2>1, <2>2, <3>1
  <2>3. CASE current # <<>> /\ current' = Tail(current) /\ main' = "forward"
    <3>1. lo + 1 \in 0 .. Entries /\ CurrentFollows(lo + 1)'
      BY <1>1, <1>9, <2>3, CurrentForwarded
    <3>2. PendingFollows(from)' /\ BatchFollows(top, from)'
      BY <1>1, <2>0, <2>1, LinksSame
    <3>3. TraversedFollows(top)'
      BY <1>1, <2>0, TraversedKept
    <3>4. MainIsInFront(lo + 1, from)'
      <4>1. (lo + 1) + Len(current') = lo + Len(current)
        <5>1. Len(Tail(current)) = Len(current) - 1 /\ Len(current) \in Nat
          BY <1>2, <2>3
        <5>. QED  BY <2>3, <5>1
      <4>. QED  BY <1>1, <3>1, <4>1, MainIsInFrontKept
    <3>5. MainHasAll(lo + 1, top)'
      BY <2>3 DEF MainHasAll
    <3>. QED  BY <1>1, <1>3, <3>1, <3>2, <3>3, <3>4, <3>5, ChainFrom
  <2>. QED  BY <1>9, <2>2, <2>3 DEF Forward, Throw
<1>10. CASE (Handle \/ CancelSlot) /\ ~ProducerPush /\ ~ProducerPop /\ ~MainPop /\ ~Forward
  <2>0. /\ current' = current /\ sequence' = sequence /\ batch' = batch
    BY <1>10 DEF Handle, CancelSlot, senderVars
  <2>1. CASE Pending' = Pending
    BY <1>4, <1>5, <2>0, <2>1
  <2>2. CASE Pending' = <<>> /\ queue'["pending"].status = "Abandoned"
    <3>1. PICK next \in Starts : PendingFollows(next)' /\ BatchFollows(top, next)'
      BY <1>1, <1>2, <2>0, <2>2, LinksDropped
    <3>2. CurrentFollows(lo)'
      BY <1>1, <2>0, CurrentSame
    <3>3. TraversedFollows(top)'
      BY <1>1, <2>0, TraversedKept
    <3>4. MainIsInFront(lo, next)'
      BY <2>2 DEF MainIsInFront
    <3>. QED  BY <1>1, <1>3, <1>4, <2>0, <3>1, <3>2, <3>3, <3>4, ChainFrom
  <2>. QED  BY <1>10, <2>0, <2>1, <2>2, PendingSteps
<1>11. CASE ~ProducerPush /\ ~ProducerPop /\ ~MainPop /\ ~Forward /\ ~Handle /\ ~CancelSlot
  <2>1. Pending' = Pending
    BY <1>11, PendingSteps
  <2>2. batch' = batch /\ current' = current /\ sequence' = sequence
    BY <1>11
    DEF Next, vars, Finished, Traverse, ProducerStep, ProducerAtEnd, ProducerClose, ProducerEnds,
        MainStep, Ask, Await, Finish, JoinProducer, AwaitTraverser, Unwind, Conclude, RestStep,
        RestTake, Emit, RestEnds, RestFailure, GuardCloses, Receive, ReceiverFails, Lose, Cancel,
        senderVars
  <2>. QED  BY <1>4, <1>5, <1>11, <2>1, <2>2
<1>. QED  BY <1>6, <1>7, <1>8, <1>9, <1>10, <1>11

(***************************************************************************)
(* The question and its answer.                                            *)
(***************************************************************************)
(* A message that asks nothing changes no question; the first message goes *)
(* first.                                                                  *)
LEMMA RequestsOf ==
  ASSUME NEW m \in Messages, requests \in Seq(Messages)
  PROVE  /\ requests' = Append(requests, m) =>
              /\ requests' \in Seq(Messages)
              /\ m.type # "infos" => Questions' = Questions
         /\ requests # <<>> /\ requests' = Tail(requests) =>
              /\ requests' \in Seq(Messages)
              /\ \A i \in Questions' : i + 1 \in Questions
              /\ Head(requests).type = "infos" => 1 \in Questions
              /\ Questions = DOMAIN requests => Questions' = DOMAIN requests'
<1>1. ASSUME requests' = Append(requests, m)
      PROVE  requests' \in Seq(Messages) /\ (m.type # "infos" => Questions' = Questions)
  <2>1. /\ DOMAIN requests = 1 .. Len(requests) /\ Len(requests) \in Nat
        /\ DOMAIN requests' = 1 .. Len(requests) + 1 /\ requests' \in Seq(Messages)
        /\ requests'[Len(requests) + 1] = m
        /\ \A i \in 1 .. Len(requests) : requests'[i] = requests[i]
    BY <1>1
  <2>2. \A i \in 1 .. Len(requests) + 1 : i \in 1 .. Len(requests) \/ i = Len(requests) + 1
    BY <2>1
  <2>3. 1 .. Len(requests) \subseteq 1 .. Len(requests) + 1
    BY <2>1
  <2>. QED  BY <2>1, <2>2, <2>3, Zenon DEF Questions
<1>2. ASSUME requests # <<>>, requests' = Tail(requests)
      PROVE  /\ requests' \in Seq(Messages)
             /\ \A i \in Questions' : i + 1 \in Questions
             /\ Head(requests).type = "infos" => 1 \in Questions
             /\ Questions = DOMAIN requests => Questions' = DOMAIN requests'
  <2>1. /\ requests' \in Seq(Messages) /\ Head(requests) = requests[1] /\ 1 \in DOMAIN requests
        /\ \A i \in DOMAIN requests' : i + 1 \in DOMAIN requests /\ requests'[i] = requests[i + 1]
    BY <1>2, EmptySeq
  <2>. QED  BY <2>1 DEF Questions
<1>. QED  BY <1>1, <1>2

(* What the main thread sends are messages.                                *)
LEMMA MessagesAre ==
  ASSUME TypeOK
  PROVE  /\ Message("infos", Infos(current)) \in Messages
         /\ Message("infoEnd", {}) \in Messages /\ Message("transportEnd", {}) \in Messages
<1>1. current \in Seq(Entry)
  BY DEF TypeOK
<1>2. Infos(current) \subseteq Entry
  BY <1>1 DEF Infos, ToSet
<1>. QED  BY <1>2 DEF Message, Messages

(* The questions are among the requests.                                   *)
LEMMA QuestionsSame ==
  ASSUME requests' = requests
  PROVE  Questions' = Questions
BY DEF Questions

(* There is never more than one question or answer on its way.             *)
LEMMA OneQuestionKept ==
  ASSUME IInv, [Next]_vars
  PROVE  OneQuestion'
<1>1. /\ OneQuestion /\ requests \in Seq(Messages) /\ answers \in Seq(SUBSET Entry)
      /\ Messages' = Messages /\ (SUBSET Entry)' = SUBSET Entry
  BY DEF IInv, OneQuestion, Messages, Entry
<1>2. /\ Message("infos", Infos(current)) \in Messages
      /\ Message("infoEnd", {}) \in Messages /\ Message("transportEnd", {}) \in Messages
  BY MessagesAre DEF IInv
<1>3. ASSUME requests' = requests, answers' = answers,
             main' \in {"pop", "ask", "forward", "finish"} => main \in {"pop", "ask", "forward", "finish"},
             main' = "await" => main = "await"
      PROVE  OneQuestion'
  BY <1>1, <1>3, QuestionsSame DEF OneQuestion
<1>4. CASE Ask
  <2>1. CASE main' = "handling" /\ requests' = requests
    BY <1>3, <1>4, <2>1 DEF Ask
  <2>2. CASE main' = "await" /\ requests' = Append(requests, Message("infos", Infos(current)))
    <3>1. requests = <<>> /\ answers = <<>> /\ answers' = answers
      BY <1>1, <1>4 DEF Ask, OneQuestion
    <3>2. requests' = <<Message("infos", Infos(current))>>
      BY <2>2, <3>1
    <3>3. requests' \in Seq(Messages) /\ DOMAIN requests' = {1}
          /\ requests'[1] = Message("infos", Infos(current))
      BY <1>2, <3>2
    <3>4. Questions' = {1}
      BY <3>3 DEF Questions, Message
    <3>. QED  BY <1>1, <2>2, <3>1, <3>3, <3>4 DEF OneQuestion
  <2>. QED  BY <1>4, <2>1, <2>2 DEF Ask, SendMessage, Throw
<1>5. CASE Await
  <2>1. CASE answers # <<>> /\ answers' = Tail(answers) /\ main' = "forward" /\ requests' = requests
    <3>1. Len(answers) = 1 /\ Questions = {}
      BY <1>1, <2>1 DEF OneQuestion
    <3>2. answers' = <<>>
      BY <1>1, <2>1, <3>1
    <3>3. requests = <<>>
      <4>1. DOMAIN requests = {}
        BY <1>1, <1>5, <3>1 DEF Await, OneQuestion
      <4>. QED  BY <1>1, <4>1, EmptySeq
    <3>4. Questions' = {}
      BY <2>1, <3>1, QuestionsSame
    <3>. QED  BY <1>1, <2>1, <3>2, <3>3, <3>4, EmptySeq DEF OneQuestion
  <2>. QED  BY <1>3, <1>5, <2>1 DEF Await, Throw
<1>6. CASE Finish \/ Conclude
  <2>1. main' \notin {"pop", "ask", "forward", "finish", "await"} /\ answers' = answers
    BY <1>6 DEF Finish, Conclude, SendMessage, Throw
  <2>2. requests' \in Seq(Messages) /\ Questions' = Questions
    <3>1. CASE requests' = requests
      BY <1>1, <3>1, QuestionsSame
    <3>2. CASE requests' = Append(requests, Message("infoEnd", {}))
      <4>1. Message("infoEnd", {}).type # "infos"
        BY DEF Message
      <4>. QED  BY <1>1, <1>2, <3>2, <4>1, RequestsOf
    <3>3. CASE requests' = Append(requests, Message("transportEnd", {}))
      <4>1. Message("transportEnd", {}).type # "infos"
        BY DEF Message
      <4>. QED  BY <1>1, <1>2, <3>3, <4>1, RequestsOf
    <3>. QED  BY <1>6, <3>1, <3>2, <3>3 DEF Finish, Conclude, SendMessage
  <2>. QED  BY <1>1, <2>1, <2>2 DEF OneQuestion
<1>7. CASE Receive
  <2>1. requests # <<>> /\ requests' = Tail(requests) /\ main' = main
    BY <1>7 DEF Receive, senderVars
  <2>2. /\ requests' \in Seq(Messages)
        /\ \A i \in Questions' : i + 1 \in Questions
        /\ Head(requests).type = "infos" => 1 \in Questions
        /\ Questions = DOMAIN requests => Questions' = DOMAIN requests'
    BY <1>1, <1>2, <2>1, RequestsOf
  <2>3. Questions' = {}
    <3>1. Questions' \subseteq Nat \ {0}
      BY <2>2 DEF Questions
    <3>2. ASSUME NEW i \in Questions' PROVE FALSE
      <4>1. i + 1 \in Questions /\ i + 1 # 1
        BY <2>2, <3>1, <3>2
      <4>. QED  BY <1>1, <4>1 DEF OneQuestion
    <3>. QED  BY <3>2
  <2>4. main \notin {"pop", "ask", "forward", "finish"}
    BY <1>1, <2>1 DEF OneQuestion
  <2>5. CASE Head(requests).type = "infos"
    <3>1. answers = <<>>
      BY <1>1, <2>2, <2>5 DEF OneQuestion
    <3>2. Head(requests) \in Messages
      BY <1>1, <2>1
    <3>3. Answer(Head(requests).infos) \in SUBSET Entry
      BY <3>2 DEF Answer, Messages
    <3>4. answers' = Append(answers, Answer(Head(requests).infos))
      BY <1>7, <2>5 DEF Receive, Asked
    <3>5. answers' \in Seq(SUBSET Entry) /\ Len(answers') = 1
      BY <3>1, <3>3, <3>4
    <3>. QED  BY <1>1, <2>1, <2>2, <2>3, <2>4, <3>5 DEF OneQuestion
  <2>6. CASE Head(requests).type # "infos"
    <3>1. answers' = answers
      BY <1>7, <2>6 DEF Receive, Asked
    <3>. QED  BY <1>1, <2>1, <2>2, <2>3, <2>4, <3>1 DEF OneQuestion
  <2>. QED  BY <2>5, <2>6
<1>8. CASE ~Ask /\ ~Await /\ ~Finish /\ ~Conclude /\ ~Receive
  <2>1. requests' = requests /\ answers' = answers
    BY <1>8
    DEF Next, vars, Finished, Traverse, ProducerStep, ProducerPop, ProducerAtEnd, ProducerPush,
        ProducerClose, MainStep, MainPop, Forward, Handle, JoinProducer, AwaitTraverser, Unwind,
        RestStep, RestTake, Emit, RestEnds, RestFailure, GuardCloses, ReceiverFails, Lose, Cancel,
        CancelSlot, linkVars
  <2>2. main' = main \/ main \in {"pop", "forward"}
        \/ main' \notin {"pop", "ask", "forward", "finish", "await"}
    BY <1>8
    DEF Next, vars, Finished, Traverse, ProducerStep, ProducerPop, ProducerAtEnd, ProducerPush,
        ProducerClose, MainStep, MainPop, Forward, Handle, JoinProducer, AwaitTraverser, Unwind,
        RestStep, RestTake, Emit, RestEnds, RestFailure, GuardCloses, ReceiverFails, Lose, Cancel,
        CancelSlot, senderVars
  <2>3. main' # "await" \/ main = "await"
    BY <1>8
    DEF Next, vars, Finished, Traverse, ProducerStep, ProducerPop, ProducerAtEnd, ProducerPush,
        ProducerClose, MainStep, MainPop, Forward, Handle, JoinProducer, AwaitTraverser, Unwind,
        RestStep, RestTake, Emit, RestEnds, RestFailure, GuardCloses, ReceiverFails, Lose, Cancel,
        CancelSlot, senderVars, Throw
  <2>. QED  BY <1>3, <2>1, <2>2, <2>3
<1>. QED  BY <1>4, <1>5, <1>6, <1>7, <1>8

(* What is asked about a batch, and the answer, depend on the scenario     *)
(* only.                                                                   *)
LEMMA RigidLater ==
  ASSUME scenario' = scenario, NEW s, NEW e
  PROVE  Infos(s)' = Infos(s) /\ Answer(s)' = Answer(s) /\ (Regular(e)' <=> Regular(e))
BY DEF Infos, Answer, Regular, Differs

(* A batch without a file is all wanted; of another what the receiver      *)
(* answers tells.                                                          *)
LEMMA ChosenAreWanted ==
  ASSUME NEW b \in Seq(Entry), NEW answer, NEW i \in DOMAIN b,
         \/ Infos(b) = {} /\ answer = {}
         \/ answer = Answer(Infos(b))
  PROVE  (~Regular(b[i]) \/ b[i] \in answer) <=> b[i] \in Wanted
<1>1. b[i] \in Entry /\ b[i] \in ToSet(b)
  BY DEF ToSet
<1>2. b[i] \in Infos(b) <=> Regular(b[i])
  BY <1>1 DEF Infos
<1>3. b[i] \in Wanted <=> ~Regular(b[i]) \/ Differs(b[i])
  BY <1>1 DEF Wanted
<1>4. b[i] \in Answer(Infos(b)) <=> Regular(b[i]) /\ Differs(b[i])
  BY <1>2 DEF Answer
<1>. QED  BY <1>2, <1>3, <1>4, Zenon

(* The answer the main thread uses is the one to its batch.                *)
LEMMA AnswerFitsKept ==
  ASSUME IInv, [Next]_vars
  PROVE  AnswerFits'
<1>1. /\ AnswerFits /\ OneQuestion /\ scenario' = scenario /\ Wanted' = Wanted
      /\ current \in Seq(Entry) /\ Pending \in Seq(Seq(Entry))
      /\ requests \in Seq(Messages) /\ answers \in Seq(SUBSET Entry)
  BY ScenarioFixed, UpToLater DEF IInv, TypeOK, QueueTyped, OneQuestion
<1>2. ASSUME main' # "await", main' # "forward"
      PROVE  AnswerFits'
  BY <1>2 DEF AnswerFits
<1>3. CASE MainPop
  <2>1. main' # "await"
    BY <1>3 DEF MainPop, Throw
  <2>2. CASE main' = "forward"
    <3>1. Pending # <<>> /\ current' = Head(Pending) /\ differing' = {}
      BY <1>3, <2>2 DEF MainPop, Throw, Pending
    <3>2. Infos(current') = {}
      BY <1>3, <2>2 DEF MainPop, Throw
    <3>3. PICK b \in Seq(Entry) : b = current'
      <4>1. Head(Pending) \in Seq(Entry)
        BY <1>1, <3>1, EmptySeq
      <4>. QED  BY <3>1, <4>1
    <3>4. \A i \in DOMAIN b : (~Regular(b[i]) \/ b[i] \in {}) <=> b[i] \in Wanted
      BY <3>2, <3>3, ChosenAreWanted
    <3>5. \A i \in DOMAIN current' : Chosen(current[i])' <=> (current[i] \in Wanted)'
      BY <1>1, <3>1, <3>3, <3>4 DEF Chosen, Regular
    <3>. QED  BY <2>2, <3>5 DEF AnswerFits
  <2>. QED  BY <1>2, <2>1, <2>2
<1>4. CASE Ask
  <2>1. CASE main' = "await"
    <3>1. requests = <<>> /\ answers = <<>> /\ answers' = answers /\ current' = current
          /\ requests' = Append(requests, Message("infos", Infos(current)))
      BY <1>1, <1>4, <2>1 DEF Ask, SendMessage, Throw, OneQuestion
    <3>2. requests' = <<Message("infos", Infos(current))>>
      BY <3>1
    <3>3. \A i \in DOMAIN requests' : requests'[i] = Message("infos", Infos(current))
      BY <3>2
    <3>4. \A i \in Questions' : requests'[i].infos = Infos(current)'
      BY <1>1, <3>1, <3>3 DEF Questions, Message, Infos, Regular
    <3>. QED  BY <2>1, <3>1, <3>4 DEF AnswerFits
  <2>. QED  BY <1>2, <1>4, <2>1 DEF Ask, SendMessage, Throw
<1>5. CASE Await
  <2>1. CASE main' = "forward"
    <3>1. answers # <<>> /\ differing' = Head(answers) /\ current' = current
      BY <1>5, <2>1 DEF Await, Throw
    <3>2. Head(answers) = answers[1] /\ 1 \in DOMAIN answers
      BY <1>1, <3>1, EmptySeq
    <3>3. differing' = Answer(Infos(current))
      BY <1>1, <1>5, <3>1, <3>2 DEF AnswerFits, Await
    <3>4. \A i \in DOMAIN current : (~Regular(current[i]) \/ current[i] \in differing') <=> current[i] \in Wanted
      BY <1>1, <3>3, ChosenAreWanted
    <3>5. \A i \in DOMAIN current' : Chosen(current[i])' <=> (current[i] \in Wanted)'
      BY <1>1, <3>1, <3>4 DEF Chosen, Regular
    <3>. QED  BY <2>1, <3>5 DEF AnswerFits
  <2>. QED  BY <1>2, <1>5, <2>1 DEF Await, Throw
<1>6. CASE Forward
  <2>1. CASE main' = "forward"
    <3>1. current # <<>> /\ current' = Tail(current) /\ differing' = differing
      BY <1>6, <2>1 DEF Forward, Throw
    <3>2. \A i \in DOMAIN current' : i + 1 \in DOMAIN current /\ current'[i] = current[i + 1]
      BY <1>1, <3>1, EmptySeq
    <3>3. \A i \in DOMAIN current : Chosen(current[i]) <=> current[i] \in Wanted
      BY <1>1, <1>6 DEF Forward, AnswerFits
    <3>4. \A i \in DOMAIN current' : Chosen(current'[i]) <=> current'[i] \in Wanted
      BY <3>2, <3>3
    <3>5. \A i \in DOMAIN current' : Chosen(current[i])' <=> current'[i] \in Wanted'
      BY <1>1, <3>1, <3>4 DEF Chosen, Regular
    <3>. QED  BY <2>1, <3>5 DEF AnswerFits
  <2>. QED  BY <1>2, <1>6, <2>1 DEF Forward, Throw
<1>7. CASE Receive
  <2>0. main' = main /\ current' = current /\ differing' = differing /\ requests # <<>>
        /\ requests' = Tail(requests)
    BY <1>7 DEF Receive, senderVars
  <2>1. CASE main = "await"
    <3>1. Questions = DOMAIN requests /\ 1 \in Questions /\ Questions \subseteq {1} /\ answers = <<>>
      <4>1. Questions = DOMAIN requests /\ 1 \in DOMAIN requests
        BY <1>1, <2>0, <2>1, EmptySeq DEF OneQuestion
      <4>. QED  BY <1>1, <4>1 DEF OneQuestion
    <3>2. Head(requests) = requests[1] /\ requests[1].type = "infos"
      BY <1>1, <2>0, <3>1 DEF Questions
    <3>3. requests[1].infos = Infos(current)
      BY <1>1, <2>1, <3>1 DEF AnswerFits
    <3>4. answers' = Append(answers, Answer(Infos(current)))
      BY <1>7, <3>2, <3>3 DEF Receive, Asked
    <3>5. answers' = <<Answer(Infos(current))>>
      BY <3>1, <3>4
    <3>6. \A i \in DOMAIN answers' : answers'[i] = Answer(Infos(current))
      BY <3>5
    <3>7. Questions' = {}
      <4>1. DOMAIN requests' = {}
        BY <1>1, <2>0, <3>1
      <4>. QED  BY <4>1 DEF Questions
    <3>8. Answer(Infos(current))' = Answer(Infos(current))
      BY <1>1, <2>0 DEF Infos, Answer, Regular, Differs
    <3>. QED  BY <2>0, <2>1, <3>6, <3>7, <3>8 DEF AnswerFits
  <2>2. CASE main = "forward"
    BY <1>1, <2>0, <2>2 DEF AnswerFits, Chosen, Regular
  <2>. QED  BY <1>2, <2>0, <2>1, <2>2
<1>8. CASE Finish \/ Handle \/ JoinProducer \/ AwaitTraverser \/ Unwind \/ Conclude
  BY <1>2, <1>8
  DEF Finish, Handle, JoinProducer, AwaitTraverser, Unwind, Conclude, SendMessage, Throw
<1>9. CASE ~MainStep /\ ~Receive
  <2>1. main' = main /\ current' = current /\ differing' = differing /\ requests' = requests
        /\ answers' = answers
    BY <1>9
    DEF Next, vars, Finished, Traverse, ProducerStep, ProducerPop, ProducerAtEnd, ProducerPush,
        ProducerClose, RestStep, RestTake, Emit, RestEnds, RestFailure, GuardCloses,
        ReceiverFails, Lose, Cancel, CancelSlot, senderVars, linkVars
  <2>2. Answer(Infos(current))' = Answer(Infos(current)) /\ Infos(current)' = Infos(current)
    BY <1>1, <2>1 DEF Infos, Answer, Regular, Differs
  <2>3. Questions' = Questions
    BY <2>1, QuestionsSame
  <2>4. CASE main = "await"
    BY <1>1, <2>1, <2>2, <2>3, <2>4 DEF AnswerFits
  <2>5. CASE main = "forward"
    BY <1>1, <2>1, <2>5 DEF AnswerFits, Chosen, Regular
  <2>. QED  BY <1>2, <2>1, <2>4, <2>5
<1>. QED  BY <1>3, <1>4, <1>5, <1>6, <1>7, <1>8, <1>9 DEF MainStep

(***************************************************************************)
(* The entries behind the main thread.                                     *)
(***************************************************************************)
LEMMA SeqToSet ==
  ASSUME NEW S, NEW s \in Seq(S), NEW x \in S
  PROVE  /\ ToSet(Append(s, x)) = ToSet(s) \cup {x}
         /\ s # <<>> => ToSet(s) = ToSet(Tail(s)) \cup {Head(s)} /\ Head(s) \in ToSet(s)
<1>1. ToSet(Append(s, x)) = ToSet(s) \cup {x}
  <2>1. /\ DOMAIN Append(s, x) = 1 .. Len(s) + 1 /\ DOMAIN s = 1 .. Len(s) /\ Len(s) \in Nat
        /\ Append(s, x)[Len(s) + 1] = x /\ \A i \in 1 .. Len(s) : Append(s, x)[i] = s[i]
    OBVIOUS
  <2>2. \A i \in 1 .. Len(s) + 1 : i \in 1 .. Len(s) \/ i = Len(s) + 1
    BY <2>1
  <2>3. 1 .. Len(s) \subseteq 1 .. Len(s) + 1 /\ Len(s) + 1 \in 1 .. Len(s) + 1
    BY <2>1
  <2>. QED  BY <2>1, <2>2, <2>3, Zenon DEF ToSet
<1>2. ASSUME s # <<>>
      PROVE  ToSet(s) = ToSet(Tail(s)) \cup {Head(s)} /\ Head(s) \in ToSet(s)
  <2>1. /\ DOMAIN s = 1 .. Len(s) /\ Len(s) \in Nat /\ Len(s) >= 1 /\ Head(s) = s[1]
        /\ DOMAIN Tail(s) = 1 .. Len(s) - 1 /\ \A i \in 1 .. Len(s) - 1 : Tail(s)[i] = s[i + 1]
    BY <1>2, EmptySeq
  <2>2. 1 \in DOMAIN s /\ \A i \in 1 .. Len(s) - 1 : i + 1 \in DOMAIN s
    BY <2>1
  <2>3. ASSUME NEW i \in DOMAIN s PROVE i = 1 \/ s[i] \in ToSet(Tail(s))
    <3>1. CASE i = 1
      BY <3>1
    <3>2. CASE i # 1
      <4>1. i - 1 \in DOMAIN Tail(s) /\ Tail(s)[i - 1] = s[i]
        BY <2>1, <3>2
      <4>. QED  BY <4>1 DEF ToSet
    <3>. QED  BY <3>1, <3>2
  <2>4. \A j \in DOMAIN Tail(s) : Tail(s)[j] \in ToSet(s)
    BY <2>1, <2>2 DEF ToSet
  <2>5. Head(s) \in ToSet(s)
    BY <2>1, <2>2 DEF ToSet
  <2>6. ToSet(s) \subseteq ToSet(Tail(s)) \cup {Head(s)}
    BY <2>1, <2>3 DEF ToSet
  <2>7. ToSet(Tail(s)) \subseteq ToSet(s)
    BY <2>4 DEF ToSet
  <2>. QED  BY <2>5, <2>6, <2>7
<1>. QED  BY <1>1, <1>2

(* What happens to the numbers given out: one more, one less, or nothing   *)
(* as long as nobody abandons the queue.                                   *)
OneMoreOnTheWay ==
  /\ Forward /\ current # <<>> /\ current' = Tail(current) /\ Chosen(Head(current))
  /\ Room("filtered")
  /\ OnTheWay' = OnTheWay \cup {Renumbered(Head(current))}
  /\ sequence' = sequence + 1 /\ packed' = packed

OneEmitted ==
  /\ rest = "running" /\ sequence' = sequence
  /\ \E f \in OnTheWay :
       /\ f.sequence = Len(packed) /\ packed' = Append(packed, f.entry)
       /\ OnTheWay' \subseteq OnTheWay /\ OnTheWay \subseteq OnTheWay' \cup {f}

NoneMoved ==
  /\ sequence' = sequence /\ packed' = packed /\ OnTheWay' \subseteq OnTheWay
  /\ queue'["filtered"].status # "Abandoned" => OnTheWay' = OnTheWay

(* Each step gives out one number, emits one, or neither.                  *)
LEMMA NumbersMove ==
  ASSUME IInv, [Next]_vars
  PROVE  OneMoreOnTheWay \/ OneEmitted \/ NoneMoved
<1>1. /\ QueueTyped /\ "filtered" \in Queues /\ "pending" \in Queues
      /\ Filtered \in Seq(NumberedEntry) /\ current \in Seq(Entry) /\ sequence \in 0 .. Entries
      /\ Filtered = Items("filtered")
  BY DEF IInv, TypeOK, QueueTyped, Queues, Filtered
<1>2. ASSUME sequence' = sequence, packed' = packed, arrived' = arrived, Filtered' = Filtered
      PROVE  NoneMoved
  BY <1>2 DEF NoneMoved, OnTheWay
<1>3. CASE Forward
  <2>0. packed' = packed /\ arrived' = arrived
    BY <1>3 DEF Forward, restVars
  <2>1. CASE queue' = queue /\ sequence' = sequence
    BY <1>2, <2>0, <2>1 DEF Filtered, Items
  <2>2. CASE /\ current # <<>> /\ Chosen(Head(current)) /\ Room("filtered")
             /\ queue' = Pushed("filtered", Renumbered(Head(current)))
             /\ sequence' = sequence + 1 /\ current' = Tail(current)
    <3>1. Renumbered(Head(current)) \in NumberedEntry
      <4>1. Head(current) \in Entry
        BY <1>1, <2>2, EmptySeq
      <4>. QED  BY <1>1, <4>1 DEF Renumbered, NumberedEntry
    <3>2. Filtered' = Append(Filtered, Renumbered(Head(current)))
      BY <1>1, <2>2, PushedIs DEF Filtered, Items
    <3>3. ToSet(Filtered') = ToSet(Filtered) \cup {Renumbered(Head(current))}
      BY <1>1, <3>1, <3>2, SeqToSet
    <3>4. OnTheWay' = OnTheWay \cup {Renumbered(Head(current))}
      BY <2>0, <3>3 DEF OnTheWay, ToSet
    <3>. QED  BY <1>3, <2>0, <2>2, <3>4, Zenon DEF OneMoreOnTheWay
  <2>. QED  BY <1>3, <2>1, <2>2 DEF Forward
<1>4. CASE RestTake
  <2>1. sequence' = sequence /\ packed' = packed /\ Filtered # <<>>
        /\ arrived' = arrived \cup {Head(Filtered)} /\ queue' = Popped("filtered")
    BY <1>4 DEF RestTake, senderVars, Filtered
  <2>2. Filtered' = Tail(Filtered)
    BY <1>1, <2>1, PoppedIs DEF Filtered, Items
  <2>3. ToSet(Filtered) = ToSet(Filtered') \cup {Head(Filtered)}
    <3>1. Head(Filtered) \in NumberedEntry
      BY <1>1, <2>1, EmptySeq
    <3>. QED  BY <1>1, <2>1, <2>2, <3>1, SeqToSet
  <2>4. OnTheWay' = OnTheWay
    BY <2>1, <2>3 DEF OnTheWay, ToSet
  <2>. QED  BY <2>1, <2>4 DEF NoneMoved
<1>5. CASE Emit
  <2>1. sequence' = sequence /\ rest = "running" /\ queue' = queue
    BY <1>5 DEF Emit, senderVars
  <2>2. PICK f \in arrived : /\ f.sequence = Len(packed) /\ arrived' = arrived \ {f}
                             /\ packed' = Append(packed, f.entry)
    BY <1>5 DEF Emit
  <2>3. Filtered' = Filtered
    BY <2>1 DEF Filtered, Items
  <2>4. f \in OnTheWay /\ OnTheWay' \subseteq OnTheWay /\ OnTheWay \subseteq OnTheWay' \cup {f}
    BY <2>2, <2>3 DEF OnTheWay, ToSet
  <2>. QED  BY <2>1, <2>2, <2>4 DEF OneEmitted
<1>6. CASE ~Forward /\ ~RestTake /\ ~Emit
  <2>1. sequence' = sequence /\ packed' = packed /\ arrived' = arrived
    BY <1>6
    DEF Next, vars, Finished, Traverse, ProducerStep, ProducerPop, ProducerAtEnd, ProducerPush,
        ProducerClose, MainStep, MainPop, Ask, Await, Finish, Handle, JoinProducer, AwaitTraverser,
        Unwind, Conclude, RestStep, RestEnds, RestFailure, GuardCloses, Receive, ReceiverFails, Lose,
        Cancel, CancelSlot, senderVars, restVars
  <2>2. CASE Filtered' = Filtered
    BY <1>2, <2>1, <2>2
  <2>3. CASE Filtered' = <<>> /\ queue'["filtered"].status = "Abandoned"
    <3>1. ToSet(Filtered') = {}
      BY <2>3 DEF ToSet
    <3>. QED  BY <2>1, <2>3, <3>1 DEF NoneMoved, OnTheWay, ToSet
  <2>. QED  BY <1>6, <2>2, <2>3, FilteredSteps
<1>. QED  BY <1>3, <1>4, <1>5, <1>6

(* The entries behind the main thread have their types.                    *)
LEMMA WayIsTyped ==
  ASSUME IInv
  PROVE  OnTheWay \subseteq NumberedEntry /\ packed \in Seq(Entry) /\ sequence \in 0 .. Entries
BY DEF IInv, TypeOK, OnTheWay, Filtered, NumberedEntry

(* The entry the main thread forwards is wanted, and takes its number.     *)
LEMMA ForwardedFits ==
  ASSUME IInv, [Next]_vars, OneMoreOnTheWay
  PROVE  /\ Numbered(Head(current), sequence)
         /\ Renumbered(Head(current)).entry = Head(current)
         /\ Renumbered(Head(current)).sequence = sequence
<1>1. PICK lo \in 0 .. Entries : CurrentFollows(lo)
  BY DEF IInv, Chain
<1>2. /\ Forward /\ current # <<>> /\ current' = Tail(current) /\ Chosen(Head(current))
      /\ main = "forward" /\ current \in Seq(Entry)
  BY DEF OneMoreOnTheWay, Forward, IInv, TypeOK
<1>3. Head(current) = lo + 1 /\ sequence = UpTo(lo)
  BY <1>1, <1>2, CurrentForwarded DEF CurrentFollows
<1>4. Head(current) \in Wanted
  <2>1. 1 \in DOMAIN current /\ Head(current) = current[1]
    BY <1>2, EmptySeq
  <2>. QED  BY <1>2, <2>1 DEF IInv, AnswerFits
<1>5. Head(current) - 1 = lo
  BY <1>1, <1>3
<1>. QED  BY <1>3, <1>4, <1>5 DEF Numbered, Renumbered

(* Each entry that was forwarded has the number the wanted ones in front   *)
(* of it give it.                                                          *)
LEMMA NumbersFitKept ==
  ASSUME IInv, [Next]_vars
  PROVE  NumbersFit'
<1>1. /\ NumbersFit /\ scenario' = scenario
      /\ OnTheWay \subseteq NumberedEntry /\ packed \in Seq(Entry) /\ sequence \in Nat
  BY ScenarioFixed, WayIsTyped, ComparisonAssumption DEF IInv
<1>2. \A e, n : Numbered(e, n) => Numbered(e, n)'
  BY <1>1, UpToLater DEF Numbered
<1>3. \A f \in OnTheWay : f.sequence \in Int
  BY <1>1 DEF NumberedEntry
<1>4. CASE OneMoreOnTheWay
  <2>1. /\ OnTheWay' = OnTheWay \cup {Renumbered(Head(current))}
        /\ sequence' = sequence + 1 /\ packed' = packed
    BY <1>4 DEF OneMoreOnTheWay
  <2>2. /\ Numbered(Head(current), sequence)
        /\ Renumbered(Head(current)).entry = Head(current)
        /\ Renumbered(Head(current)).sequence = sequence
    BY <1>4, ForwardedFits
  <2>3. ASSUME NEW f \in OnTheWay'
        PROVE  Numbered(f.entry, f.sequence)' /\ f.sequence < sequence'
    <3>1. CASE f \in OnTheWay
      BY <1>1, <1>2, <1>3, <2>1, <3>1 DEF NumbersFit
    <3>2. CASE f = Renumbered(Head(current))
      BY <1>1, <1>2, <2>1, <2>2, <3>2
    <3>. QED  BY <2>1, <3>1, <3>2
  <2>4. Len(packed') <= sequence'
    BY <1>1, <2>1 DEF NumbersFit
  <2>5. \A i \in DOMAIN packed' : Numbered(packed[i], i - 1)'
    BY <1>1, <1>2, <2>1 DEF NumbersFit
  <2>. QED  BY <2>3, <2>4, <2>5 DEF NumbersFit
<1>5. CASE OneEmitted
  <2>1. PICK f \in OnTheWay : /\ f.sequence = Len(packed) /\ packed' = Append(packed, f.entry)
                              /\ OnTheWay' \subseteq OnTheWay
    BY <1>5 DEF OneEmitted
  <2>2. sequence' = sequence
    BY <1>5 DEF OneEmitted
  <2>3. Numbered(f.entry, Len(packed)) /\ Len(packed) < sequence /\ f.entry \in Entry
    BY <1>1, <2>1 DEF NumbersFit, NumberedEntry
  <2>4. ASSUME NEW i \in DOMAIN packed'
        PROVE  Numbered(packed'[i], i - 1)
    <3>1. /\ Len(packed) \in Nat /\ DOMAIN packed = 1 .. Len(packed)
          /\ DOMAIN packed' = 1 .. Len(packed) + 1
      BY <1>1, <2>1, <2>3
    <3>2. CASE i \in 1 .. Len(packed)
      BY <1>1, <2>1, <3>1, <3>2 DEF NumbersFit
    <3>3. CASE i = Len(packed) + 1
      <4>1. packed'[i] = f.entry /\ i - 1 = Len(packed)
        BY <1>1, <2>1, <2>3, <3>1, <3>3
      <4>. QED  BY <2>3, <4>1
    <3>. QED  BY <3>1, <3>2, <3>3
  <2>5. \A i \in DOMAIN packed' : Numbered(packed[i], i - 1)'
    BY <1>1, <2>4, UpToLater DEF Numbered
  <2>6. Len(packed') <= sequence'
    BY <1>1, <2>1, <2>2, <2>3
  <2>. QED  BY <1>1, <1>2, <2>1, <2>2, <2>5, <2>6 DEF NumbersFit
<1>6. CASE NoneMoved
  BY <1>1, <1>2, <1>6 DEF NoneMoved, NumbersFit
<1>. QED  BY <1>4, <1>5, <1>6, NumbersMove

(* No number given out gets lost while the filtered queue is not           *)
(* abandoned.                                                              *)
LEMMA NoneMissingKept ==
  ASSUME IInv, [Next]_vars
  PROVE  NoneMissing'
<1>1. SUFFICES ASSUME queue'["filtered"].status # "Abandoned", NEW n \in Len(packed') .. sequence' - 1
               PROVE  \E f \in OnTheWay' : f.sequence = n
  BY DEF NoneMissing
<1>2. queue["filtered"].status # "Abandoned"
  <2>1. "filtered" \in Queues
    BY DEF Queues
  <2>2. Onward("filtered")
    BY <2>1, QueuesGoOnward
  <2>. QED  BY <1>1, <2>2 DEF Onward, Open
<1>3. \A k \in Len(packed) .. sequence - 1 : \E f \in OnTheWay : f.sequence = k
  BY <1>2 DEF IInv, NoneMissing
<1>4. packed \in Seq(Entry) /\ Len(packed) \in Nat /\ sequence \in Nat
      /\ OnTheWay \subseteq NumberedEntry
  BY WayIsTyped, ComparisonAssumption
<1>5. CASE OneMoreOnTheWay
  <2>1. CASE n = sequence
    BY <1>5, <2>1, ForwardedFits DEF OneMoreOnTheWay
  <2>2. CASE n # sequence
    <3>1. n \in Len(packed) .. sequence - 1
      BY <1>1, <1>4, <1>5, <2>2 DEF OneMoreOnTheWay
    <3>. QED  BY <1>3, <1>5, <3>1 DEF OneMoreOnTheWay
  <2>. QED  BY <2>1, <2>2
<1>6. CASE OneEmitted
  <2>1. PICK f \in OnTheWay : /\ f.sequence = Len(packed) /\ packed' = Append(packed, f.entry)
                              /\ OnTheWay \subseteq OnTheWay' \cup {f}
    BY <1>6 DEF OneEmitted
  <2>2. n \in Len(packed) .. sequence - 1 /\ n # Len(packed)
    <3>1. f.entry \in Entry
      BY <1>4, <2>1 DEF NumberedEntry
    <3>2. Len(packed') = Len(packed) + 1 /\ sequence' = sequence
      BY <1>4, <1>6, <2>1, <3>1 DEF OneEmitted
    <3>. QED  BY <1>1, <1>4, <3>2
  <2>3. PICK g \in OnTheWay : g.sequence = n
    BY <1>3, <2>2
  <2>. QED  BY <2>1, <2>2, <2>3
<1>7. CASE NoneMoved
  BY <1>1, <1>3, <1>7 DEF NoneMoved
<1>. QED  BY <1>5, <1>6, <1>7, NumbersMove

(* The opener has ended without an error only behind all numbers given     *)
(* out, and none is given out after it.                                    *)
LEMMA RestStaysSound ==
  ASSUME IInv, [Next]_vars
  PROVE  RestIsSound'
<1>1. /\ RestIsSound /\ QueueTyped /\ "filtered" \in Queues /\ Onward("filtered")
      /\ packed \in Seq(Entry) /\ Len(packed) \in Nat /\ sequence \in Nat
  BY QueuesGoOnward, WayIsTyped, ComparisonAssumption DEF IInv, Queues
<1>2. ASSUME rest' = rest, state' = state PROVE RestIsSound'
  <2>1. rest' = "guard" => state' # "none"
    BY <1>1, <1>2 DEF RestIsSound
  <2>2. ASSUME rest' = "done", state' = "none"
        PROVE  Len(packed') = sequence' /\ ~Open("filtered")'
    <3>1. rest = "done" /\ Len(packed) = sequence /\ ~Open("filtered")
      BY <1>1, <1>2, <2>2 DEF RestIsSound
    <3>2. ~OneMoreOnTheWay
      BY <3>1 DEF OneMoreOnTheWay, Room
    <3>3. ~OneEmitted
      BY <3>1 DEF OneEmitted
    <3>4. packed' = packed /\ sequence' = sequence
      BY <3>2, <3>3, NumbersMove DEF NoneMoved
    <3>. QED  BY <1>1, <3>1, <3>4 DEF Onward, Open
  <2>. QED  BY <2>1, <2>2 DEF RestIsSound, Open
<1>3. CASE RestEnds
  <2>1. /\ Filtered = <<>> /\ arrived = {} /\ rest' = "done" /\ queue' = queue
        /\ packed' = packed /\ sequence' = sequence /\ ~Open("filtered")
        /\ Ended("filtered") = "closed"
    BY <1>3 DEF RestEnds, AtEnd, Filtered, senderVars
  <2>2. OnTheWay = {}
    BY <2>1 DEF OnTheWay, ToSet
  <2>3. queue["filtered"].status # "Abandoned"
    BY <2>1 DEF Ended
  <2>4. ~(Len(packed) <= sequence - 1)
    <3>1. SUFFICES ASSUME Len(packed) <= sequence - 1 PROVE FALSE
      OBVIOUS
    <3>2. Len(packed) \in Len(packed) .. sequence - 1
      BY <1>1, <3>1
    <3>. QED  BY <2>2, <2>3, <3>2 DEF IInv, NoneMissing
  <2>5. Len(packed) = sequence
    BY <1>1, <2>4 DEF IInv, NumbersFit
  <2>. QED  BY <2>1, <2>5 DEF RestIsSound, Open
<1>4. CASE RestFailure
  BY <1>4 DEF RestFailure, RestFails, RestIsSound
<1>5. CASE GuardCloses
  BY <1>1, <1>5 DEF GuardCloses, RestIsSound
<1>6. CASE ~RestEnds /\ ~RestFailure /\ ~GuardCloses
  BY <1>2, <1>6
  DEF Next, vars, Finished, Traverse, ProducerStep, ProducerPop, ProducerAtEnd, ProducerPush,
      ProducerClose, MainStep, MainPop, Ask, Await, Forward, Finish, Handle, JoinProducer,
      AwaitTraverser, Unwind, Conclude, RestStep, RestTake, Emit, Receive, ReceiverFails, Lose, Cancel,
      CancelSlot, restVars
<1>. QED  BY <1>3, <1>4, <1>5, <1>6

(***************************************************************************)
(* The end of the transport.                                               *)
(***************************************************************************)
EndSaid ==
  \/ \E i \in DOMAIN requests : requests[i].type = "transportEnd"
  \/ receiver = "completed" \/ report = "completed"

(* Only the last step of a main thread that met no error says it.          *)
LEMMA EndIsSaidByConclude ==
  ASSUME IInv, [Next]_vars, EndSaid', ~EndSaid
  PROVE  Conclude /\ state = "none"
<1>1. requests \in Seq(Messages)
  BY DEF IInv, OneQuestion
<1>2. \A e : Verdict(e) # "completed"
  BY DEF Verdict
<1>3. ASSUME requests' = requests, receiver' = receiver, report' = "completed" => report = "completed"
      PROVE  FALSE
  BY <1>3 DEF EndSaid
<1>4. ASSUME NEW m \in Messages, m.type # "transportEnd", requests' = Append(requests, m),
             receiver' = receiver, report' = report
      PROVE  FALSE
  <2>1. /\ DOMAIN requests = 1 .. Len(requests) /\ Len(requests) \in Nat
        /\ DOMAIN requests' = 1 .. Len(requests) + 1
        /\ requests'[Len(requests) + 1] = m
        /\ \A i \in 1 .. Len(requests) : requests'[i] = requests[i]
    BY <1>1, <1>4
  <2>2. \A i \in 1 .. Len(requests) + 1 : i \in 1 .. Len(requests) \/ i = Len(requests) + 1
    BY <2>1
  <2>. QED  BY <1>4, <2>1, <2>2, Zenon DEF EndSaid
<1>5. CASE Receive
  <2>1. requests # <<>> /\ requests' = Tail(requests) /\ report' = report
    BY <1>5 DEF Receive, senderVars
  <2>2. /\ Head(requests) = requests[1] /\ 1 \in DOMAIN requests
        /\ \A i \in DOMAIN requests' : i + 1 \in DOMAIN requests /\ requests'[i] = requests[i + 1]
    BY <1>1, <2>1, EmptySeq
  <2>3. receiver' = receiver
    BY <1>5, <2>2 DEF Receive, EndSaid
  <2>. QED  BY <2>1, <2>2, <2>3 DEF EndSaid
<1>6. CASE Ask
  <2>1. /\ Message("infos", Infos(current)) \in Messages
        /\ Message("infos", Infos(current)).type # "transportEnd"
    BY MessagesAre DEF IInv, Message
  <2>. QED  BY <1>3, <1>4, <1>6, <2>1 DEF Ask, SendMessage
<1>7. CASE Finish
  <2>1. /\ Message("infoEnd", {}) \in Messages /\ Message("infoEnd", {}).type # "transportEnd"
    BY MessagesAre DEF IInv, Message
  <2>. QED  BY <1>3, <1>4, <1>7, <2>1 DEF Finish, SendMessage
<1>8. CASE Conclude
  BY <1>2, <1>3, <1>8 DEF Conclude
<1>9. CASE Unwind
  BY <1>2, <1>3, <1>9 DEF Unwind, linkVars
<1>10. CASE ReceiverFails
  BY <1>10 DEF ReceiverFails, senderVars, EndSaid
<1>11. CASE ~Receive /\ ~Ask /\ ~Finish /\ ~Conclude /\ ~Unwind /\ ~ReceiverFails
  BY <1>3, <1>11
  DEF Next, vars, Finished, Traverse, ProducerStep, ProducerPop, ProducerAtEnd, ProducerPush,
      ProducerClose, MainStep, MainPop, Await, Forward, Handle, JoinProducer, AwaitTraverser, RestStep,
      RestTake, Emit, RestEnds, RestFailure, GuardCloses, Lose, Cancel, CancelSlot, senderVars, linkVars
<1>. QED  BY <1>5, <1>6, <1>7, <1>8, <1>9, <1>10, <1>11

(* The end of the transport is said behind the last wanted entry only.     *)
LEMMA EndStaysTrue ==
  ASSUME IInv, [Next]_vars
  PROVE  EndIsTrue'
<1>1. SUFFICES ASSUME EndSaid'
               PROVE  (main = "over" /\ rest = "done" /\ Len(packed) = UpTo(Entries))'
  BY DEF EndIsTrue, EndSaid
<1>2. UpTo(Entries)' = UpTo(Entries)
  BY ScenarioFixed, UpToLater
<1>3. CASE EndSaid
  <2>1. main = "over" /\ rest = "done" /\ Len(packed) = UpTo(Entries)
    BY <1>3 DEF EndSaid, IInv, EndIsTrue
  <2>2. main' = main
    BY <2>1
    DEF Next, vars, Finished, Traverse, ProducerStep, ProducerPop, ProducerAtEnd, ProducerPush,
        ProducerClose, MainStep, MainPop, Ask, Await, Forward, Finish, Handle, JoinProducer,
        AwaitTraverser, Unwind, Conclude, RestStep, RestTake, Emit, RestEnds, RestFailure, GuardCloses,
        Receive, ReceiverFails, Lose, Cancel, CancelSlot, senderVars
  <2>3. rest' = rest /\ packed' = packed
    BY <2>1
    DEF Next, vars, Finished, Traverse, ProducerStep, ProducerPop, ProducerAtEnd, ProducerPush,
        ProducerClose, MainStep, MainPop, Ask, Await, Forward, Finish, Handle, JoinProducer,
        AwaitTraverser, Unwind, Conclude, RestStep, RestTake, Emit, RestEnds, RestFailure, GuardCloses,
        Receive, ReceiverFails, Lose, Cancel, CancelSlot, restVars
  <2>. QED  BY <1>2, <2>1, <2>2, <2>3
<1>4. CASE ~EndSaid
  <2>1. Conclude /\ state = "none"
    BY <1>1, <1>4, EndIsSaidByConclude
  <2>2. main = "rest" /\ rest = "done" /\ main' = "over" /\ rest' = rest /\ packed' = packed
    BY <2>1 DEF Conclude, restVars
  <2>3. Len(packed) = sequence
    BY <2>1, <2>2 DEF IInv, RestIsSound
  <2>4. sequence = UpTo(Entries)
    BY <2>2 DEF IInv, Chain, MainHasAll
  <2>. QED  BY <1>2, <2>2, <2>3, <2>4
<1>. QED  BY <1>3, <1>4

(***************************************************************************)
(* The types.                                                              *)
(***************************************************************************)
LEMMA BatchGrowsKept ==
  ASSUME IInv, [Next]_vars
  PROVE  BatchGrows'
<1>1. BatchGrows /\ found \in 0 .. Entries /\ Entries \in Nat
  BY ComparisonAssumption DEF IInv, BatchGrows
<1>2. (producer = "pop" => ~BatchFull(batch))'
  BY BatchStaysTyped
<1>3. found' \in 0 .. Entries /\ (traverser' = "ok" => found' = Entries)
  <2>1. CASE Traverse
    BY <1>1, <2>1 DEF Traverse, TraverserEnds, Ended, BatchGrows
  <2>2. CASE ~Traverse
    <3>1. found' = found /\ traverser' = traverser
      BY <2>2
      DEF Next, vars, Finished, ProducerStep, ProducerPop, ProducerAtEnd, ProducerPush,
          ProducerClose, MainStep, MainPop, Ask, Await, Forward, Finish, Handle, JoinProducer,
          AwaitTraverser, Unwind, Conclude, RestStep, RestTake, Emit, RestEnds, RestFailure,
          GuardCloses, Receive, ReceiverFails, Lose, Cancel, CancelSlot, senderVars
    <3>. QED  BY <1>1, <3>1 DEF BatchGrows
  <2>. QED  BY <2>1, <2>2
<1>. QED  BY <1>2, <1>3 DEF BatchGrows

(* The receiver asks for entries.                                          *)
LEMMA DifferingTyped ==
  ASSUME IInv, [Next]_vars
  PROVE  differing' \subseteq Entry
<1>1. differing \subseteq Entry /\ answers \in Seq(SUBSET Entry)
  BY DEF IInv, TypeOK, OneQuestion
<1>2. CASE MainPop
  BY <1>1, <1>2 DEF MainPop
<1>3. CASE Await
  BY <1>1, <1>3, EmptySeq DEF Await
<1>4. CASE ~MainPop /\ ~Await
  <2>1. differing' = differing
    BY <1>4
    DEF Next, vars, Finished, Traverse, ProducerStep, ProducerPop, ProducerAtEnd, ProducerPush,
        ProducerClose, MainStep, Ask, Forward, Finish, Handle, JoinProducer, AwaitTraverser, Unwind,
        Conclude, RestStep, RestTake, Emit, RestEnds, RestFailure, GuardCloses, Receive, ReceiverFails,
        Lose, Cancel, CancelSlot, senderVars
  <2>. QED  BY <1>1, <2>1
<1>. QED  BY <1>2, <1>3, <1>4

(* The entries behind the main thread keep their types.                    *)
LEMMA WayStaysTyped ==
  ASSUME IInv, [Next]_vars
  PROVE  OnTheWay' \subseteq NumberedEntry /\ packed' \in Seq(Entry)
<1>1. OnTheWay \subseteq NumberedEntry /\ packed \in Seq(Entry) /\ sequence \in 0 .. Entries
      /\ current \in Seq(Entry)
  BY WayIsTyped DEF IInv, TypeOK
<1>2. CASE OneMoreOnTheWay
  <2>1. current # <<>> /\ OnTheWay' = OnTheWay \cup {Renumbered(Head(current))} /\ packed' = packed
    BY <1>2 DEF OneMoreOnTheWay
  <2>2. Renumbered(Head(current)) \in NumberedEntry
    BY <1>1, <2>1, EmptySeq DEF Renumbered, NumberedEntry
  <2>. QED  BY <1>1, <2>1, <2>2
<1>3. CASE OneEmitted
  BY <1>1, <1>3 DEF OneEmitted, NumberedEntry
<1>4. CASE NoneMoved
  BY <1>1, <1>4 DEF NoneMoved
<1>. QED  BY <1>2, <1>3, <1>4, NumbersMove

(* There are no more numbers than entries.                                 *)
LEMMA SequenceTyped ==
  ASSUME Chain
  PROVE  sequence \in 0 .. Entries
<1>1. PICK lo \in 0 .. Entries : sequence = UpTo(lo)
  BY DEF Chain, CurrentFollows
<1>2. UpTo(lo) \in Nat /\ UpTo(lo) <= UpTo(Entries) /\ UpTo(Entries) <= Entries /\ UpTo(Entries) \in Nat
  <2>1. Entries \in Int /\ lo \in Int
    BY ComparisonAssumption
  <2>. QED  BY <2>1, UpToType
<1>. QED  BY <1>1, <1>2, ComparisonAssumption

(* The questions and answers, counted.                                     *)
LEMMA OneQuestionTyped ==
  ASSUME OneQuestion
  PROVE  Len(answers) + Cardinality({i \in DOMAIN requests : requests[i].type = "infos"}) <= 1
<1>1. Cardinality({}) = 0 /\ Cardinality({1}) = 1
  BY FS_EmptySet, FS_Singleton
<1>2. CASE answers = <<>> /\ Questions \subseteq {1}
  <2>1. Questions = {} \/ Questions = {1}
    BY <1>2
  <2>2. Len(answers) = 0
    BY <1>2
  <2>3. Cardinality(Questions) = 0 \/ Cardinality(Questions) = 1
    BY <1>1, <2>1
  <2>. QED  BY <2>2, <2>3 DEF Questions
<1>3. CASE Len(answers) = 1 /\ Questions = {}
  <2>1. Cardinality(Questions) = 0
    BY <1>1, <1>3
  <2>. QED  BY <1>3, <2>1 DEF Questions
<1>. QED  BY <1>2, <1>3 DEF OneQuestion

Typed ==
  /\ scenario \in Scenarios
  /\ QueueTyped /\ BatchesTyped /\ CountersTyped /\ Chain /\ BatchGrows /\ OneQuestion
  /\ OnTheWay \subseteq NumberedEntry /\ packed \in Seq(Entry) /\ differing \subseteq Entry
  /\ Len(Traversed) <= Capacity /\ Len(Pending) <= Capacity /\ Len(Filtered) <= Capacity

(* The types of all variables, from those of the parts.                    *)
LEMMA TypesFrom == Typed => TypeOK
<1>. SUFFICES ASSUME Typed PROVE TypeOK
  OBVIOUS
<1>1. \A q \in Queues : /\ queue[q].status \in {"Open", "Closed", "Abandoned"}
                        /\ Len(Items(q)) <= Capacity
  BY DEF Typed, QueueTyped, Queues, Statuses, Traversed, Pending, Filtered
<1>2. \A b \in {batch, current} \cup ToSet(Items("pending")) :
         /\ b \in Seq(Entry)
         /\ Len(b) <= EntryLimit /\ Cardinality(Infos(b)) <= InfoLimit
  BY DEF Typed, BatchesTyped, BatchTyped, Pending, ToSet
<1>3. ToSet(Items("traversal")) \subseteq Entry
  BY DEF Typed, QueueTyped, Traversed, ToSet
<1>4. ToSet(Items("filtered")) \cup arrived \subseteq [entry : Entry, sequence : 0 .. Entries]
  BY DEF Typed, OnTheWay, Filtered, NumberedEntry
<1>5. sequence \in 0 .. Entries /\ found \in 0 .. Entries
  BY SequenceTyped DEF Typed, BatchGrows
<1>6. Len(answers) + Cardinality({i \in DOMAIN requests : requests[i].type = "infos"}) <= 1
  BY OneQuestionTyped DEF Typed
<1>. QED  BY <1>1, <1>2, <1>3, <1>4, <1>5, <1>6 DEF Typed, TypeOK, CountersTyped

(***************************************************************************)
(* The invariant, and what follows from it.                                *)
(***************************************************************************)
LEMMA InitIInv == Init => IInv
<1>. SUFFICES ASSUME Init PROVE IInv
  OBVIOUS
<1>. USE ComparisonAssumption DEF Init
<1>0. /\ <<>> \in Seq(Entry) /\ <<>> \in Seq(Seq(Entry)) /\ <<>> \in Seq(NumberedEntry)
      /\ <<>> \in Seq(Messages) /\ <<>> \in Seq(SUBSET Entry)
      /\ Len(<<>>) = 0 /\ DOMAIN <<>> = {}
  OBVIOUS
<1>1. Traversed = <<>> /\ Pending = <<>> /\ Filtered = <<>>
  BY DEF Queues, Traversed, Pending, Filtered, Items
<1>2. QueueTyped
  BY <1>0, <1>1 DEF QueueTyped, Contents, Statuses
<1>3. BatchesTyped /\ ~BatchFull(batch)
  BY <1>0, <1>1, EmptyBatchTyped DEF BatchesTyped
<1>4. Chain
  <2>1. PICK from : from = [k \in Nat |-> 0]
    OBVIOUS
  <2>2. from \in Starts /\ 0 \in 0 .. Entries /\ from[1] = 0 /\ from[Len(Pending) + 1] = 0
    BY <1>0, <1>1, <2>1 DEF Starts
  <2>3. CurrentFollows(0)
    BY <1>0, UpToZero DEF CurrentFollows, Consecutive
  <2>4. PendingFollows(from) /\ BatchFollows(0, from)
    BY <1>0, <1>1, <2>2 DEF PendingFollows, BatchFollows, Consecutive
  <2>5. TraversedFollows(0) /\ MainIsInFront(0, from)
    BY <1>0, <1>1, <2>2 DEF TraversedFollows, MainIsInFront, Consecutive
  <2>6. ProducerHasAll(0) /\ MainHasAll(0, 0)
    BY DEF ProducerHasAll, MainHasAll, Queues
  <2>. QED  BY <2>2, <2>3, <2>4, <2>5, <2>6 DEF Chain
<1>5. AbandonedIsEmpty /\ BatchGrows /\ MainIsSound
  BY <1>3 DEF AbandonedIsEmpty, Items, BatchGrows, MainIsSound, Normal
<1>6. OneQuestion /\ AnswerFits
  BY <1>0 DEF OneQuestion, Questions, AnswerFits
<1>7. OnTheWay = {}
  BY <1>1 DEF OnTheWay, ToSet
<1>8. NumbersFit /\ NoneMissing
  BY <1>0, <1>7 DEF NumbersFit, NoneMissing
<1>9. RestIsSound /\ EndIsTrue
  BY <1>0 DEF RestIsSound, EndIsTrue
<1>10. TypeOK
  <2>1. CountersTyped
    BY DEF CountersTyped, Slots
  <2>2. Len(Traversed) <= Capacity /\ Len(Pending) <= Capacity /\ Len(Filtered) <= Capacity
    BY <1>0, <1>1
  <2>. QED  BY <1>0, <1>2, <1>3, <1>4, <1>5, <1>6, <1>7, <2>1, <2>2, TypesFrom DEF Typed
<1>. QED  BY <1>2, <1>4, <1>5, <1>6, <1>8, <1>9, <1>10 DEF IInv

(* Every step keeps the invariant.                                         *)
LEMMA NextIInv ==
  ASSUME IInv, [Next]_vars
  PROVE  IInv'
<1>1. QueueTyped' /\ Chain' /\ BatchesTyped'
  BY QueuesTyped, ChainKept, BatchesStayTyped
<1>2. CountersTyped' /\ MainIsSound'
  BY CountersAreTyped, CountersStayTyped, MainStaysSound DEF IInv
<1>3. AbandonedIsEmpty' /\ BatchGrows'
  BY AbandonedStaysEmpty, BatchGrowsKept
<1>4. OneQuestion' /\ AnswerFits'
  BY OneQuestionKept, AnswerFitsKept
<1>5. NumbersFit' /\ NoneMissing' /\ RestIsSound' /\ EndIsTrue'
  BY NumbersFitKept, NoneMissingKept, RestStaysSound, EndStaysTrue
<1>6. TypeOK'
  <2>1. scenario' \in Scenarios
    BY ScenarioFixed DEF IInv, TypeOK
  <2>2. (OnTheWay \subseteq NumberedEntry)' /\ (packed \in Seq(Entry))' /\ (differing \subseteq Entry)'
    BY WayStaysTyped, DifferingTyped DEF NumberedEntry, Entry
  <2>3. (Len(Traversed) <= Capacity)' /\ (Len(Pending) <= Capacity)' /\ (Len(Filtered) <= Capacity)'
    BY CapacitiesKept
  <2>4. Typed'
    BY <1>1, <1>2, <1>3, <1>4, <2>1, <2>2, <2>3 DEF Typed
  <2>. QED  BY <2>4, TypesFrom, PTL
<1>. QED  BY <1>1, <1>2, <1>3, <1>4, <1>5, <1>6 DEF IInv

(* The inductive invariant holds throughout.                               *)
LEMMA IInvHolds == Spec => []IInv
<1>1. IInv /\ [Next]_vars => IInv'
  BY NextIInv
<1>. QED  BY InitIInv, <1>1, PTL DEF Spec

(* Every variable has its type, no queue exceeds its capacity, no batch    *)
(* its limits, and an answer is there only for a question that waits.      *)
THEOREM TypeCorrect == Spec => []TypeOK
<1>1. IInv => TypeOK
  BY DEF IInv
<1>. QED  BY IInvHolds, <1>1, PTL

(* What is sent are the directories and the files the receiver lacks, in   *)
(* order, and all of them when either side calls the transfer complete:    *)
(* for any number of entries, any limits of a batch, any capacity, and     *)
(* whatever fails.                                                         *)
THEOREM DifferencesSent == Spec => []OnlyDifferencesAreSent
<1>1. IInv => OnlyDifferencesAreSent
  BY NumbersTell DEF IInv
<1>. QED  BY IInvHolds, <1>1, PTL

(***************************************************************************)
(* No gap. The numbers in the filtered queue ascend, behind those that     *)
(* have arrived, and none of them has been emitted before: on top of IInv  *)
(* this is inductive.                                                      *)
(***************************************************************************)
NumbersAscend ==
  /\ \A i, j \in DOMAIN Filtered : i < j => Filtered[i].sequence < Filtered[j].sequence
  /\ \A f \in arrived, i \in DOMAIN Filtered : f.sequence < Filtered[i].sequence
  /\ \A f \in OnTheWay : Len(packed) <= f.sequence

(* No gap in the numbers ever holds an entry back. While the filtered      *)
(* queue is not abandoned, each number given out and not yet emitted is in *)
(* the queue or with the opener; and an opener with entries it has not     *)
(* emitted can emit one of them as soon as it has drained the queue,       *)
(* whoever failed, wherever the main thread stopped.                       *)
NoGap ==
  queue["filtered"].status # "Abandoned" =>
    /\ \A n \in Len(packed) .. sequence - 1 : \E f \in OnTheWay : f.sequence = n
    /\ Filtered = <<>> /\ arrived # {} => \E f \in arrived : f.sequence = Len(packed)

(* A number stands for one entry.                                          *)
LEMMA NumberedOnce ==
  ASSUME IInv, NEW f \in OnTheWay, NEW g \in OnTheWay, f.sequence = g.sequence
  PROVE  f = g
<1>1. /\ f \in NumberedEntry /\ g \in NumberedEntry
      /\ Numbered(f.entry, f.sequence) /\ Numbered(g.entry, g.sequence)
  BY WayIsTyped DEF IInv, NumbersFit
<1>2. f.entry \in Nat /\ g.entry \in Nat
  BY <1>1, ComparisonAssumption DEF NumberedEntry, Entry
<1>3. UpTo(f.entry - 1) = UpTo(g.entry - 1) /\ f.entry \in Wanted /\ g.entry \in Wanted
  BY <1>1 DEF Numbered
<1>4. \A d, e \in Wanted : d \in Nat /\ e \in Nat /\ d < e => UpTo(d - 1) < UpTo(e - 1)
  <2>1. SUFFICES ASSUME NEW d \in Wanted, NEW e \in Wanted, d \in Nat, e \in Nat, d < e
                 PROVE  UpTo(d - 1) < UpTo(e - 1)
    OBVIOUS
  <2>2. e - 1 \in Int /\ d <= e - 1
    BY <2>1
  <2>. QED  BY <2>2, NumbersGrow
<1>5. UpTo(f.entry - 1) \in Nat
  <2>1. f.entry - 1 \in Int
    BY <1>2
  <2>. QED  BY <2>1, UpToType
<1>6. ~(f.entry < g.entry) /\ ~(g.entry < f.entry)
  BY <1>2, <1>3, <1>4, <1>5
<1>7. f.entry = g.entry
  BY <1>2, <1>6
<1>. QED  BY <1>1, <1>7 DEF NumberedEntry

LEMMA AscendForwarded ==
  ASSUME IInv, NumbersAscend, [Next]_vars, Forward
  PROVE  NumbersAscend'
<1>1. /\ QueueTyped /\ "filtered" \in Queues /\ NumbersFit
      /\ Filtered \in Seq(NumberedEntry) /\ Filtered = Items("filtered")
      /\ OnTheWay \subseteq NumberedEntry /\ sequence \in Nat /\ Len(packed) \in Nat
  BY WayIsTyped, ComparisonAssumption DEF IInv, QueueTyped, Queues, Filtered
<1>2. packed' = packed /\ arrived' = arrived
  BY DEF Forward, restVars
<1>3. CASE queue' = queue
  BY <1>2, <1>3 DEF NumbersAscend, OnTheWay, Filtered, Items, ToSet
<1>4. CASE /\ current # <<>> /\ Chosen(Head(current)) /\ Room("filtered")
           /\ queue' = Pushed("filtered", Renumbered(Head(current)))
           /\ sequence' = sequence + 1 /\ current' = Tail(current)
  <2>. DEFINE new == Renumbered(Head(current))
  <2>1. new \in NumberedEntry /\ new.sequence = sequence
    <3>1. Head(current) \in Entry
      BY <1>4, EmptySeq DEF IInv, TypeOK
    <3>. QED  BY <3>1, WayIsTyped DEF Renumbered, NumberedEntry
  <2>. HIDE DEF new
  <2>2. Filtered' = Append(Filtered, new)
    BY <1>1, <1>4, PushedIs DEF Filtered, Items, new
  <2>3. /\ DOMAIN Filtered = 1 .. Len(Filtered) /\ Len(Filtered) \in Nat
        /\ DOMAIN Filtered' = 1 .. Len(Filtered) + 1
        /\ Filtered'[Len(Filtered) + 1] = new
        /\ \A i \in DOMAIN Filtered : Filtered'[i] = Filtered[i]
    BY <1>1, <2>1, <2>2
  <2>4. OnTheWay' = OnTheWay \cup {new}
    <3>1. ToSet(Filtered') = ToSet(Filtered) \cup {new}
      BY <1>1, <2>1, <2>2, SeqToSet
    <3>. QED  BY <1>2, <3>1 DEF OnTheWay, ToSet
  <2>5. \A f \in OnTheWay : f.sequence \in Nat /\ f.sequence < sequence
    BY <1>1 DEF NumbersFit, NumberedEntry
  <2>6. \A i \in DOMAIN Filtered : Filtered[i] \in OnTheWay
    BY DEF OnTheWay, ToSet
  <2>7. \A i, j \in DOMAIN Filtered' : i < j => Filtered'[i].sequence < Filtered'[j].sequence
    <3>1. SUFFICES ASSUME NEW i \in DOMAIN Filtered', NEW j \in DOMAIN Filtered', i < j
                   PROVE  Filtered'[i].sequence < Filtered'[j].sequence
      OBVIOUS
    <3>2. i \in DOMAIN Filtered
      BY <2>3, <3>1
    <3>3. CASE j \in DOMAIN Filtered
      BY <2>3, <3>1, <3>2, <3>3 DEF NumbersAscend
    <3>4. CASE j = Len(Filtered) + 1
      BY <2>1, <2>3, <2>5, <2>6, <3>2, <3>4
    <3>. QED  BY <2>3, <3>3, <3>4
  <2>8. \A f \in arrived, i \in DOMAIN Filtered' : f.sequence < Filtered'[i].sequence
    <3>1. SUFFICES ASSUME NEW f \in arrived, NEW i \in DOMAIN Filtered'
                   PROVE  f.sequence < Filtered'[i].sequence
      OBVIOUS
    <3>2. CASE i \in DOMAIN Filtered
      BY <2>3, <3>2 DEF NumbersAscend
    <3>3. CASE i = Len(Filtered) + 1
      BY <2>1, <2>3, <2>5, <3>3 DEF OnTheWay
    <3>. QED  BY <2>3, <3>2, <3>3
  <2>9. \A f \in OnTheWay' : Len(packed) <= f.sequence
    BY <1>1, <2>1, <2>4 DEF NumbersAscend, NumbersFit
  <2>. QED  BY <1>2, <2>7, <2>8, <2>9 DEF NumbersAscend
<1>. QED  BY <1>3, <1>4 DEF Forward

LEMMA AscendTaken ==
  ASSUME IInv, NumbersAscend, [Next]_vars, RestTake
  PROVE  NumbersAscend'
<1>1. /\ QueueTyped /\ "filtered" \in Queues /\ Filtered \in Seq(NumberedEntry)
      /\ Filtered # <<>> /\ packed' = packed
      /\ arrived' = arrived \cup {Head(Filtered)} /\ queue' = Popped("filtered")
  BY DEF IInv, QueueTyped, Queues, RestTake, Filtered
<1>2. Filtered' = Tail(Filtered)
  BY <1>1, PoppedIs DEF Filtered, Items
<1>3. /\ DOMAIN Filtered = 1 .. Len(Filtered) /\ Len(Filtered) \in Nat /\ Len(Filtered) >= 1
      /\ Head(Filtered) = Filtered[1] /\ 1 \in DOMAIN Filtered
      /\ DOMAIN Filtered' = 1 .. Len(Filtered) - 1
      /\ \A i \in DOMAIN Filtered' : i + 1 \in DOMAIN Filtered /\ Filtered'[i] = Filtered[i + 1]
  BY <1>1, <1>2, EmptySeq
<1>4. OnTheWay' = OnTheWay
  <2>1. ToSet(Filtered) = ToSet(Filtered') \cup {Head(Filtered)}
    <3>1. Head(Filtered) \in NumberedEntry
      BY <1>1, <1>3
    <3>. QED  BY <1>1, <1>2, <3>1, SeqToSet
  <2>. QED  BY <1>1, <2>1 DEF OnTheWay, ToSet
<1>5. \A i, j \in DOMAIN Filtered' : i < j => Filtered'[i].sequence < Filtered'[j].sequence
  <2>1. SUFFICES ASSUME NEW i \in DOMAIN Filtered', NEW j \in DOMAIN Filtered', i < j
                 PROVE  Filtered'[i].sequence < Filtered'[j].sequence
    OBVIOUS
  <2>2. i + 1 < j + 1
    BY <1>3, <2>1
  <2>. QED  BY <1>3, <2>2 DEF NumbersAscend
<1>6. \A f \in arrived', i \in DOMAIN Filtered' : f.sequence < Filtered'[i].sequence
  <2>1. SUFFICES ASSUME NEW f \in arrived', NEW i \in DOMAIN Filtered'
                 PROVE  f.sequence < Filtered'[i].sequence
    OBVIOUS
  <2>2. CASE f \in arrived
    BY <1>3, <2>2 DEF NumbersAscend
  <2>3. CASE f = Filtered[1]
    <3>1. 1 < i + 1
      BY <1>3
    <3>. QED  BY <1>3, <2>3, <3>1 DEF NumbersAscend
  <2>. QED  BY <1>1, <1>3, <2>1, <2>2, <2>3
<1>. QED  BY <1>1, <1>4, <1>5, <1>6 DEF NumbersAscend

LEMMA AscendEmitted ==
  ASSUME IInv, NumbersAscend, [Next]_vars, Emit
  PROVE  NumbersAscend'
<1>1. queue' = queue
  BY DEF Emit
<1>2. PICK f \in arrived : /\ f.sequence = Len(packed) /\ arrived' = arrived \ {f}
                           /\ packed' = Append(packed, f.entry)
  BY DEF Emit
<1>3. /\ Filtered' = Filtered /\ f \in OnTheWay /\ f \in NumberedEntry
      /\ OnTheWay' \subseteq OnTheWay /\ OnTheWay' = arrived' \cup ToSet(Filtered)
      /\ OnTheWay \subseteq NumberedEntry
  BY <1>1, <1>2, WayIsTyped DEF OnTheWay, Filtered, Items, ToSet
<1>4. Len(packed) \in Nat /\ Len(packed') = Len(packed) + 1
  BY <1>2, <1>3, WayIsTyped DEF NumberedEntry
<1>5. ASSUME NEW g \in OnTheWay'
      PROVE  Len(packed') <= g.sequence
  <2>1. g \in OnTheWay /\ Len(packed) <= g.sequence /\ g.sequence \in Nat
    BY <1>3 DEF NumbersAscend, NumberedEntry
  <2>2. g.sequence # Len(packed)
    <3>1. CASE g \in arrived'
      BY <1>2, <1>3, <2>1, <3>1, NumberedOnce
    <3>2. CASE g \in ToSet(Filtered)
      <4>1. PICK i \in DOMAIN Filtered : g = Filtered[i]
        BY <3>2 DEF ToSet
      <4>2. Len(packed) < g.sequence
        BY <1>2, <4>1 DEF NumbersAscend
      <4>. QED  BY <1>4, <2>1, <4>2
    <3>. QED  BY <1>3, <3>1, <3>2
  <2>. QED  BY <1>4, <2>1, <2>2
<1>. QED  BY <1>2, <1>3, <1>5 DEF NumbersAscend

(* Every step keeps the numbers ascending.                                 *)
LEMMA NumbersAscendKept ==
  ASSUME IInv, NumbersAscend, [Next]_vars
  PROVE  NumbersAscend'
<1>1. CASE ~Forward /\ ~RestTake /\ ~Emit
  <2>1. packed' = packed /\ arrived' = arrived
    BY <1>1
    DEF Next, vars, Finished, Traverse, ProducerStep, ProducerPop, ProducerAtEnd, ProducerPush,
        ProducerClose, MainStep, MainPop, Ask, Await, Finish, Handle, JoinProducer, AwaitTraverser,
        Unwind, Conclude, RestStep, RestEnds, RestFailure, GuardCloses, Receive, ReceiverFails, Lose,
        Cancel, CancelSlot, restVars
  <2>2. CASE Filtered' = Filtered
    BY <2>1, <2>2 DEF NumbersAscend, OnTheWay, ToSet
  <2>3. CASE Filtered' = <<>>
    <3>1. ToSet(Filtered') = {} /\ DOMAIN Filtered' = {}
      BY <2>3 DEF ToSet
    <3>. QED  BY <2>1, <3>1 DEF NumbersAscend, OnTheWay, ToSet
  <2>. QED  BY <1>1, <2>2, <2>3, FilteredSteps
<1>. QED  BY <1>1, AscendForwarded, AscendTaken, AscendEmitted

(* No gap in the numbers ever holds an entry back: for any number of       *)
(* entries, any capacity, and whatever fails or is cancelled.              *)
THEOREM NothingIsHeldBack == Spec => []NoGap
<1>1. Init => NumbersAscend
  BY DEF Init, NumbersAscend, OnTheWay, Filtered, Items, ToSet, Queues
<1>2. IInv /\ NumbersAscend => NoGap
  <2>1. SUFFICES ASSUME IInv, NumbersAscend, queue["filtered"].status # "Abandoned",
                        Filtered = <<>>, arrived # {}
                 PROVE  \E f \in arrived : f.sequence = Len(packed)
    BY DEF NoGap, IInv, NoneMissing
  <2>2. PICK f \in arrived : TRUE
    BY <2>1
  <2>3. OnTheWay = arrived
    BY <2>1 DEF OnTheWay, ToSet
  <2>4. /\ Len(packed) <= f.sequence /\ f.sequence < sequence /\ f.sequence \in Nat
        /\ Len(packed) \in Nat /\ sequence \in Nat
    BY <2>1, <2>2, <2>3, WayIsTyped, ComparisonAssumption
    DEF NumbersAscend, IInv, NumbersFit, NumberedEntry
  <2>5. Len(packed) \in Len(packed) .. sequence - 1
    BY <2>4
  <2>. QED  BY <2>1, <2>3, <2>5 DEF IInv, NoneMissing
<1>3. IInv /\ NumbersAscend /\ [Next]_vars => NumbersAscend'
  BY NumbersAscendKept
<1>. QED  BY IInvHolds, <1>1, <1>2, <1>3, PTL DEF Spec

(* A question and its answer are never confused with another's: while the  *)
(* main thread forwards a batch, it takes an entry of it exactly if the    *)
(* entry is a directory or a file the receiver lacks.                      *)
THEOREM AnswersAreForTheBatch ==
  Spec => [](main = "forward" => \A i \in DOMAIN current : Chosen(current[i]) <=> current[i] \in Wanted)
<1>1. IInv => (main = "forward" =>
                 \A i \in DOMAIN current : Chosen(current[i]) <=> current[i] \in Wanted)
  BY DEF IInv, AnswerFits
<1>. QED  BY IInvHolds, <1>1, PTL
=============================================================================
