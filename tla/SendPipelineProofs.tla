------------------------- MODULE SendPipelineProofs -------------------------
(***************************************************************************)
(* Proofs about SendPipeline, for any number of relays, files and queue    *)
(* places, and any scenario: its type, that no shortened stream passes for *)
(* success, and that the error that is kept is the one that started it.    *)
(*                                                                         *)
(* The inductive invariant has two parts. Control says that a failure is   *)
(* on record (Known) before any consequence of it can be seen: before a    *)
(* queue is closed by anybody but its own stage, before "queue closed" is  *)
(* thrown, and before the main thread gets past a stage that failed. Flow  *)
(* says that the queues and the sink hold adjacent parts of one stream. It *)
(* needs numbers the code does not keep, how many items each stage has     *)
(* taken and passed on, and says that such numbers exist; every step of a  *)
(* stage names the new ones. When all stages have returned normally the    *)
(* numbers are those of the whole stream, by induction over the relays.    *)
(***************************************************************************)
EXTENDS SendPipeline, SequenceTheorems, WellFoundedInduction, TLAPS

(* A failure is on record, or the flag of the cancellation stands for one  *)
(* where none is recorded.                                                 *)
Known == state # "none" \/ (ToFile /\ Cancelled)

(* Where a stage can be.                                                   *)
Places ==
  /\ Raw => result[Compressor] = "ok"
  /\ \A s \in Stages :
       /\ pc[s] = "acquire" => s \in AllRelays
       /\ pc[s] = "flush" => s >= Packer
       /\ pc[s] = "close" => s \in {Packer, Compressor}
       /\ pc[s] = "done" <=> result[s] # "none"
       /\ pc[s] \in {"acquire", "hold"} => held[s] # 0

(* What there is always a reason for.                                      *)
Causes ==
  /\ Cancelled => scenario.cancel
  /\ \A q \in Queues :
       /\ status[q] = "Abandoned" => Cancelled /\ items[q] = <<>>
       /\ status[q] = "Closed" => Known \/ pc[q] \in {"handling", "done"}
  /\ \A s \in Stages :
       /\ "cancelled" \in {error[s], result[s]} => Cancelled
       /\ "closed" \in {error[s], result[s]} => Known
  /\ RootCauseIsKept

(* An error is recorded before it can be seen anywhere else.               *)
Unrecorded(s) ==
  \/ s \in Coroutines /\ todo[s] = <<s>>
  \/ s \in Packer .. Writer /\ Head(todo[s]) = Fail
  \/ s \in Packer .. Writer /\ Len(todo[s]) > 1 /\ Head(todo[s]) = s /\ Head(Tail(todo[s])) = Fail

Handlers ==
  /\ \A s \in Stages :
       pc[s] = "handling" => error[s] # "none" /\ todo[s] # <<>> /\ (Known \/ Unrecorded(s))
  /\ \A s \in Packer .. Writer : pc[s] = "done" => Known \/ result[s] = "ok"
  /\ todo[Main] # <<>> => Known

(* How far the main thread gets.                                           *)
Waiting ==
  /\ main \in Coroutines => \A s \in 1 .. main - 1 : result[s] = "ok"
  /\ main >= Packer => Known \/ \A s \in Coroutines : result[s] = "ok"
  /\ \A s \in Packer .. Writer : main > s => pc[s] = "done"
  /\ main = Main + 1 => ToSocket
  /\ ended \/ (ToFile /\ report = "completed") => \A s \in Stages : result[s] = "ok"

(* All about the way of a failure.                                         *)
Control == TypeOK /\ Places /\ Causes /\ Handlers /\ Waiting

(* Where a stage has neither failed nor ended.                             *)
Active == {"take", "acquire", "hold", "flush", "close"}

(* The assumption on the constants, taken apart.                           *)
LEMMA Parameters ==
  /\ Relays \in Nat /\ Files \in Nat /\ Capacity \in Nat \ {0}
  /\ \A c \in Scenarios :
       /\ c.target \in {"socket", "file", "raw"} /\ c.files \in 0 .. Files
       /\ c.fail \subseteq Stages /\ c.cancel \in BOOLEAN /\ c.permits \in Nat \ {0}
BY PipelineAssumption DEF PipelineAssumption

(* The numbers of stages, queues and actors: the relays are coroutines,    *)
(* and every stage but the writer has a queue of its own number.           *)
LEMMA StageNumbers ==
  /\ Queues \subseteq Stages /\ Coroutines \subseteq Queues /\ Stages \subseteq Actors
  /\ Stages = Coroutines \cup {Packer, Compressor, Writer}
  /\ Packer .. Writer = {Packer, Compressor, Writer}
  /\ Main \in Actors /\ Main \notin Stages
  /\ Stages \subseteq Nat /\ AllRelays \subseteq Coroutines /\ Fail \notin Queues
  /\ \A m \in Coroutines : 1 .. m - 1 \subseteq Coroutines
BY Parameters DEF Fail, Stages, Queues, Coroutines, Packer, Compressor, Writer, Main, Actors,
       AllRelays

(* The stages with a name of their own.                                    *)
LEMMA StageOrder ==
  /\ Packer \in Queues /\ Compressor \in Queues /\ Writer \notin Queues
  /\ Packer \in Stages /\ Compressor \in Stages /\ Writer \in Stages
  /\ Packer # Compressor /\ Packer # Writer /\ Compressor # Writer
  /\ Traverser \in Coroutines /\ Traverser \in Stages /\ Traverser \in Queues
  /\ Traverser \notin {Packer, Compressor, Writer}
  /\ \A q \in Queues : q \in Nat /\ (q < Packer \/ q = Packer \/ q = Compressor)
  /\ ~(Compressor < Packer) /\ Packer \in Nat /\ Compressor \in Nat
BY Parameters DEF Traverser, Stages, Queues, Coroutines, Packer, Compressor, Writer

(* Facts about sequences.                                                  *)
LEMMA HeadAndTail ==
  ASSUME NEW S, NEW x \in Seq(S), x # <<>>
  PROVE  /\ Head(x) \in S /\ Tail(x) \in Seq(S)
         /\ Len(x) \in Nat /\ Len(Tail(x)) = Len(x) - 1 /\ Len(Tail(x)) <= Len(x)
OBVIOUS

(* A sequence that is empty without its head has nothing but its head.     *)
LEMMA LastOfSeq ==
  ASSUME NEW S, NEW t \in Seq(S), t # <<>>
  PROVE  Tail(t) = <<>> <=> Len(t) = 1
<1>1. Tail(t) \in Seq(S) /\ Len(Tail(t)) = Len(t) - 1
  OBVIOUS
<1>2. Tail(t) = <<>> <=> Len(Tail(t)) = 0
  BY <1>1, EmptySeq
<1> QED
  BY <1>1, <1>2

(* What the packer has to do begins with what stands before the part whose *)
(* length depends on the number of relays.                                 *)
LEMMA Around ==
  ASSUME NEW S, NEW a \in S, NEW b \in S, NEW c \in S, NEW m \in Seq(S)
  PROVE  LET t == <<a, b>> \o m \o <<c>>
         IN  t \in Seq(S) /\ t # <<>> /\ Len(t) > 1 /\ Head(t) = a /\ Head(Tail(t)) = b
<1> DEFINE p == <<a, b>>
           u == p \o m
           e == <<c>>
           t == u \o e
<1>1. p \in Seq(S) /\ Len(p) = 2 /\ p[1] = a /\ p[2] = b
  OBVIOUS
<1>2. e \in Seq(S) /\ Len(e) = 1
  OBVIOUS
<1> HIDE DEF p, e
<1>3. u \in Seq(S) /\ Len(u) = Len(m) + 2 /\ u[1] = a /\ u[2] = b /\ Len(m) \in Nat
  <2>1. /\ p \o m \in Seq(S) /\ Len(p \o m) = Len(p) + Len(m)
        /\ \A i \in 1 .. Len(p) + Len(m) : (p \o m)[i] = IF i <= Len(p) THEN p[i] ELSE m[i - Len(p)]
    BY <1>1, ConcatProperties
  <2>2. Len(m) \in Nat
    BY LenProperties
  <2> QED
    BY <1>1, <2>1, <2>2
<1> HIDE DEF u
<1>4. t \in Seq(S) /\ Len(t) = Len(m) + 3 /\ t[1] = a /\ t[2] = b
  <2>1. /\ u \o e \in Seq(S) /\ Len(u \o e) = Len(u) + Len(e)
        /\ \A i \in 1 .. Len(u) + Len(e) : (u \o e)[i] = IF i <= Len(u) THEN u[i] ELSE e[i - Len(u)]
    BY <1>2, <1>3, ConcatProperties
  <2> QED
    BY <1>2, <1>3, <2>1
<1> HIDE DEF t
<1>5. t # <<>> /\ Len(t) > 1 /\ Head(t) = a /\ Head(Tail(t)) = b
  BY <1>3, <1>4
<1> QED
  BY <1>4, <1>5 DEF t, u, p, e

(* What a stage does first when it fails: it records the exception, or     *)
(* closes its own output and records it then; a coroutine only closes its  *)
(* output, and the exception is in its future when that is done.           *)
LEMMA HandlingStarts ==
  ASSUME NEW s \in Stages
  PROVE  /\ Handling(s) \in Seq(Queues \cup {Fail}) /\ Handling(s) # <<>>
         /\ \/ s \in Coroutines /\ Handling(s) = <<s>>
            \/ s \in Packer .. Writer /\ Head(Handling(s)) = Fail
            \/ /\ s \in Packer .. Writer /\ Len(Handling(s)) > 1
               /\ Head(Handling(s)) = s /\ Head(Tail(Handling(s))) = Fail
<1>1. /\ Coroutines \subseteq Queues /\ {TarQueue, ZstdQueue} \subseteq Queues
      /\ Packer \in Queues /\ Compressor \in Queues
      /\ {Packer, Compressor, Writer} \subseteq Packer .. Writer
      /\ s \in Coroutines \/ s \in {Packer, Compressor, Writer}
      /\ Packer \notin Coroutines /\ Compressor \notin Coroutines \cup {Packer}
      /\ Writer \notin Coroutines \cup {Packer, Compressor}
      /\ TarQueue = Packer /\ ZstdQueue = Compressor
  BY Parameters DEF Stages, Queues, Packer, Compressor, Writer, TarQueue, ZstdQueue, Coroutines
<1> DEFINE S == Queues \cup {Fail}
<1>2. CASE s \in Coroutines
  <2>1. Handling(s) = <<s>>
    BY <1>1, <1>2 DEF Handling
  <2> QED BY <1>1, <1>2, <2>1
<1>3. CASE s = Packer
  <2>1. [q \in Coroutines |-> q] \in Seq(S)
    <3>1. Coroutines = 1 .. Relays + 1
      BY Parameters DEF Coroutines, Packer
    <3> QED BY <1>1, <3>1, Parameters
  <2>2. Handling(s) = <<TarQueue, Fail>> \o [q \in Coroutines |-> q] \o <<ZstdQueue>>
    BY <1>1, <1>3 DEF Handling
  <2>3. TarQueue \in S /\ ZstdQueue \in S /\ Fail \in S
    BY <1>1
  <2> DEFINE m == [q \in Coroutines |-> q]
  <2> HIDE DEF S, m
  <2>4. LET t == <<TarQueue, Fail>> \o m \o <<ZstdQueue>>
        IN  t \in Seq(S) /\ t # <<>> /\ Len(t) > 1 /\ Head(t) = TarQueue /\ Head(Tail(t)) = Fail
    BY <2>1, <2>3, Around DEF m
  <2> QED
    BY <1>1, <1>3, <2>2, <2>4 DEF S, m
<1>4. CASE s = Compressor
  <2>1. Handling(s) = <<ZstdQueue, Fail, TarQueue>>
    BY <1>1, <1>4 DEF Handling
  <2> QED BY <1>1, <1>4, <2>1
<1>5. CASE s = Writer
  <2>1. Handling(s) = <<Fail, TarQueue, ZstdQueue>>
    BY <1>1, <1>5 DEF Handling
  <2> QED BY <1>1, <1>5, <2>1
<1> QED BY <1>1, <1>2, <1>3, <1>4, <1>5

(* A stage throws. Nothing it says is on record yet.                       *)
LEMMA ThrowKeepsControl ==
  ASSUME Control, NEW s \in Stages, NEW e \in {"own", "closed", "cancelled"}, Throw(s, e),
         pc[s] \in Active, e = "cancelled" => Cancelled, e = "closed" => Known,
         items' \in [Queues -> Seq(1 .. Files + 2)],
         \A q \in Queues : Len(items'[q]) <= Len(items[q]),
         UNCHANGED <<scenario, status, held, produced, sink, result, state, main, ended, report,
                     cancel>>
  PROVE  Control'
<1> USE DEF Control
<1>1. TypeOK'
  BY HandlingStarts, Parameters DEF Throw, TypeOK, Errors, Actors
<1>2. Places'
  BY DEF Throw, TypeOK, Places, Raw, Active
<1>3. Causes'
  <2>1. \A q \in Queues : status[q] = "Abandoned" => items'[q] = <<>>
    BY DEF Causes, TypeOK
  <2>2. Known' = Known /\ Cancelled' = Cancelled /\ RootCauseIsKept'
    BY DEF Known, Cancelled, ToFile, ToSocket, RootCauseIsKept, Causes
  <2>3. \A t \in Stages : t # s => pc'[t] = pc[t] /\ error'[t] = error[t]
    BY DEF Throw, TypeOK
  <2>4. pc'[s] = "handling" /\ error'[s] = e
    BY DEF Throw, TypeOK
  <2>5. Queues \subseteq Stages
    BY StageNumbers
  <2> QED
    BY <2>1, <2>2, <2>3, <2>4, <2>5 DEF Causes
<1>4. Handlers'
  <2>1. /\ \A t \in Stages : t # s => pc'[t] = pc[t] /\ error'[t] = error[t] /\ todo'[t] = todo[t]
        /\ pc'[s] = "handling" /\ error'[s] = e /\ todo'[s] = Handling(s)
        /\ todo'[Main] = todo[Main]
    BY StageNumbers DEF Throw, TypeOK
  <2>2. Known' = Known
    BY DEF Known, Cancelled, ToFile, ToSocket
  <2>3. Handling(s) # <<>> /\ Unrecorded(s)'
    BY <2>1, HandlingStarts DEF Unrecorded
  <2>4. \A t \in Stages : t # s => Unrecorded(t)' = Unrecorded(t)
    BY <2>1 DEF Unrecorded
  <2>5. Packer .. Writer \subseteq Stages
    BY StageNumbers
  <2> QED
    BY <2>1, <2>2, <2>3, <2>4, <2>5 DEF Handlers, TypeOK
<1>5. Waiting'
  <2>1. pc[s] # "done" /\ \A t \in Stages : t # s => pc'[t] = pc[t]
    BY DEF Throw, TypeOK, Active
  <2>2. Packer .. Writer \subseteq Stages
    BY StageNumbers
  <2> QED
    BY <2>1, <2>2 DEF Waiting, Known, Cancelled, ToFile, ToSocket
<1> QED
  BY <1>1, <1>2, <1>3, <1>4, <1>5

(* A stage goes on.                                                        *)
LEMMA MoveKeepsControl ==
  ASSUME Control, NEW s \in Stages, NEW p \in Active, pc[s] \in Active,
         pc' = [pc EXCEPT ![s] = p],
         p = "acquire" => s \in AllRelays, p = "flush" => s >= Packer,
         p = "close" => s \in {Packer, Compressor},
         held' \in [Stages -> 0 .. Files + 2], p \in {"acquire", "hold"} => held'[s] # 0,
         \A t \in Stages \ {s} : held'[t] = held[t],
         items' \in [Queues -> Seq(1 .. Files + 2)],
         \A q \in Queues : /\ Len(items'[q]) <= Capacity
                           /\ status[q] = "Abandoned" => items'[q] = <<>>,
         produced' \in 0 .. Files, sink' \in Seq(1 .. Files + 2),
         UNCHANGED <<scenario, status, todo, error, result, state, main, ended, report, cancel>>
  PROVE  Control'
<1> USE DEF Control
<1>0. /\ \A t \in Stages : t # s => pc'[t] = pc[t]
      /\ pc'[s] = p
      /\ pc[s] \notin {"handling", "done"} /\ p \notin {"handling", "done"}
      /\ Queues \subseteq Stages /\ Packer .. Writer \subseteq Stages
  BY StageNumbers DEF TypeOK, Active
<1>1. TypeOK'
  BY DEF TypeOK, Active
<1>2. Places'
  BY <1>0 DEF Places, Raw
<1>3. Causes'
  <2>1. Known' = Known /\ Cancelled' = Cancelled /\ RootCauseIsKept'
    BY DEF Known, Cancelled, ToFile, ToSocket, RootCauseIsKept, Causes
  <2> QED
    BY <1>0, <2>1 DEF Causes
<1>4. Handlers'
  BY <1>0 DEF Handlers, Known, Cancelled, ToFile, ToSocket, Unrecorded
<1>5. Waiting'
  BY <1>0 DEF Waiting, Known, Cancelled, ToFile, ToSocket
<1> QED
  BY <1>1, <1>2, <1>3, <1>4, <1>5

(* A stage ends normally.                                                  *)
LEMMA EndKeepsControl ==
  ASSUME Control, NEW s \in Stages, pc[s] \in Active,
         pc' = [pc EXCEPT ![s] = "done"], result' = [result EXCEPT ![s] = "ok"],
         status' = status \/ (s \in Queues /\ Close(s)),
         UNCHANGED <<scenario, items, held, produced, sink, todo, error, state, main, ended, report,
                     cancel>>
  PROVE  Control'
<1> USE DEF Control
<1>0. /\ \A t \in Stages : t # s => pc'[t] = pc[t] /\ result'[t] = result[t]
      /\ pc'[s] = "done" /\ result'[s] = "ok"
      /\ pc[s] \notin {"handling", "done"}
      /\ Queues \subseteq Stages /\ Packer .. Writer \subseteq Stages /\ Coroutines \subseteq Stages
  BY StageNumbers DEF TypeOK, Active
<1>1. TypeOK'
  <2>1. status' \in [Queues -> {"Open", "Closed", "Abandoned"}]
    BY DEF TypeOK, Close
  <2> QED
    BY <2>1 DEF TypeOK
<1>2. Places'
  BY <1>0 DEF Places, Raw
<1>3. Causes'
  <2>1. Known' = Known /\ Cancelled' = Cancelled /\ RootCauseIsKept'
    BY DEF Known, Cancelled, ToFile, ToSocket, RootCauseIsKept, Causes
  <2>2. \A q \in Queues : status'[q] = status[q] \/ (q = s /\ status'[q] = "Closed")
    BY DEF Close, TypeOK
  <2> QED
    BY <1>0, <2>1, <2>2 DEF Causes
<1>4. Handlers'
  BY <1>0 DEF Handlers, Known, Cancelled, ToFile, ToSocket, Unrecorded
<1>5. Waiting'
  <2>1. result[s] = "none"
    BY <1>0 DEF Places
  <2> QED
  BY <1>0, <2>1 DEF Waiting, Known, Cancelled, ToFile, ToSocket, TypeOK
<1> QED
  BY <1>1, <1>2, <1>3, <1>4, <1>5

(* What is known stays known.                                              *)
LEMMA KnownStays ==
  ASSUME scenario' = scenario, cancel' = cancel, state' = state \/ state' # "none"
  PROVE  /\ Known => Known'
         /\ Cancelled' = Cancelled /\ ToFile' = ToFile /\ ToSocket' = ToSocket /\ Raw' = Raw
BY DEF Known, Cancelled, ToFile, ToSocket, Raw

(* An exception that is recorded is known from then on, and is no          *)
(* consequence of another.                                                 *)
LEMMA RecordedIsKnown ==
  ASSUME Control, NEW e \in {"own", "closed", "cancelled"}, StateFail(e),
         e = "cancelled" => Cancelled, e = "closed" => Known,
         UNCHANGED <<scenario, cancel>>
  PROVE  Known' /\ RootCauseIsKept' /\ state' \in Errors /\ (state' = state \/ state' # "none")
<1>1. state' \in Errors /\ (state' = state \/ state' # "none")
  BY DEF Control, TypeOK, StateFail, Errors
<1>2. Known'
  BY DEF StateFail, Recorded, Known, Cancelled, ToFile, ToSocket
<1>3. RootCauseIsKept'
  BY DEF StateFail, Control, Causes, RootCauseIsKept, Known, Cancelled, ToFile, ToSocket
<1> QED
  BY <1>1, <1>2, <1>3

(* One step of the error handling: whatever queue it closes, the error is  *)
(* on record by then or the queue is the stage's own.                      *)
LEMMA HandleKeepsControl ==
  ASSUME Control, NEW s \in Stages, Handle(s)
  PROVE  Control'
<1> USE DEF Control
<1> DEFINE q == Head(todo[s])
<1>1. /\ pc[s] = "handling" /\ todo[s] # <<>> /\ todo[s] \in Seq(Queues \cup {Fail})
      /\ q \in Queues \cup {Fail} /\ Tail(todo[s]) \in Seq(Queues \cup {Fail})
      /\ error[s] \in {"own", "closed", "cancelled"} /\ result[s] = "none"
      /\ todo' = [todo EXCEPT ![s] = Tail(todo[s])]
  BY SMTT(30), StageNumbers DEF Handle, TypeOK, Handlers, Errors, Places
<1>2. /\ error[s] = "cancelled" => Cancelled
      /\ error[s] = "closed" => Known
  BY DEF Causes
<1>3. /\ UNCHANGED <<scenario, items, held, produced, sink, error, main, ended, report, cancel>>
      /\ \/ /\ Len(todo[s]) = 1 /\ pc' = [pc EXCEPT ![s] = "done"]
            /\ result' = [result EXCEPT ![s] = error[s]]
         \/ Len(todo[s]) # 1 /\ UNCHANGED <<pc, result>>
  BY DEF Handle
<1>4. \/ q = Fail /\ Known' /\ UNCHANGED status
      \/ q \in Queues /\ Close(q) /\ (Known \/ q = s) /\ UNCHANGED state
  <2>1. CASE q = Fail
    BY <1>1, <1>2, <2>1, RecordedIsKnown DEF Handle
  <2>2. CASE q # Fail
    <3>1. Known \/ q = s
      BY <1>1, <2>2 DEF Handlers, Unrecorded
    <3> QED BY <1>1, <2>2, <3>1 DEF Handle
  <2> QED BY <2>1, <2>2
<1>5. /\ state' \in Errors /\ (state' = state \/ state' # "none")
      /\ RootCauseIsKept'
  <2>1. CASE q = Fail
    BY <1>1, <1>2, <2>1, RecordedIsKnown DEF Handle
  <2>2. CASE q # Fail
    BY <1>3, <2>2 DEF Handle, TypeOK, Causes, RootCauseIsKept, ToSocket
  <2> QED BY <2>1, <2>2
<1>6. /\ Known => Known'
      /\ Cancelled' = Cancelled /\ ToFile' = ToFile /\ ToSocket' = ToSocket /\ Raw' = Raw
  BY <1>3, <1>5, KnownStays
<1>7. /\ \A t \in Stages : t # s => pc'[t] = pc[t] /\ result'[t] = result[t] /\ todo'[t] = todo[t]
      /\ todo'[Main] = todo[Main] /\ todo'[s] = Tail(todo[s])
      /\ \/ Len(todo[s]) = 1 /\ pc'[s] = "done" /\ result'[s] = error[s]
         \/ Len(todo[s]) # 1 /\ pc'[s] = "handling" /\ result'[s] = "none"
  BY <1>1, <1>3, StageNumbers DEF TypeOK
<1>8. TypeOK'
  <2>1. status' \in [Queues -> {"Open", "Closed", "Abandoned"}]
    BY <1>4 DEF TypeOK, Close
  <2>2. /\ pc' \in [Stages -> {"take", "acquire", "hold", "flush", "close", "handling", "done"}]
        /\ result' \in [Stages -> Errors \cup {"ok"}]
        /\ todo' \in [Actors -> Seq(Queues \cup {Fail})]
    BY <1>1, <1>3 DEF TypeOK, Errors
  <2> QED
    BY <1>3, <1>5, <2>1, <2>2 DEF TypeOK
<1>9. Places'
  BY SMTT(30), <1>1, <1>3, <1>6, <1>7, StageNumbers DEF Places
<1>10. Causes'
  <2>1. \A r \in Queues : \/ status'[r] = status[r]
                          \/ status'[r] = "Closed" /\ (Known' \/ r = s)
    BY <1>4, <1>6 DEF Close, TypeOK
  <2>2. (Cancelled => scenario.cancel)'
    BY <1>3, <1>6 DEF Causes
  <2>3. \A r \in Queues :
          /\ (status[r] = "Abandoned" => Cancelled /\ items[r] = <<>>)'
          /\ (status[r] = "Closed" => Known \/ pc[r] \in {"handling", "done"})'
    <3> SUFFICES ASSUME NEW r \in Queues
                 PROVE  /\ (status[r] = "Abandoned" => Cancelled /\ items[r] = <<>>)'
                        /\ (status[r] = "Closed" => Known \/ pc[r] \in {"handling", "done"})'
      OBVIOUS
    <3>1. /\ r \in Stages /\ items'[r] = items[r]
          /\ status[r] = "Abandoned" => Cancelled /\ items[r] = <<>>
          /\ status[r] = "Closed" => Known \/ pc[r] \in {"handling", "done"}
      BY <1>1, <1>3, StageNumbers DEF Causes
    <3>2. pc'[s] \in {"handling", "done"} /\ (r # s => pc'[r] = pc[r])
      BY <1>7, <3>1
    <3>3. (status[r] = "Abandoned" => Cancelled /\ items[r] = <<>>)'
      BY <1>6, <2>1, <3>1
    <3>4. (status[r] = "Closed" => Known \/ pc[r] \in {"handling", "done"})'
      <4>1. CASE status'[r] = status[r]
        BY <1>6, <3>1, <3>2, <4>1
      <4>2. CASE status'[r] # status[r]
        BY <2>1, <3>2, <4>2
      <4> QED BY <4>1, <4>2
    <3> QED BY <3>3, <3>4
  <2>4. \A t \in Stages :
          /\ ("cancelled" \in {error[t], result[t]} => Cancelled)'
          /\ ("closed" \in {error[t], result[t]} => Known)'
    BY <1>2, <1>3, <1>6, <1>7 DEF Causes
  <2> QED
    BY <1>5, <2>2, <2>3, <2>4 DEF Causes
<1>11. Handlers'
  <2>1. ASSUME ~Known'
        PROVE  \/ s \in Coroutines /\ Len(todo[s]) = 1
               \/ Unrecorded(s)' /\ pc'[s] = "handling"
    <3>1. Unrecorded(s) /\ q # Fail
      BY <1>1, <1>4, <1>6, <2>1, StageNumbers DEF Handlers
    <3>2. \/ s \in Coroutines /\ todo[s] = <<s>>
          \/ Head(Tail(todo[s])) = Fail /\ Len(todo[s]) > 1 /\ s \in Packer .. Writer
      BY <3>1 DEF Unrecorded
    <3>3. Len(todo[s]) \in Nat
      BY <1>1, LenProperties
    <3>4. CASE todo[s] = <<s>> /\ s \in Coroutines
      <4>1. Len(<<s>>) = 1
        OBVIOUS
      <4> QED BY <3>4, <4>1, Zenon
    <3>5. CASE Head(Tail(todo[s])) = Fail /\ Len(todo[s]) > 1 /\ s \in Packer .. Writer
      BY <1>7, <3>3, <3>5 DEF Unrecorded
    <3> QED BY <3>2, <3>4, <3>5
  <2>2. \A t \in Stages : t # s => Unrecorded(t)' = Unrecorded(t)
    BY <1>7 DEF Unrecorded
  <2>3. pc'[s] = "handling" => todo'[s] # <<>>
    BY <1>1, <1>7, LastOfSeq
  <2>4. \A t \in Stages :
          (pc[t] = "handling" => error[t] # "none" /\ todo[t] # <<>> /\ (Known \/ Unrecorded(t)))'
    BY <1>1, <1>3, <1>6, <1>7, <2>1, <2>2, <2>3 DEF Handlers
  <2>5. \A t \in Packer .. Writer : (pc[t] = "done" => Known \/ result[t] = "ok")'
    <3>1. s \in Packer .. Writer => s \notin Coroutines
      BY Parameters DEF Packer, Coroutines, Writer
    <3> QED
      BY <1>6, <1>7, <2>1, <3>1, StageNumbers DEF Handlers
  <2> QED
    BY <1>6, <1>7, <2>4, <2>5 DEF Handlers
<1>12. Waiting'
  BY SMTT(30), <1>1, <1>3, <1>6, <1>7, StageNumbers DEF Waiting
<1> QED
  BY <1>8, <1>9, <1>10, <1>11, <1>12

(* What the steps of the main thread leave alone.                          *)
Others == <<scenario, items, pc, held, produced, sink, error, result, cancel>>

(* The main thread closes queues when it has recorded an error, and ends   *)
(* with success only if it has seen every stage return and no error.       *)
LEMMA MainKeepsControl ==
  ASSUME Control, MainStep
  PROVE  Control'
<1> USE DEF Control
<1>1. UNCHANGED Others
  BY DEF MainStep, AwaitFuture, GuardCloses, Join, Conclude, ConcludeFile, Report, Others
<1>2. \A s \in Stages : todo'[s] = todo[s]
  BY StageNumbers DEF MainStep, AwaitFuture, GuardCloses, Join, Conclude, ConcludeFile, Report,
                      TypeOK
<1>3. /\ todo' \in [Actors -> Seq(Queues \cup {Fail})]
      /\ status' \in [Queues -> {"Open", "Closed", "Abandoned"}]
      /\ \A q \in Queues : status'[q] = status[q] \/ (status'[q] = "Closed" /\ Known')
      /\ todo'[Main] # <<>> => Known'
      /\ RootCauseIsKept' /\ state' \in Errors /\ (state' = state \/ state' # "none")
  <2>1. CASE AwaitFuture
    <3>1. CASE result[main] = "ok"
      BY <2>1, <3>1 DEF AwaitFuture, Awaited, TypeOK, Handlers, Known, Cancelled, ToFile, ToSocket,
                        Causes, RootCauseIsKept
    <3>2. CASE result[main] # "ok"
      <4>1. /\ result[main] \in {"own", "closed", "cancelled"} /\ StateFail(result[main])
            /\ todo' = [todo EXCEPT ![Main] = CloseAll] /\ UNCHANGED status
        BY <2>1, <3>2, StageNumbers DEF AwaitFuture, Awaited, TypeOK, Errors
      <4>2. /\ result[main] = "cancelled" => Cancelled
            /\ result[main] = "closed" => Known
        BY <2>1, StageNumbers DEF AwaitFuture, Causes
      <4>3. UNCHANGED <<scenario, cancel>>
        BY <1>1 DEF Others
      <4>4. CloseAll \in Seq(Queues \cup {Fail})
        <5>1. Queues = 1 .. Relays + 3
          BY Parameters DEF Queues, Compressor, Packer
        <5> QED BY <5>1, Parameters DEF CloseAll
      <4> QED
        BY <4>1, <4>2, <4>3, <4>4, RecordedIsKnown DEF TypeOK
    <3> QED BY <3>1, <3>2
  <2>2. CASE GuardCloses
    <3>1. /\ todo[Main] # <<>> /\ todo[Main] \in Seq(Queues \cup {Fail}) /\ Known
          /\ Tail(todo[Main]) \in Seq(Queues \cup {Fail})
      BY <2>2, StageNumbers DEF GuardCloses, TypeOK, Handlers
    <3>2. Known' /\ RootCauseIsKept'
      BY <2>2, <3>1 DEF GuardCloses, Known, Cancelled, ToFile, ToSocket, Causes, RootCauseIsKept
    <3> QED
      BY <2>2, <3>1, <3>2 DEF GuardCloses, Close, TypeOK
  <2>3. CASE Join \/ Conclude \/ ConcludeFile \/ Report
    BY <2>3 DEF Join, Conclude, ConcludeFile, Report, TypeOK, Handlers, Known, Cancelled, ToFile,
                ToSocket, Causes, RootCauseIsKept
  <2> QED BY <2>1, <2>2, <2>3 DEF MainStep
<1>4. /\ Known => Known'
      /\ Cancelled' = Cancelled /\ ToFile' = ToFile /\ ToSocket' = ToSocket /\ Raw' = Raw
  BY <1>1, <1>3, KnownStays DEF Others
<1>5. TypeOK'
  <2>1. main' \in 1 .. Over /\ ended' \in BOOLEAN
        /\ report' \in {"none", "completed", "cancelled", "failed"}
    <3>1. Packer \in 1 .. Over /\ \A m \in Coroutines \cup (Packer .. Writer) : m + 1 \in 1 .. Over
      BY Parameters DEF Packer, Over, Main, Writer, Coroutines
    <3>2. Main \in 1 .. Over /\ Main + 1 \in 1 .. Over /\ Over \in 1 .. Over
      BY Parameters DEF Over, Main, Writer, Packer
    <3> QED
      BY <3>1, <3>2 DEF MainStep, AwaitFuture, GuardCloses, Join, Conclude, ConcludeFile, Report,
                        TypeOK, Verdict
  <2> QED BY <1>1, <1>3, <2>1 DEF TypeOK, Others
<1>6. Places'
  BY <1>1, <1>4 DEF Places, Others
<1>7. Causes'
  BY <1>1, <1>3, <1>4, StageNumbers DEF Causes, Others
<1>8. Handlers'
  BY SMTT(30), <1>1, <1>2, <1>3, <1>4, StageNumbers DEF Handlers, Others, Unrecorded
<1>9. Waiting'
  <2>1. /\ main' \in Coroutines => \A s \in 1 .. main' - 1 : result[s] = "ok"
        /\ main' >= Packer => Known' \/ \A s \in Coroutines : result[s] = "ok"
        /\ \A s \in Packer .. Writer : main' > s => pc[s] = "done"
    <3>1. CASE UNCHANGED main
      BY <1>4, <3>1 DEF Waiting
    <3>2. CASE AwaitFuture /\ result[main] = "ok"
      <4>1. main \in Coroutines /\ main' = main + 1
        BY <3>2 DEF AwaitFuture, Awaited
      <4>2. \A s \in 1 .. main : result[s] = "ok"
        BY <3>2, <4>1 DEF Waiting, Coroutines
      <4> QED
        BY <4>1, <4>2, Parameters DEF Coroutines, Packer, Writer
    <3>3. CASE AwaitFuture /\ result[main] # "ok"
      <4>1. main' = Packer /\ Known'
        BY <1>3, <3>3, StageNumbers DEF AwaitFuture, Awaited, TypeOK, CloseAll
      <4> QED
        BY <4>1, Parameters DEF Coroutines, Packer, Writer
    <3>4. CASE main \in Packer .. Main + 1 /\ main' > main /\ (main > Writer \/ Join)
      <4>1. \A s \in Packer .. Writer : main' > s => pc[s] = "done"
        BY <3>4, Parameters DEF Join, Waiting, Main, Packer, Writer
      <4> QED
        BY <1>4, <3>4, <4>1, Parameters DEF Waiting, Coroutines, Packer, Main, Writer
    <3> QED
      BY <3>1, <3>2, <3>3, <3>4, Parameters
         DEF MainStep, GuardCloses, Join, Conclude, ConcludeFile, Report, Packer, Main, Writer, Over
  <2>2. main' = Main + 1 => ToSocket
    BY Parameters DEF MainStep, AwaitFuture, GuardCloses, Join, Conclude, ConcludeFile, Report,
                      Waiting, Main, Packer, Writer, Over, Coroutines
  <2>3. ended' \/ (ToFile /\ report' = "completed") => \A s \in Stages : result[s] = "ok"
    <3>1. CASE UNCHANGED <<ended, report>>
      BY <3>1 DEF Waiting
    <3>2. CASE main = Main
      <4>1. Known \/ \A s \in Stages : result[s] = "ok"
        BY <3>2, StageNumbers, Parameters DEF Waiting, Handlers, Main, Packer, Writer
      <4>2. ~Known \/ ~(ended' \/ (ToFile /\ report' = "completed"))
                   \/ ended \/ (ToFile /\ report = "completed")
        BY <3>2, Parameters DEF MainStep, AwaitFuture, GuardCloses, Join, Conclude, ConcludeFile,
             Report, Known, ToFile, Main, Packer, Writer, Coroutines, CancelSeen, Verdict
      <4> QED
        BY <4>1, <4>2 DEF Waiting
    <3>3. CASE main = Main + 1 /\ Report
      BY <3>3 DEF Report, Waiting, ToFile
    <3> QED
      BY <3>1, <3>2, <3>3 DEF MainStep, AwaitFuture, GuardCloses, Join, Conclude, ConcludeFile,
                              Report
  <2> QED
    BY <1>1, <1>4, <2>1, <2>2, <2>3 DEF Waiting, Others
<1> QED
  BY <1>5, <1>6, <1>7, <1>8, <1>9

(***************************************************************************)
(* What flows through the pipeline. Nobody counts the items a stage has    *)
(* taken and passed on; the invariant says that there are such numbers, t  *)
(* and o. They determine what a queue holds: the files one by one up to    *)
(* where the packer stopped taking them, the end of the archive, and the   *)
(* end of the frame where the compressor stopped.                          *)
(***************************************************************************)
Content(t, s, i) ==
  IF s < Packer \/ (i <= t[Packer] /\ (s = Packer \/ i <= t[Compressor])) THEN i
  ELSE IF s = Packer \/ i <= t[Compressor] THEN TarEnd ELSE ZstdEnd

Works(s) == ~(Raw /\ s = Compressor)
Extra(s) == IF s \in {Packer, Compressor} THEN 1 ELSE 0
AtEnd(s) == pc[s] \in {"flush", "close"} \/ result[s] = "ok"
Carrying(s) == pc[s] \in {"acquire", "hold"}

(* Of stage s.                                                             *)
Passed(o, t, s) ==
  /\ o[s] <= t[s] + Extra(s)
  /\ pc[s] \in {"take", "flush"} => o[s] = t[s]
  /\ Carrying(s) => t[s] = o[s] + 1
  /\ pc[s] = "close" \/ result[s] = "ok" => o[s] = t[s] + Extra(s)

(* Of stage s and its input.                                               *)
Taken(o, t, s) ==
  LET q == Input(s) IN
  /\ AtEnd(s) => t[s] = o[q] /\ status[q] # "Open"
  /\ t[s] + Len(items[q]) <= o[q]
  /\ status[q] # "Abandoned" => t[s] + Len(items[q]) = o[q]
  /\ \A i \in 1 .. Len(items[q]) : items[q][i] = Content(t, q, t[s] + i)
  /\ Carrying(s) => held[s] = Content(t, q, t[s])

Ends(o, t) ==
  /\ t[Traverser] = produced
  /\ Carrying(Traverser) => held[Traverser] = produced
  /\ result[Traverser] = "ok" => produced = scenario.files
  /\ o[Writer] = Len(sink)
  /\ \A i \in 1 .. Len(sink) : sink[i] = Content(t, Input(Writer), i)

Streams(o, t) ==
  /\ Ends(o, t)
  /\ \A s \in Stages : Works(s) => Passed(o, t, s) /\ (s # Traverser => Taken(o, t, s))

Flow == \E o, t \in [Stages -> Nat] : Streams(o, t)

(* A stage takes from a queue another working stage pushes to.             *)
LEMMA InputWorks ==
  ASSUME NEW s \in Stages, s # Traverser, Works(s)
  PROVE  Input(s) \in Queues /\ Works(Input(s)) /\ Input(s) # s
BY Parameters DEF Stages, Queues, Traverser, Works, Input, Writer, TarQueue, Packer, Compressor

(* Steps that move nothing.                                                *)
LEMMA QuietKeepsStreams ==
  ASSUME TypeOK, NEW o \in [Stages -> Nat], NEW t \in [Stages -> Nat], Streams(o, t),
         UNCHANGED <<scenario, items, held, produced, sink>>,
         \A s \in Stages : \/ pc'[s] = pc[s] /\ result'[s] = result[s]
                           \/ pc[s] = "acquire" /\ pc'[s] = "hold" /\ result'[s] = result[s]
                           \/ pc'[s] \in {"handling", "done"} /\ result'[s] # "ok",
         \A q \in Queues : status'[q] = status[q] \/ (status[q] = "Open" /\ status'[q] = "Closed")
  PROVE  Streams(o, t)'
<1>1. \A s \in Stages : Works(s)' = Works(s) /\ Input(s)' = Input(s)
  BY DEF Works, Raw, Input
<1>2. Ends(o, t)'
  BY <1>1, StageOrder DEF Streams, Ends, Carrying
<1>3. ASSUME NEW s \in Stages, Works(s) PROVE Passed(o, t, s)'
  BY <1>3 DEF Streams, Passed, Carrying, Extra
<1>4. ASSUME NEW s \in Stages, Works(s), s # Traverser PROVE Taken(o, t, s)'
  <2>1. Input(s) \in Queues
    BY <1>4, InputWorks
  <2>2. Taken(o, t, s)
    BY <1>4 DEF Streams
  <2> QED
    BY <1>1, <2>1, <2>2 DEF Taken, Carrying, AtEnd
<1> QED
  BY <1>1, <1>2, <1>3, <1>4 DEF Streams

(* Taking one more item leaves the numbers of those passed on as they are. *)
LEMMA ContentStays ==
  ASSUME TypeOK, NEW o \in [Stages -> Nat], NEW t \in [Stages -> Nat], Streams(o, t),
         NEW s \in Stages, Works(s), pc[s] = "take",
         NEW u \in [Stages -> Nat], u[s] = t[s] + 1, \A r \in Stages : r # s => u[r] = t[r],
         NEW q \in Queues, Works(q), NEW i \in 1 .. o[q]
  PROVE  Content(u, q, i) = Content(t, q, i)
<1>1. o[s] = t[s] /\ i \in Nat
  BY StageOrder DEF Streams, Passed
<1>2. q = Compressor => t[Compressor] <= o[Packer]
  <2>1. q = Compressor => Input(Compressor) = Packer /\ Compressor # Traverser
    BY Parameters DEF Works, Input, Compressor, Packer, Traverser, Writer
  <2>2. q = Compressor => Taken(o, t, Compressor)
    BY <2>1, StageOrder DEF Streams
  <2>3. Len(items[Packer]) \in Nat /\ o[Packer] \in Nat /\ t[Compressor] \in Nat
    BY StageOrder DEF TypeOK
  <2> QED
    BY <2>1, <2>2, <2>3 DEF Taken
<1>3. Packer \in Stages /\ Compressor \in Stages /\ Packer # Compressor /\ q \in Nat
      /\ (q < Packer \/ q = Packer \/ q = Compressor)
  BY StageOrder
<1>4. u[Packer] = (IF s = Packer THEN t[Packer] + 1 ELSE t[Packer])
      /\ u[Compressor] = (IF s = Compressor THEN t[Compressor] + 1 ELSE t[Compressor])
  BY <1>3
<1>5. CASE q < Packer
  BY <1>5 DEF Content
<1>6. CASE q = Packer
  BY <1>1, <1>3, <1>4, <1>6 DEF Content
<1>7. CASE q = Compressor
  <2> DEFINE C(a, c) == IF i <= a /\ i <= c THEN i ELSE IF i <= c THEN TarEnd ELSE ZstdEnd
  <2>1. Content(t, q, i) = C(t[Packer], t[Compressor])
        /\ Content(u, q, i) = C(u[Packer], u[Compressor])
    BY <1>3, <1>7, StageOrder DEF Content
  <2>2. C(t[Packer], t[Compressor]) = C(u[Packer], u[Compressor])
    <3>1. /\ t[Packer] \in Nat /\ t[Compressor] \in Nat /\ o[Packer] \in Nat
          /\ i <= o[Compressor] /\ t[Compressor] <= o[Packer] /\ o[Compressor] \in Nat
      BY <1>2, <1>3, <1>7
    <3>2. CASE s = Packer
      BY <1>1, <1>4, <1>3, <3>1, <3>2
    <3>3. CASE s = Compressor
      BY <1>1, <1>4, <1>3, <3>1, <3>3
    <3>4. CASE s \notin {Packer, Compressor}
      BY <1>4, <3>4
    <3> QED BY <3>2, <3>3, <3>4
  <2> QED BY <2>1, <2>2
<1> QED
  BY <1>3, <1>5, <1>6, <1>7

(* No queue has two takers.                                                *)
LEMMA InputsDiffer ==
  ASSUME NEW r \in Stages, NEW s \in Stages, r # Traverser, s # Traverser, Works(r), Works(s),
         Input(r) = Input(s)
  PROVE  r = s
BY Parameters DEF Stages, Traverser, Works, Input, Writer, TarQueue, Packer, Compressor

(* A stage has not passed on what it has not taken, and has not taken what *)
(* was not passed on to it.                                                *)
LEMMA Positions ==
  ASSUME TypeOK, NEW o \in [Stages -> Nat], NEW t \in [Stages -> Nat], Streams(o, t),
         NEW s \in Stages, s # Traverser, Works(s)
  PROVE  /\ Input(s) \in Stages /\ Input(s) \in Queues
         /\ o[s] \in Nat /\ t[s] \in Nat /\ o[Input(s)] \in Nat
         /\ Len(items[Input(s)]) \in Nat /\ items[Input(s)] \in Seq(1 .. Files + 2)
         /\ o[s] <= t[s] + Extra(s) /\ Extra(s) \in 0 .. 1
         /\ t[s] + Len(items[Input(s)]) <= o[Input(s)]
         /\ Passed(o, t, s) /\ Taken(o, t, s)
<1>1. Input(s) \in Stages /\ Input(s) \in Queues
  BY InputWorks, StageNumbers
<1>2. Passed(o, t, s) /\ Taken(o, t, s)
  BY DEF Streams
<1>3. items[Input(s)] \in Seq(1 .. Files + 2)
  BY <1>1 DEF TypeOK
<1> QED
  BY <1>1, <1>2, <1>3 DEF Passed, Taken, Extra

(* Only the packer and the compressor add something of their own, and all  *)
(* but the compressor work in every transfer.                              *)
LEMMA WriterWorks ==
  /\ Works(Writer) /\ Writer # Traverser /\ Extra(Writer) = 0 /\ Works(Traverser)
  /\ \A s \in Stages : s # Packer /\ s # Compressor => Extra(s) = 0 /\ Works(s)
BY StageOrder DEF Works, Extra

(* A stage that is not concerned.                                          *)
LEMMA TakenStays ==
  ASSUME TypeOK, NEW o \in [Stages -> Nat], NEW t \in [Stages -> Nat], Streams(o, t),
         NEW p \in [Stages -> Nat], NEW u \in [Stages -> Nat],
         NEW r \in Stages, r # Traverser, Works(r),
         \A i \in 1 .. o[Input(r)] : Content(u, Input(r), i) = Content(t, Input(r), i),
         u[r] = t[r], p[Input(r)] = o[Input(r)],
         AtEnd(r)' => AtEnd(r), Carrying(r)' => Carrying(r) /\ held'[r] = held[r],
         scenario' = scenario, items'[Input(r)] = items[Input(r)],
         status'[Input(r)] = status[Input(r)]
  PROVE  Taken(p, u, r)'
<1>1. /\ Taken(o, t, r) /\ Passed(o, t, r)
      /\ t[r] + Len(items[Input(r)]) <= o[Input(r)] /\ Len(items[Input(r)]) \in Nat
      /\ t[r] \in Nat /\ o[r] \in Nat /\ o[Input(r)] \in Nat
  BY Positions
<1>2. Input(r)' = Input(r)
  BY DEF Input, Raw
<1>3. \A i \in 1 .. Len(items[Input(r)]) :
        Content(u, Input(r), t[r] + i) = Content(t, Input(r), t[r] + i)
  <2>1. \A i \in 1 .. Len(items[Input(r)]) : t[r] + i \in 1 .. o[Input(r)]
    BY <1>1
  <2> QED BY <2>1
<1>4. Carrying(r) => Content(u, Input(r), t[r]) = Content(t, Input(r), t[r])
  <2>1. Carrying(r) => t[r] \in 1 .. o[Input(r)]
    BY <1>1 DEF Passed
  <2> QED BY <2>1
<1>5. /\ t[r] + Len(items[Input(r)]) <= o[Input(r)]
      /\ \A i \in 1 .. Len(items[Input(r)]) : items[Input(r)][i] = Content(t, Input(r), t[r] + i)
      /\ Carrying(r) => held[r] = Content(t, Input(r), t[r])
      /\ AtEnd(r) => t[r] = o[Input(r)] /\ status[Input(r)] # "Open"
      /\ status[Input(r)] # "Abandoned" => t[r] + Len(items[Input(r)]) = o[Input(r)]
  BY <1>1 DEF Taken
<1>6. (AtEnd(r) => u[r] = p[Input(r)] /\ status[Input(r)] # "Open")'
  BY <1>2, <1>5
<1>7. /\ (u[r] + Len(items[Input(r)]) <= p[Input(r)])'
      /\ (status[Input(r)] # "Abandoned" => u[r] + Len(items[Input(r)]) = p[Input(r)])'
  BY <1>2, <1>5
<1>8. (\A i \in 1 .. Len(items[Input(r)]) : items[Input(r)][i] = Content(u, Input(r), u[r] + i))'
  BY <1>2, <1>3, <1>5
<1>9. (Carrying(r) => held[r] = Content(u, Input(r), u[r]))'
  BY <1>2, <1>4, <1>5
<1> QED
  BY <1>6, <1>7, <1>8, <1>9 DEF Taken

(* A stage takes an item, to work on it or to throw.                       *)
LEMMA TakingKeepsStreams ==
  ASSUME TypeOK, Places, NEW o \in [Stages -> Nat], NEW t \in [Stages -> Nat], Streams(o, t),
         NEW s \in Stages, s # Traverser, Works(s), pc[s] = "take",
         items[Input(s)] # <<>>,
         items' = [items EXCEPT ![Input(s)] = Tail(@)],
         \/ /\ pc' = [pc EXCEPT ![s] = "handling"] /\ held' = held
         \/ /\ \E p \in {"acquire", "hold"} : pc' = [pc EXCEPT ![s] = p]
            /\ held' = [held EXCEPT ![s] = Head(items[Input(s)])],
         UNCHANGED <<scenario, status, produced, sink, result>>
  PROVE  Streams(o, [t EXCEPT ![s] = @ + 1])'
<1> DEFINE q == Input(s)
           u == [t EXCEPT ![s] = @ + 1]
<1>1. \A r \in Stages : Works(r)' = Works(r) /\ Input(r)' = Input(r)
  BY DEF Works, Raw, Input
<1>2. /\ u \in [Stages -> Nat] /\ u[s] = t[s] + 1
      /\ \A r \in Stages : r # s => u[r] = t[r]
  OBVIOUS
<1>3. /\ \A r \in Stages : r # s => /\ pc'[r] = pc[r] /\ held'[r] = held[r]
                                    /\ AtEnd(r)' = AtEnd(r) /\ Carrying(r)' = Carrying(r)
      /\ pc'[s] \in {"handling", "acquire", "hold"} /\ result'[s] = "none"
      /\ Carrying(s)' => held'[s] = Head(items[q])
  BY DEF TypeOK, Places, AtEnd, Carrying
<1>4. /\ q \in Queues /\ items'[q] = Tail(items[q])
      /\ \A r \in Queues : r # q => items'[r] = items[r]
  BY Positions DEF TypeOK
<1> HIDE DEF u
<1>5. \A r \in Queues : \A i \in 1 .. o[r] : Works(r) => Content(u, r, i) = Content(t, r, i)
  <2> SUFFICES ASSUME NEW r \in Queues, NEW i \in 1 .. o[r], Works(r)
               PROVE  Content(u, r, i) = Content(t, r, i)
    OBVIOUS
  <2>1. /\ TypeOK /\ o \in [Stages -> Nat] /\ t \in [Stages -> Nat] /\ Streams(o, t)
        /\ s \in Stages /\ Works(s) /\ pc[s] = "take"
    OBVIOUS
  <2> QED BY ONLY <1>2, <2>1, ContentStays, r \in Queues, i \in 1 .. o[r], Works(r)
<1>6. Ends(o, u)'
  <2>1. Ends(o, t)
    BY DEF Streams
  <2>2. \A i \in 1 .. Len(sink) : Content(u, Input(Writer), i) = Content(t, Input(Writer), i)
    <3>1. /\ o[Writer] <= t[Writer] + Extra(Writer) /\ Len(items[Input(Writer)]) \in Nat
          /\ t[Writer] + Len(items[Input(Writer)]) <= o[Input(Writer)]
          /\ o[Writer] \in Nat /\ t[Writer] \in Nat /\ o[Input(Writer)] \in Nat
          /\ Extra(Writer) = 0 /\ o[Writer] = Len(sink)
      BY <2>1, StageOrder, WriterWorks, Positions DEF Ends
    <3>2. /\ Works(Input(Writer)) /\ Input(Writer) \in Queues /\ o[Input(Writer)] \in Nat
      BY <3>1, StageOrder, WriterWorks, InputWorks
    <3>4. Len(sink) <= o[Input(Writer)]
      BY <3>1
    <3>3. \A i \in 1 .. Len(sink) : i \in 1 .. o[Input(Writer)]
      BY <3>1, <3>4
    <3> QED BY <1>5, <3>2, <3>3
  <2> QED
    BY <1>1, <1>2, <1>3, <2>1, <2>2, StageOrder DEF Ends
<1>7. ASSUME NEW r \in Stages, Works(r) PROVE Passed(o, u, r)'
  <2>1. Passed(o, t, r)
    BY <1>7 DEF Streams
  <2>2. CASE r = s
    BY <1>2, <1>3, <2>1, <2>2 DEF Passed, Carrying, Extra
  <2>3. CASE r # s
    BY <1>2, <1>3, <2>1, <2>3 DEF Passed, Extra
  <2> QED BY <2>2, <2>3
<1>8. ASSUME NEW r \in Stages, Works(r), r # Traverser PROVE Taken(o, u, r)'
  <2>1. /\ Input(r) \in Queues /\ Works(Input(r)) /\ Taken(o, t, r) /\ Passed(o, t, r)
        /\ t[r] + Len(items[Input(r)]) <= o[Input(r)] /\ Len(items[Input(r)]) \in Nat
        /\ t[r] \in Nat /\ o[r] \in Nat /\ o[Input(r)] \in Nat
    BY <1>8, Positions, InputWorks
  <2>2. CASE r = s
    <3>0. t[s] \in Nat /\ Len(items[q]) \in Nat /\ t[s] + Len(items[q]) <= o[q] /\ o[q] \in Nat
      BY <2>1, <2>2
    <3> DEFINE n == Len(items[q])
    <3>1. /\ Len(items[q]) \in Nat \ {0} /\ items[q] \in Seq(1 .. Files + 2)
          /\ Len(Tail(items[q])) = Len(items[q]) - 1
          /\ \A i \in 1 .. Len(items[q]) - 1 : Tail(items[q])[i] = items[q][i + 1]
          /\ Head(items[q]) = items[q][1]
      BY <1>4 DEF TypeOK
    <3>2. \A i \in 1 .. Len(items[q]) : /\ items[q][i] = Content(t, q, t[s] + i)
                                        /\ Content(t, q, t[s] + i) = Content(u, q, t[s] + i)
      <4>1. \A i \in 1 .. Len(items[q]) : t[s] + i \in 1 .. o[q]
        BY <2>1, <2>2, <3>1
      <4> QED BY <1>5, <2>1, <2>2, <4>1 DEF Taken
    <3>3. t[s] + 1 + Len(items'[q]) = t[s] + Len(items[q])
      <4>1. Len(items'[q]) = n - 1 /\ n \in Nat
        BY <1>4, <3>0, <3>1
      <4> HIDE DEF n
      <4> QED BY <3>0, <4>1 DEF n
    <3>4. \A i \in 1 .. Len(items'[q]) : items'[q][i] = Content(u, q, u[s] + i)
      <4>1. \A i \in 1 .. Len(items[q]) - 1 : /\ i + 1 \in 1 .. Len(items[q])
                                              /\ t[s] + (i + 1) = (t[s] + 1) + i
        BY SMTT(30), <3>0
      <4>2. Len(items'[q]) = n - 1 /\ items'[q] = Tail(items[q])
        BY <1>4, <3>1
      <4> SUFFICES ASSUME NEW i \in 1 .. n - 1 PROVE Tail(items[q])[i] = Content(u, q, u[s] + i)
        BY <4>2
      <4>3. Tail(items[q])[i] = items[q][i + 1] /\ items[q][i + 1] = Content(u, q, t[s] + (i + 1))
        BY <3>1, <3>2, <4>1
      <4> QED BY <1>2, <4>1, <4>3
    <3>5. Head(items[q]) = Content(u, q, u[s])
      BY <1>2, <3>1, <3>2
    <3>6. ~AtEnd(s)'
      BY <1>3 DEF AtEnd
    <3> QED
      BY <1>1, <1>2, <1>3, <2>1, <2>2, <3>3, <3>4, <3>5, <3>6 DEF Taken
  <2>3. CASE r # s
    <3>1. Input(r) # q
      BY <1>8, <2>3, InputsDiffer
    <3>2. \A i \in 1 .. o[Input(r)] : Content(u, Input(r), i) = Content(t, Input(r), i)
      BY <1>5, <2>1
    <3>3. /\ items'[Input(r)] = items[Input(r)] /\ u[r] = t[r]
          /\ (AtEnd(r)' => AtEnd(r)) /\ (Carrying(r)' => Carrying(r) /\ held'[r] = held[r])
      BY <1>2, <1>3, <1>4, <2>1, <2>3, <3>1
    <3> QED
      BY <1>2, <1>8, <3>2, <3>3, TakenStays
  <2> QED BY <2>2, <2>3
<1> QED
  BY <1>1, <1>6, <1>7, <1>8 DEF Streams, u

(* The item a stage holds is the one its output has to get next.           *)
LEMMA ItemToPass ==
  ASSUME TypeOK, NEW o \in [Stages -> Nat], NEW t \in [Stages -> Nat], Streams(o, t),
         NEW s \in Queues, Works(s), pc[s] = "hold"
  PROVE  held[s] = Content(t, s, o[s] + 1)
<1>1. s \in Stages /\ Passed(o, t, s) /\ t[s] = o[s] + 1
  BY StageNumbers DEF Streams, Passed, Carrying
<1>2. CASE s = Traverser
  <2>1. held[s] = t[s]
    BY <1>2 DEF Streams, Ends, Carrying
  <2>2. s < Packer
    BY <1>2, Parameters DEF Traverser, Packer
  <2> QED BY <1>1, <2>1, <2>2 DEF Content
<1>3. CASE s # Traverser
  <2>1. held[s] = Content(t, Input(s), t[s])
    BY <1>1, <1>3 DEF Streams, Taken, Carrying
  <2>2. \/ s < Packer /\ Input(s) < Packer
        \/ s = Packer /\ Input(s) < Packer
        \/ s = Compressor /\ Input(s) = Packer
    BY <1>3, Parameters DEF Queues, Traverser, Packer, Compressor, Writer, Input
  <2>3. /\ t[s] \in Nat /\ ~(Compressor < Packer) /\ Packer # Compressor /\ ~(Packer < Packer)
        /\ t[s] <= t[s]
    BY <1>1, StageOrder
  <2> QED BY <1>1, <2>1, <2>2, <2>3 DEF Content
<1> QED BY <1>2, <1>3

(* A stage passes an item on, or the end of its format.                    *)
LEMMA PassingKeepsStreams ==
  ASSUME TypeOK, Places, NEW o \in [Stages -> Nat], NEW t \in [Stages -> Nat], Streams(o, t),
         NEW s \in Queues, Works(s), status[s] = "Open",
         NEW item \in 1 .. Files + 2, item = Content(t, s, o[s] + 1),
         items' = [items EXCEPT ![s] = Append(@, item)],
         \/ pc[s] = "hold" /\ pc' = [pc EXCEPT ![s] = "take"]
         \/ /\ pc[s] = "flush" /\ s \in {Packer, Compressor}
            /\ pc' = [pc EXCEPT ![s] = "close"],
         UNCHANGED <<scenario, status, held, produced, sink, result>>
  PROVE  Streams([o EXCEPT ![s] = @ + 1], t)'
<1> DEFINE p == [o EXCEPT ![s] = @ + 1]
<1>1. \A r \in Stages : Works(r)' = Works(r) /\ Input(r)' = Input(r)
  BY DEF Works, Raw, Input
<1>2. /\ s \in Stages /\ s # Writer
      /\ p \in [Stages -> Nat] /\ p[s] = o[s] + 1
      /\ \A r \in Stages : r # s => p[r] = o[r]
  <2>1. s \in Stages /\ s # Writer
    BY StageNumbers, StageOrder
  <2> QED BY <2>1
<1>3. /\ \A r \in Stages : /\ r # s => pc'[r] = pc[r]
                           /\ AtEnd(r)' => AtEnd(r)
                           /\ Carrying(r)' => Carrying(r)
      /\ result'[s] = "none"
  BY <1>2 DEF TypeOK, Places, AtEnd, Carrying
<1>4. /\ items'[s] = Append(items[s], item)
      /\ \A r \in Queues : r # s => items'[r] = items[r]
  BY DEF TypeOK
<1> HIDE DEF p
<1>5. Ends(p, t)'
  <2>1. Ends(o, t)
    BY DEF Streams
  <2> QED
    BY <1>1, <1>2, <1>3, <2>1, StageOrder DEF Ends
<1>6. ASSUME NEW r \in Stages, Works(r) PROVE Passed(p, t, r)'
  <2>1. Passed(o, t, r) /\ o[r] \in Nat /\ t[r] \in Nat
    BY <1>6 DEF Streams
  <2>2. CASE r = s
    BY <1>2, <1>3, <2>1, <2>2 DEF Passed, Carrying, Extra, TypeOK
  <2>3. CASE r # s
    BY <1>2, <1>3, <2>1, <2>3 DEF Passed, Carrying, Extra
  <2> QED BY <2>2, <2>3
<1>7. ASSUME NEW r \in Stages, Works(r), r # Traverser PROVE Taken(p, t, r)'
  <2>1. CASE Input(r) # s
    <3>1. Input(r) \in Queues /\ Input(r) \in Stages
      BY <1>7, Positions
    <3>2. items'[Input(r)] = items[Input(r)] /\ p[Input(r)] = o[Input(r)]
      BY <1>2, <1>4, <2>1, <3>1
    <3> QED
      BY <1>2, <1>3, <1>7, <3>1, <3>2, TakenStays
  <2>2. CASE Input(r) = s
    <3>1. /\ Taken(o, t, r) /\ t[r] \in Nat /\ o[s] \in Nat
          /\ Len(items[s]) \in Nat /\ items[s] \in Seq(1 .. Files + 2)
      BY <1>7, <2>2, Positions
    <3>2. ~AtEnd(r) /\ t[r] + Len(items[s]) = o[s]
      BY <2>2, <3>1 DEF Taken
    <3>3. /\ Len(items'[s]) = Len(items[s]) + 1
          /\ \A i \in 1 .. Len(items[s]) : items'[s][i] = items[s][i]
          /\ items'[s][Len(items[s]) + 1] = item
      BY <1>4, <3>1
    <3>4. (t[r] + Len(items[s]) = p[s])'
      <4> DEFINE n == Len(items[s])
      <4> HIDE DEF n
      <4>1. t[r] + n = o[s] /\ Len(items'[s]) = n + 1 /\ n \in Nat
        BY <3>1, <3>2, <3>3 DEF n
      <4> QED BY SMTT(30), <1>2, <3>1, <4>1
    <3>5. (\A i \in 1 .. Len(items[s]) : items[s][i] = Content(t, s, t[r] + i))'
      <4> DEFINE n == Len(items[s])
      <4>1. \A i \in 1 .. n : items[s][i] = Content(t, s, t[r] + i)
        BY <2>2, <3>1 DEF Taken
      <4>4. n \in Nat /\ t[r] + n = o[s]
        BY <3>1, <3>2
      <4> HIDE DEF n
      <4>2. item = Content(t, s, t[r] + (n + 1))
        <5>1. t[r] + (n + 1) = o[s] + 1
          BY <3>1, <4>4
        <5> QED BY <5>1
      <4>3. \A i \in 1 .. n + 1 : i \in 1 .. n \/ i = n + 1
        BY <4>4
      <4> USE DEF n
      <4> QED BY <3>3, <4>1, <4>2, <4>3
    <3>6. ~AtEnd(r)' /\ (Carrying(r)' => Carrying(r)) /\ Input(r)' = s /\ held'[r] = held[r]
      BY <1>1, <1>3, <2>2, <3>2
    <3>7. Carrying(r) => held[r] = Content(t, s, t[r])
      BY <2>2, <3>1 DEF Taken
    <3>8. (t[r] + Len(items[s]) <= p[s])'
      BY <1>2, <3>1, <3>4
    <3> QED
      BY <3>4, <3>5, <3>6, <3>7, <3>8 DEF Taken
  <2> QED BY <2>1, <2>2
<1> QED
  BY <1>1, <1>5, <1>6, <1>7 DEF Streams, p

(* The writer writes an item.                                              *)
LEMMA WritingKeepsStreams ==
  ASSUME TypeOK, Places, NEW o \in [Stages -> Nat], NEW t \in [Stages -> Nat], Streams(o, t),
         pc[Writer] = "hold", pc' = [pc EXCEPT ![Writer] = "take"],
         sink' = Append(sink, held[Writer]),
         UNCHANGED <<scenario, status, items, held, produced, result>>
  PROVE  Streams([o EXCEPT ![Writer] = @ + 1], t)'
<1> DEFINE p == [o EXCEPT ![Writer] = @ + 1]
<1>1. \A r \in Stages : Works(r)' = Works(r) /\ Input(r)' = Input(r)
  BY DEF Works, Raw, Input
<1>2. /\ Writer \in Stages /\ Writer # Traverser /\ Works(Writer)
      /\ p \in [Stages -> Nat] /\ p[Writer] = o[Writer] + 1
      /\ \A r \in Stages : r # Writer => p[r] = o[r]
  <2>1. Writer \in Stages /\ Writer # Traverser /\ Works(Writer)
    BY StageOrder, WriterWorks
  <2> QED BY <2>1
<1>3. /\ \A r \in Stages : /\ r # Writer => pc'[r] = pc[r]
                           /\ AtEnd(r)' => AtEnd(r)
                           /\ Carrying(r)' => Carrying(r)
      /\ result'[Writer] = "none" /\ pc'[Writer] = "take" /\ ~Carrying(Writer)'
  BY <1>2 DEF TypeOK, Places, AtEnd, Carrying
<1> HIDE DEF p
<1>4. /\ Passed(o, t, Writer) /\ Taken(o, t, Writer)
      /\ t[Writer] = o[Writer] + 1 /\ t[Writer] \in Nat /\ o[Writer] \in Nat
      /\ held[Writer] = Content(t, Input(Writer), t[Writer])
  BY <1>2 DEF Streams, Passed, Taken, Carrying
<1>5. Ends(p, t)'
  <2>1. Ends(o, t)
    BY DEF Streams
  <2>2. /\ (t[Traverser] = produced)'
        /\ (Carrying(Traverser) => held[Traverser] = produced)'
        /\ (result[Traverser] = "ok" => produced = scenario.files)'
    BY <1>3, <2>1, StageOrder DEF Ends
  <2>3. held[Writer] \in 1 .. Files + 2
    BY <1>2 DEF TypeOK, Places
  <2>4. /\ Len(sink') = Len(sink) + 1 /\ Len(sink) \in Nat
        /\ \A i \in 1 .. Len(sink) : sink'[i] = sink[i]
        /\ sink'[Len(sink) + 1] = held[Writer]
    BY <2>3 DEF TypeOK
  <2>5. (p[Writer] = Len(sink))'
    BY <1>2, <2>1, <2>4 DEF Ends
  <2>6. (\A i \in 1 .. Len(sink) : sink[i] = Content(t, Input(Writer), i))'
    <3> DEFINE n == Len(sink)
    <3>1. /\ n \in Nat /\ Len(sink') = n + 1 /\ t[Writer] = n + 1
      BY <1>4, <2>1, <2>4 DEF Ends
    <3>2. \A i \in 1 .. n : sink'[i] = Content(t, Input(Writer), i)
      BY <2>1, <2>4 DEF Ends
    <3>3. sink'[n + 1] = Content(t, Input(Writer), n + 1)
      BY <1>4, <2>4, <3>1
    <3> HIDE DEF n
    <3>4. \A i \in 1 .. n + 1 : i \in 1 .. n \/ i = n + 1
      BY <3>1
    <3> QED BY <1>1, <1>2, <3>1, <3>2, <3>3, <3>4
  <2> QED BY <2>2, <2>5, <2>6 DEF Ends
<1>6. ASSUME NEW r \in Stages, Works(r) PROVE Passed(p, t, r)'
  <2>1. Passed(o, t, r) /\ o[r] \in Nat /\ t[r] \in Nat
    BY <1>6 DEF Streams
  <2>2. CASE r = Writer
    BY <1>2, <1>3, <1>4, <2>1, <2>2, WriterWorks DEF Passed
  <2>3. CASE r # Writer
    BY <1>2, <1>3, <2>1, <2>3 DEF Passed, Carrying, Extra
  <2> QED BY <2>2, <2>3
<1>7. ASSUME NEW r \in Stages, Works(r), r # Traverser PROVE Taken(p, t, r)'
  <2>1. Input(r) \in Queues /\ Input(r) \in Stages /\ Input(r) # Writer
    BY <1>7, Positions, StageOrder
  <2> QED
    BY <1>2, <1>3, <1>7, <2>1, TakenStays
<1> QED
  BY <1>1, <1>5, <1>6, <1>7 DEF Streams, p

(* The traverser finds an entry.                                           *)
LEMMA FindingKeepsStreams ==
  ASSUME TypeOK, Places, NEW o \in [Stages -> Nat], NEW t \in [Stages -> Nat], Streams(o, t),
         pc[Traverser] = "take", pc' = [pc EXCEPT ![Traverser] = "hold"],
         produced' = produced + 1, held' = [held EXCEPT ![Traverser] = produced + 1],
         UNCHANGED <<scenario, status, items, sink, result>>
  PROVE  Streams(o, [t EXCEPT ![Traverser] = @ + 1])'
<1> DEFINE u == [t EXCEPT ![Traverser] = @ + 1]
<1>1. \A r \in Stages : Works(r)' = Works(r) /\ Input(r)' = Input(r)
  BY DEF Works, Raw, Input
<1>2. /\ Traverser \in Stages /\ Works(Traverser)
      /\ u \in [Stages -> Nat] /\ u[Traverser] = t[Traverser] + 1
      /\ \A r \in Stages : r # Traverser => u[r] = t[r]
  <2>1. Traverser \in Stages /\ Works(Traverser)
    BY StageOrder, WriterWorks
  <2> QED BY <2>1
<1>3. /\ \A r \in Stages : r # Traverser => /\ pc'[r] = pc[r] /\ held'[r] = held[r]
                                            /\ AtEnd(r)' => AtEnd(r)
                                            /\ Carrying(r)' => Carrying(r)
      /\ result'[Traverser] = "none" /\ pc'[Traverser] = "hold"
      /\ held'[Traverser] = produced'
  BY <1>2 DEF TypeOK, Places, AtEnd, Carrying
<1> HIDE DEF u
<1>4. u[Packer] = t[Packer] /\ u[Compressor] = t[Compressor]
  BY <1>2, StageOrder
<1>5. \A q, i \in Nat : Content(u, q, i) = Content(t, q, i)
  BY <1>4 DEF Content
<1>6. Ends(o, u)'
  <2>1. Ends(o, t)
    BY DEF Streams
  <2>2. Input(Writer) \in Nat /\ \A i \in 1 .. Len(sink) : i \in Nat
    <3>1. Input(Writer) \in Stages
      BY StageOrder, WriterWorks, Positions
    <3> QED BY <3>1, StageNumbers
  <2>3. \A i \in 1 .. Len(sink) : Content(u, Input(Writer), i) = Content(t, Input(Writer), i)
    BY <1>5, <2>2
  <2> QED
    BY <1>1, <1>2, <1>3, <2>1, <2>3, StageOrder DEF Ends
<1>7. ASSUME NEW r \in Stages, Works(r) PROVE Passed(o, u, r)'
  <2>1. Passed(o, t, r) /\ o[r] \in Nat /\ t[r] \in Nat
    BY <1>7 DEF Streams
  <2>2. CASE r = Traverser
    BY <1>2, <1>3, <2>1, <2>2 DEF Passed, Carrying, Extra
  <2>3. CASE r # Traverser
    BY <1>2, <1>3, <2>1, <2>3 DEF Passed, Carrying, Extra
  <2> QED BY <2>2, <2>3
<1>8. ASSUME NEW r \in Stages, Works(r), r # Traverser PROVE Taken(o, u, r)'
  <2>1. Input(r) \in Nat /\ o[Input(r)] \in Nat
    BY <1>8, Positions, StageNumbers
  <2>2. \A i \in 1 .. o[Input(r)] : Content(u, Input(r), i) = Content(t, Input(r), i)
    BY <1>5, <2>1
  <2> QED
    BY <1>2, <1>3, <1>8, <2>2, TakenStays
<1> QED
  BY <1>1, <1>6, <1>7, <1>8 DEF Streams, u

(* A stage comes to the end of its input, or ends.                         *)
LEMMA EndingKeepsStreams ==
  ASSUME TypeOK, Places, NEW o \in [Stages -> Nat], NEW t \in [Stages -> Nat], Streams(o, t),
         NEW s \in Stages, Works(s), pc[s] \in {"take", "flush", "close"},
         s = Traverser => produced = scenario.files,
         s # Traverser =>
           AtEnd(s) \/ (items[Input(s)] = <<>> /\ status[Input(s)] = "Closed"),
         \/ pc' = [pc EXCEPT ![s] = "flush"] /\ UNCHANGED result /\ pc[s] = "take"
         \/ /\ pc' = [pc EXCEPT ![s] = "done"] /\ result' = [result EXCEPT ![s] = "ok"]
            /\ pc[s] = "close" \/ s \notin {Packer, Compressor},
         \A q \in Queues : status'[q] = status[q] \/ (status[q] = "Open" /\ status'[q] = "Closed"),
         UNCHANGED <<scenario, items, held, produced, sink>>
  PROVE  Streams(o, t)'
<1>1. \A r \in Stages : Works(r)' = Works(r) /\ Input(r)' = Input(r)
  BY DEF Works, Raw, Input
<1>2. /\ \A r \in Stages : /\ r # s => pc'[r] = pc[r] /\ result'[r] = result[r]
                           /\ r # s => (AtEnd(r)' => AtEnd(r))
                           /\ Carrying(r)' => Carrying(r)
      /\ \/ pc'[s] = "flush" /\ result'[s] = "none" /\ pc[s] = "take"
         \/ /\ pc'[s] = "done" /\ result'[s] = "ok"
            /\ pc[s] = "close" \/ s \notin {Packer, Compressor}
  BY DEF TypeOK, Places, AtEnd, Carrying
<1>3. Ends(o, t)'
  <2>1. /\ t[Traverser] = produced /\ o[Writer] = Len(sink)
        /\ Carrying(Traverser) => held[Traverser] = produced
        /\ result[Traverser] = "ok" => produced = scenario.files
        /\ \A i \in 1 .. Len(sink) : sink[i] = Content(t, Input(Writer), i)
    BY DEF Streams, Ends
  <2>2. /\ produced' = produced /\ sink' = sink /\ held' = held /\ scenario' = scenario
        /\ Input(Writer)' = Input(Writer) /\ (Carrying(Traverser)' => Carrying(Traverser))
    BY <1>1, <1>2, StageOrder
  <2>3. result'[Traverser] = "ok" => produced = scenario.files
    BY <1>2, <2>1, StageOrder
  <2>4. \A i \in 1 .. Len(sink) : Content(t, Input(Writer), i)' = Content(t, Input(Writer), i)
    BY <2>2 DEF Content
  <2> QED BY <2>1, <2>2, <2>3, <2>4 DEF Ends
<1>4. ASSUME NEW r \in Stages, Works(r) PROVE Passed(o, t, r)'
  <2>1. Passed(o, t, r) /\ o[r] \in Nat /\ t[r] \in Nat
    BY <1>4 DEF Streams
  <2>2. CASE r = s
    BY <1>2, <2>1, <2>2 DEF Passed, Carrying, Extra
  <2>3. CASE r # s
    BY <1>2, <2>1, <2>3 DEF Passed, Carrying, Extra
  <2> QED BY <2>2, <2>3
<1>5. ASSUME NEW r \in Stages, Works(r), r # Traverser PROVE Taken(o, t, r)'
  <2>1. /\ Input(r) \in Queues /\ Taken(o, t, r) /\ t[r] \in Nat /\ o[Input(r)] \in Nat
        /\ Len(items[Input(r)]) \in Nat
    BY <1>5, Positions
  <2>2. (AtEnd(r) => t[r] = o[Input(r)] /\ status[Input(r)] # "Open")'
    <3>1. CASE r # s
      BY <1>1, <1>2, <2>1, <3>1 DEF Taken
    <3>2. CASE r = s
      <4>1. CASE AtEnd(s)
        BY <1>1, <2>1, <3>2, <4>1 DEF Taken
      <4>2. CASE items[Input(s)] = <<>> /\ status[Input(s)] = "Closed"
        <5>1. Len(items[Input(s)]) = 0
          BY <4>2
        <5> QED
          BY <1>1, <2>1, <3>2, <4>2, <5>1 DEF Taken
      <4> QED BY <1>5, <3>2, <4>1, <4>2
    <3> QED BY <3>1, <3>2
  <2> QED
    BY <1>1, <1>2, <2>1, <2>2 DEF Taken
<1> QED
  BY <1>1, <1>3, <1>4, <1>5 DEF Streams

(* A cancel slot abandons a queue.                                         *)
LEMMA AbandoningKeepsStreams ==
  ASSUME TypeOK, NEW o \in [Stages -> Nat], NEW t \in [Stages -> Nat], Streams(o, t),
         NEW q \in Queues, status' = [status EXCEPT ![q] = "Abandoned"],
         items' = [items EXCEPT ![q] = <<>>],
         UNCHANGED <<scenario, pc, held, produced, sink, result>>
  PROVE  Streams(o, t)'
<1>1. \A r \in Stages : /\ Works(r)' = Works(r) /\ Input(r)' = Input(r)
                        /\ AtEnd(r)' = AtEnd(r) /\ Carrying(r)' = Carrying(r)
  BY DEF Works, Raw, Input, AtEnd, Carrying
<1>2. Ends(o, t)'
  BY <1>1, StageOrder DEF Streams, Ends
<1>3. ASSUME NEW r \in Stages, Works(r) PROVE Passed(o, t, r)'
  BY <1>1, <1>3 DEF Streams, Passed, Extra
<1>4. ASSUME NEW r \in Stages, Works(r), r # Traverser PROVE Taken(o, t, r)'
  <2>1. /\ Input(r) \in Queues /\ Taken(o, t, r) /\ t[r] \in Nat /\ o[Input(r)] \in Nat
        /\ Len(items[Input(r)]) \in Nat /\ t[r] + Len(items[Input(r)]) <= o[Input(r)]
    BY <1>4, Positions
  <2>2. /\ items'[q] = <<>> /\ status'[q] = "Abandoned" /\ Len(<<>>) = 0
        /\ \A x \in Queues : x # q => items'[x] = items[x] /\ status'[x] = status[x]
    BY DEF TypeOK
  <2>3. CASE Input(r) # q
    BY <1>1, <2>1, <2>2, <2>3 DEF Taken
  <2>4. CASE Input(r) = q
    <3>1. t[r] <= o[q] /\ t[r] + 0 = t[r]
      BY <2>1, <2>4
    <3>2. Carrying(r) => held[r] = Content(t, q, t[r])
      BY <2>1, <2>4 DEF Taken
    <3>3. AtEnd(r) => t[r] = o[q]
      BY <2>1, <2>4 DEF Taken
    <3>4. Len(items'[q]) = 0
      BY <2>2
    <3>5. (\A i \in 1 .. Len(items[q]) : items[q][i] = Content(t, q, t[r] + i))'
      BY <3>4
    <3> QED
      BY <1>1, <1>4, <2>2, <2>4, <3>1, <3>2, <3>3, <3>4, <3>5 DEF Taken
  <2> QED BY <2>3, <2>4
<1> QED
  BY <1>1, <1>2, <1>3, <1>4 DEF Streams

(***************************************************************************)
(* The inductive invariant, and that every step keeps it.                  *)
(***************************************************************************)
IInv == Control /\ Flow

(* At first nothing has flown and nothing has failed.                      *)
LEMMA InitInvariant == Init => IInv
<1> SUFFICES ASSUME Init PROVE IInv
  OBVIOUS
<1>1. TypeOK
  <2>1. Traverser \in 1 .. Over /\ 0 \in 0 .. LastSlot + 1
    BY Parameters DEF Over, Main, LastSlot, ZstdQueue, Compressor, Packer, Writer, Traverser
  <2>2. <<>> \in Seq(1 .. Files + 2) /\ <<>> \in Seq(Queues \cup {Fail}) /\ Len(<<>>) <= Capacity
    BY Parameters
  <2>3. 0 \in 0 .. Files + 2 /\ 0 \in 0 .. Files
    BY Parameters
  <2> QED
    BY <2>1, <2>2, <2>3 DEF Init, TypeOK, Errors
<1>2. Places
  BY StageOrder DEF Init, Places
<1>3. Causes
  BY DEF Init, Causes, Known, Cancelled, RootCauseIsKept
<1>4. Handlers
  BY StageNumbers DEF Init, Handlers
<1>5. Waiting
  <2>1. /\ Traverser = 1 /\ ~(Traverser >= Packer) /\ Traverser # Main + 1
        /\ \A s \in Packer .. Writer : ~(Traverser > s)
    BY Parameters DEF Traverser, Packer, Main, Writer
  <2>2. 1 .. Traverser - 1 = {}
    BY DEF Traverser
  <2> QED BY <2>1, <2>2 DEF Init, Waiting
<1>6. Flow
  <2> DEFINE z == [s \in Stages |-> 0]
  <2>1. z \in [Stages -> Nat] /\ \A s \in Stages : z[s] = 0
    OBVIOUS
  <2> HIDE DEF z
  <2>2. Ends(z, z)
    BY <2>1, StageOrder DEF Init, Ends, Carrying
  <2>3. ASSUME NEW s \in Stages, Works(s) PROVE Passed(z, z, s)
    BY <2>1, <2>3 DEF Init, Passed, Carrying, Extra, Works
  <2>4. ASSUME NEW s \in Stages, Works(s), s # Traverser PROVE Taken(z, z, s)
    <3>1. Input(s) \in Queues /\ Input(s) \in Stages
      BY <2>4, InputWorks, StageNumbers
    <3>2. pc[s] = "take" /\ result[s] = "none" /\ items[Input(s)] = <<>>
          /\ status[Input(s)] = "Open"
      BY <2>4, <3>1 DEF Init, Works
    <3>3. Len(items[Input(s)]) = 0
      BY <3>2
    <3> QED
      BY <2>1, <3>1, <3>2, <3>3 DEF Taken, AtEnd, Carrying
  <2> QED
    BY <2>1, <2>2, <2>3, <2>4 DEF Flow, Streams
<1> QED
  BY <1>1, <1>2, <1>3, <1>4, <1>5, <1>6 DEF IInv, Control

(* Cancelling makes nothing unknown.                                       *)
LEMMA CancellingKeepsControl ==
  ASSUME Control, Cancel \/ CancelSlot
  PROVE  Control'
<1> USE DEF Control
<1>1. /\ cancel' \in 0 .. LastSlot + 1 /\ Cancelled' /\ scenario.cancel
      /\ UNCHANGED <<scenario, pc, held, produced, sink, todo, error, result, state, main, ended,
                     report>>
  <2>1. LastSlot \in Nat /\ cancel \in 0 .. LastSlot + 1
    BY Parameters DEF LastSlot, ZstdQueue, Compressor, Packer, TypeOK
  <2>2. CASE Cancel
    BY <2>1, <2>2 DEF Cancel, Cancelled
  <2>3. CASE CancelSlot
    BY <2>1, <2>3 DEF CancelSlot, Cancelled, Causes
  <2> QED BY <2>2, <2>3
<1>2. /\ \A q \in Queues : \/ status'[q] = status[q] /\ items'[q] = items[q]
                           \/ status'[q] = "Abandoned" /\ items'[q] = <<>>
      /\ status' \in [Queues -> {"Open", "Closed", "Abandoned"}]
      /\ items' \in [Queues -> Seq(1 .. Files + 2)]
  <2>1. CASE UNCHANGED <<status, items>>
    BY <2>1 DEF TypeOK
  <2>2. ASSUME NEW q \in Queues, status' = [status EXCEPT ![q] = "Abandoned"],
               items' = [items EXCEPT ![q] = <<>>]
        PROVE  /\ \A r \in Queues : \/ status'[r] = status[r] /\ items'[r] = items[r]
                                    \/ status'[r] = "Abandoned" /\ items'[r] = <<>>
               /\ status' \in [Queues -> {"Open", "Closed", "Abandoned"}]
               /\ items' \in [Queues -> Seq(1 .. Files + 2)]
    BY <2>2 DEF TypeOK
  <2>3. \/ UNCHANGED <<status, items>>
        \/ \E q \in Queues : /\ status' = [status EXCEPT ![q] = "Abandoned"]
                            /\ items' = [items EXCEPT ![q] = <<>>]
    BY DEF Cancel, CancelSlot
  <2> QED BY <2>1, <2>2, <2>3
<1>3. /\ Known => Known'
      /\ ToFile' = ToFile /\ ToSocket' = ToSocket /\ Raw' = Raw
  BY <1>1 DEF Known, ToFile, ToSocket, Raw
<1>4. TypeOK'
  <2>1. \A q \in Queues : Len(items'[q]) <= Capacity
    <3>1. Len(<<>>) = 0
      OBVIOUS
    <3> QED BY <1>2, <3>1, Parameters DEF TypeOK
  <2> QED BY <1>1, <1>2, <2>1 DEF TypeOK
<1>5. Places'
  BY <1>1, <1>3 DEF Places
<1>6. Causes'
  <2>1. RootCauseIsKept'
    BY <1>1, <1>3 DEF Causes, RootCauseIsKept
  <2> QED
    BY <1>1, <1>2, <1>3, <2>1 DEF Causes
<1>7. Handlers'
  BY <1>1, <1>3 DEF Handlers, Unrecorded
<1>8. Waiting'
  BY <1>1, <1>3 DEF Waiting
<1> QED
  BY <1>4, <1>5, <1>6, <1>7, <1>8

(* Only a stage without compression to do does not work, and it is done.   *)
LEMMA ActiveWorks ==
  ASSUME TypeOK, Places, NEW s \in Stages, pc[s] \in Active
  PROVE  Works(s) /\ result[s] = "none"
BY DEF TypeOK, Places, Works, Active

(* The numbers t and o stay as they are when nothing moves.                *)
LEMMA QuietKeepsFlow ==
  ASSUME TypeOK, Flow,
         UNCHANGED <<scenario, items, held, produced, sink>>,
         \A s \in Stages : \/ pc'[s] = pc[s] /\ result'[s] = result[s]
                           \/ pc[s] = "acquire" /\ pc'[s] = "hold" /\ result'[s] = result[s]
                           \/ pc'[s] \in {"handling", "done"} /\ result'[s] # "ok",
         \A q \in Queues : status'[q] = status[q] \/ (status[q] = "Open" /\ status'[q] = "Closed")
  PROVE  Flow'
<1>1. PICK o, t \in [Stages -> Nat] : Streams(o, t)
  BY DEF Flow
<1>2. Streams(o, t)'
  BY <1>1, QuietKeepsStreams
<1> QED
  BY <1>2 DEF Flow

(* A stage that fails takes and passes on nothing any more.                *)
LEMMA ThrowKeepsInvariant ==
  ASSUME IInv, NEW s \in Stages, NEW e \in {"own", "closed", "cancelled"}, Throw(s, e),
         pc[s] \in Active, e = "cancelled" => Cancelled, e = "closed" => Known,
         UNCHANGED <<scenario, status, items, held, produced, sink, result, state, main, ended,
                     report, cancel>>
  PROVE  IInv'
<1>1. TypeOK /\ Places /\ Control
  BY DEF IInv, Control
<1>2. Control'
  <2>1. /\ items' \in [Queues -> Seq(1 .. Files + 2)]
        /\ \A q \in Queues : Len(items'[q]) <= Len(items[q])
    BY <1>1, Parameters DEF TypeOK
  <2> QED BY <1>1, <2>1, ThrowKeepsControl
<1>3. Flow'
  <2>1. \A r \in Stages : \/ pc'[r] = pc[r] /\ result'[r] = result[r]
                          \/ pc'[r] = "handling" /\ result'[r] # "ok"
    BY <1>1, ActiveWorks DEF Throw, TypeOK
  <2> QED
    BY <1>1, <2>1, QuietKeepsFlow DEF IInv
<1> QED
  BY <1>2, <1>3 DEF IInv

(* A stage ends normally only when it has taken all there was to take and  *)
(* passed it on, so its stream is cut short only if its input was.         *)
LEMMA EndKeepsInvariant ==
  ASSUME IInv, NEW s \in Stages, pc[s] \in {"take", "flush", "close"},
         s = Traverser => produced = scenario.files,
         s # Traverser =>
           AtEnd(s) \/ (items[Input(s)] = <<>> /\ status[Input(s)] = "Closed"),
         pc[s] = "close" \/ s \notin {Packer, Compressor},
         pc' = [pc EXCEPT ![s] = "done"], result' = [result EXCEPT ![s] = "ok"],
         status' = status \/ (s \in Queues /\ Close(s)),
         UNCHANGED <<scenario, items, held, produced, sink, todo, error, state, main, ended, report,
                     cancel>>
  PROVE  IInv'
<1>1. TypeOK /\ Places /\ Control /\ pc[s] \in Active
  BY DEF IInv, Control, Active
<1>2. Control'
  BY <1>1, EndKeepsControl
<1>3. Flow'
  <2>1. PICK o, t \in [Stages -> Nat] : Streams(o, t)
    BY DEF IInv, Flow
  <2>2. \A q \in Queues : status'[q] = status[q] \/ (status[q] = "Open" /\ status'[q] = "Closed")
    BY <1>1 DEF TypeOK, Close
  <2>3. Works(s)
    BY <1>1, ActiveWorks
  <2>4. Streams(o, t)'
    BY <1>1, <2>1, <2>2, <2>3, EndingKeepsStreams
  <2> QED
    BY <2>1, <2>4 DEF Flow
<1> QED
  BY <1>2, <1>3 DEF IInv

(***************************************************************************)
(* The stages.                                                             *)
(***************************************************************************)
LEMMA TraverseKeepsInvariant ==
  ASSUME IInv, Traverse \/ TraverseEnd
  PROVE  IInv'
<1>1. TypeOK /\ Places /\ Control /\ Traverser \in Stages /\ Traverser \in Queues
  BY StageOrder DEF IInv, Control
<1>2. CASE Traverse /\ Cancelled
  BY <1>1, <1>2, ThrowKeepsInvariant DEF Traverse, Active
<1>3. CASE Traverse /\ ~Cancelled
  <2>1. /\ pc[Traverser] = "take" /\ produced \in Nat /\ produced + 1 \in 1 .. Files
        /\ pc' = [pc EXCEPT ![Traverser] = "hold"]
        /\ held' = [held EXCEPT ![Traverser] = produced + 1] /\ produced' = produced + 1
        /\ UNCHANGED <<scenario, status, items, sink, todo, error, result, state, main, ended,
                       report, cancel>>
    BY <1>1, <1>3, Parameters DEF Traverse, TypeOK
  <2>2. Control'
    <3>1. /\ held' \in [Stages -> 0 .. Files + 2] /\ held'[Traverser] # 0
          /\ \A r \in Stages \ {Traverser} : held'[r] = held[r]
      BY <1>1, <2>1, Parameters DEF TypeOK
    <3>2. produced' \in 0 .. Files
      BY <2>1
    <3>3. \A q \in Queues : /\ Len(items'[q]) <= Capacity
                            /\ status[q] = "Abandoned" => items'[q] = <<>>
      BY <1>1, <2>1 DEF TypeOK, Control, Causes
    <3>4. items' \in [Queues -> Seq(1 .. Files + 2)] /\ sink' \in Seq(1 .. Files + 2)
      BY <1>1, <2>1 DEF TypeOK
    <3> QED
      BY <1>1, <2>1, <3>1, <3>2, <3>3, <3>4, MoveKeepsControl DEF Active
  <2>3. Flow'
    <3>1. PICK o, t \in [Stages -> Nat] : Streams(o, t)
      BY DEF IInv, Flow
    <3>2. Streams(o, [t EXCEPT ![Traverser] = @ + 1])'
      BY <1>1, <2>1, <3>1, FindingKeepsStreams
    <3>3. [t EXCEPT ![Traverser] = @ + 1] \in [Stages -> Nat]
      BY <1>1
    <3> QED BY <3>2, <3>3 DEF Flow
  <2> QED BY <2>2, <2>3 DEF IInv
<1>4. CASE TraverseEnd
  <2>1. Traverser \notin {Packer, Compressor}
    BY StageOrder
  <2> QED
    BY <1>1, <1>4, <2>1, EndKeepsInvariant DEF TraverseEnd, EndStage
<1> QED
  BY <1>2, <1>3, <1>4

(* Take: an item, the end of the input, or a cancellation.                 *)
LEMMA TakeKeepsInvariant ==
  ASSUME IInv, NEW s \in Stages, Take(s)
  PROVE  IInv'
<1> DEFINE q == Input(s)
<1>1. /\ TypeOK /\ Places /\ Control /\ pc[s] = "take" /\ pc[s] \in Active
      /\ s # Traverser /\ Works(s) /\ result[s] = "none"
      /\ UNCHANGED <<scenario, produced, sink, state, main, ended, report, cancel>>
  <2>1. TypeOK /\ Places /\ Control /\ pc[s] = "take" /\ pc[s] \in Active
    BY DEF IInv, Control, Take, Active
  <2>2. s # Traverser
    BY DEF Take, Traverser
  <2> QED BY <2>1, <2>2, ActiveWorks DEF Take
<1>2. q \in Queues /\ items[q] \in Seq(1 .. Files + 2)
  BY <1>1, InputWorks DEF TypeOK
<1>3. CASE items[q] # <<>>
  <2>1. /\ items' = [items EXCEPT ![q] = Tail(@)]
        /\ UNCHANGED <<status, result>>
        /\ \/ Cancelled /\ Throw(s, "cancelled") /\ held' = held
           \/ /\ held' = [held EXCEPT ![s] = Head(items[q])]
              /\ pc' = [pc EXCEPT ![s] = IF s \in AllRelays THEN "acquire" ELSE "hold"]
              /\ UNCHANGED <<error, todo>>
    BY <1>3 DEF Take
  <2>2. /\ items' \in [Queues -> Seq(1 .. Files + 2)]
        /\ \A r \in Queues : Len(items'[r]) <= Len(items[r])
    <3>1. Tail(items[q]) \in Seq(1 .. Files + 2) /\ Len(Tail(items[q])) <= Len(items[q])
      BY <1>2, <1>3, HeadAndTail
    <3>2. \A r \in Queues : Len(items[r]) \in Nat
      BY <1>1 DEF TypeOK
    <3> QED BY <1>1, <1>2, <2>1, <3>1, <3>2 DEF TypeOK
  <2>3. Control'
    <3>1. CASE Throw(s, "cancelled") /\ held' = held /\ Cancelled
      BY <1>1, <2>1, <2>2, <3>1, ThrowKeepsControl
    <3>2. CASE /\ held' = [held EXCEPT ![s] = Head(items[q])]
               /\ pc' = [pc EXCEPT ![s] = IF s \in AllRelays THEN "acquire" ELSE "hold"]
               /\ UNCHANGED <<error, todo>>
      <4>1. Head(items[q]) \in 1 .. Files + 2
        BY <1>2, <1>3, HeadAndTail
      <4>2. /\ held' \in [Stages -> 0 .. Files + 2] /\ held'[s] # 0
            /\ \A r \in Stages \ {s} : held'[r] = held[r]
        BY <1>1, <3>2, <4>1, Parameters DEF TypeOK
      <4>3. \A r \in Queues : /\ Len(items'[r]) <= Capacity
                              /\ status[r] = "Abandoned" => items'[r] = <<>>
        <5>1. \A r \in Queues : /\ Len(items[r]) <= Capacity /\ Len(items[r]) \in Nat
                                /\ Len(items'[r]) \in Nat
          BY <1>1, <2>2 DEF TypeOK
        <5>2. \A r \in Queues : r # q => items'[r] = items[r]
          BY <2>1, <1>1 DEF TypeOK
        <5>3. \A r \in Queues : status[r] = "Abandoned" => items[r] = <<>> /\ r # q
          BY <1>1, <1>3 DEF Control, Causes
        <5> QED BY <2>2, <5>1, <5>2, <5>3, Parameters
      <4>4. produced' \in 0 .. Files /\ sink' \in Seq(1 .. Files + 2)
        BY <1>1 DEF TypeOK
      <4>5. \E p \in {"acquire", "hold"} : /\ pc' = [pc EXCEPT ![s] = p]
                                           /\ p = "acquire" => s \in AllRelays
        BY <3>2
      <4> QED
        BY <1>1, <2>1, <2>2, <3>2, <4>2, <4>3, <4>4, <4>5, MoveKeepsControl DEF Active
    <3> QED BY <2>1, <3>1, <3>2
  <2>4. Flow'
    <3>1. PICK o, t \in [Stages -> Nat] : Streams(o, t)
      BY DEF IInv, Flow
    <3>2. \/ pc' = [pc EXCEPT ![s] = "handling"] /\ held' = held
          \/ /\ \E p \in {"acquire", "hold"} : pc' = [pc EXCEPT ![s] = p]
             /\ held' = [held EXCEPT ![s] = Head(items[Input(s)])]
      BY <2>1 DEF Throw
    <3>3. Streams(o, [t EXCEPT ![s] = @ + 1])'
      BY <1>1, <1>3, <2>1, <3>1, <3>2, TakingKeepsStreams
    <3>4. [t EXCEPT ![s] = @ + 1] \in [Stages -> Nat]
      OBVIOUS
    <3> QED BY <3>3, <3>4 DEF Flow
  <2> QED BY <2>3, <2>4 DEF IInv
<1>4. CASE items[q] = <<>> /\ status[q] = "Closed" /\ s \in Coroutines
  <2>1. /\ EndStage(s) /\ UNCHANGED <<items, held, error, todo>>
    BY <1>4 DEF Take
  <2>2. s \in Queues /\ s \notin {Packer, Compressor}
    BY <1>4, Parameters DEF Coroutines, Queues, Packer, Compressor
  <2> QED
    BY <1>1, <1>4, <2>1, <2>2, EndKeepsInvariant DEF EndStage
<1>5. CASE items[q] = <<>> /\ status[q] = "Closed" /\ s \notin Coroutines
  <2>1. /\ pc' = [pc EXCEPT ![s] = "flush"]
        /\ UNCHANGED <<status, result, items, held, error, todo>>
    BY <1>5 DEF Take
  <2>2. s >= Packer
    BY <1>5, Parameters DEF Stages, Coroutines, Packer
  <2>3. Control'
    <3>1. /\ held' \in [Stages -> 0 .. Files + 2]
          /\ \A r \in Stages \ {s} : held'[r] = held[r]
          /\ items' \in [Queues -> Seq(1 .. Files + 2)]
          /\ \A r \in Queues : /\ Len(items'[r]) <= Capacity
                               /\ status[r] = "Abandoned" => items'[r] = <<>>
          /\ produced' \in 0 .. Files /\ sink' \in Seq(1 .. Files + 2)
      BY <1>1, <2>1 DEF TypeOK, Control, Causes
    <3> QED
      BY <1>1, <2>1, <2>2, <3>1, MoveKeepsControl DEF Active
  <2>4. Flow'
    <3>1. PICK o, t \in [Stages -> Nat] : Streams(o, t)
      BY DEF IInv, Flow
    <3>2. Streams(o, t)'
      BY <1>1, <1>5, <2>1, <3>1, EndingKeepsStreams
    <3> QED BY <3>2 DEF Flow
  <2> QED BY <2>3, <2>4 DEF IInv
<1>6. CASE items[q] = <<>> /\ status[q] = "Abandoned"
  <2>1. Throw(s, "cancelled") /\ UNCHANGED <<status, items, held, result>>
    BY <1>6 DEF Take
  <2>2. Cancelled
    BY <1>1, <1>2, <1>6 DEF Control, Causes
  <2> QED
    BY <1>1, <2>1, <2>2, ThrowKeepsInvariant
<1> QED
  BY <1>3, <1>4, <1>5, <1>6 DEF Take

(* Acquire moves nothing.                                                  *)
LEMMA AcquireKeepsInvariant ==
  ASSUME IInv, NEW s \in Stages, Acquire(s)
  PROVE  IInv'
<1>1. TypeOK /\ Places /\ Control /\ pc[s] = "acquire" /\ pc[s] \in Active /\ s \in AllRelays
  BY DEF IInv, Control, Acquire, Active
<1>2. CASE SemaphoreCancelled(s) /\ Throw(s, "cancelled")
  <2>1. Cancelled
    BY <1>1, <1>2, Parameters DEF SemaphoreCancelled, SemaphoreSlot, Cancelled, Before, ZstdQueue,
                                  Compressor, Packer, AllRelays, TypeOK, LastSlot
  <2> QED
    BY <1>1, <1>2, <2>1, ThrowKeepsInvariant DEF Acquire
<1>3. CASE pc' = [pc EXCEPT ![s] = "hold"] /\ UNCHANGED <<error, todo>>
  <2>1. UNCHANGED <<scenario, status, items, held, produced, sink, result, state, main, ended,
                    report, cancel>>
    BY DEF Acquire
  <2>2. Control'
    <3>1. /\ held' \in [Stages -> 0 .. Files + 2] /\ held'[s] # 0
          /\ \A r \in Stages \ {s} : held'[r] = held[r]
          /\ items' \in [Queues -> Seq(1 .. Files + 2)]
          /\ \A r \in Queues : /\ Len(items'[r]) <= Capacity
                               /\ status[r] = "Abandoned" => items'[r] = <<>>
          /\ produced' \in 0 .. Files /\ sink' \in Seq(1 .. Files + 2)
      BY <1>1, <2>1 DEF TypeOK, Control, Causes, Places
    <3> QED
      BY <1>1, <1>3, <2>1, <3>1, MoveKeepsControl DEF Active
  <2>3. Flow'
    <3>1. \A r \in Stages : \/ pc'[r] = pc[r] /\ result'[r] = result[r]
                            \/ pc[r] = "acquire" /\ pc'[r] = "hold" /\ result'[r] = result[r]
      BY <1>1, <1>3, <2>1 DEF TypeOK
    <3> QED BY <1>1, <2>1, <3>1, QuietKeepsFlow DEF IInv
  <2> QED BY <2>2, <2>3 DEF IInv
<1> QED
  BY <1>2, <1>3 DEF Acquire

(* The work of a stage fails.                                              *)
LEMMA OwnFailureKeepsInvariant ==
  ASSUME IInv, NEW s \in Stages, OwnFailure(s)
  PROVE  IInv'
<1>1. pc[s] \in Active
  BY DEF OwnFailure, Active
<1> QED
  BY <1>1, ThrowKeepsInvariant DEF OwnFailure

(* The queue refuses the item.                                             *)
LEMMA RefusedKeepsInvariant ==
  ASSUME IInv, NEW s \in Queues, pc[s] \in Active, status[s] # "Open",
         Throw(s, IF status[s] = "Closed" THEN "closed" ELSE "cancelled"),
         UNCHANGED <<scenario, status, items, held, produced, sink, result, state, main, ended,
                     report, cancel>>
  PROVE  IInv'
<1>1. s \in Stages /\ Causes /\ TypeOK
  BY StageNumbers DEF IInv, Control
<1>2. CASE status[s] = "Closed"
  <2>1. Known
    BY <1>1, <1>2 DEF Causes, Active
  <2> QED BY <1>1, <1>2, <2>1, ThrowKeepsInvariant
<1>3. CASE status[s] = "Abandoned"
  <2>1. Cancelled
    BY <1>1, <1>3 DEF Causes
  <2> QED BY <1>1, <1>3, <2>1, ThrowKeepsInvariant
<1> QED
  BY <1>1, <1>2, <1>3 DEF TypeOK

(* The queue accepts the item.                                             *)
LEMMA AcceptedKeepsInvariant ==
  ASSUME IInv, NEW s \in Queues, status[s] = "Open", Room(s), NEW item \in 1 .. Files + 2,
         NEW o \in [Stages -> Nat], NEW t \in [Stages -> Nat], Streams(o, t),
         item = Content(t, s, o[s] + 1),
         items' = [items EXCEPT ![s] = Append(@, item)],
         \/ pc[s] = "hold" /\ pc' = [pc EXCEPT ![s] = "take"]
         \/ /\ pc[s] = "flush" /\ s \in {Packer, Compressor}
            /\ pc' = [pc EXCEPT ![s] = "close"],
         UNCHANGED <<scenario, status, held, produced, sink, todo, error, result, state, main,
                     ended, report, cancel>>
  PROVE  IInv'
<1>1. TypeOK /\ Places /\ Control /\ pc[s] \in Active /\ s \in Stages /\ Works(s)
  <2>1. TypeOK /\ Places /\ Control /\ pc[s] \in Active /\ s \in Stages
    BY StageNumbers DEF IInv, Control, Active
  <2> QED BY <2>1, ActiveWorks
<1>2. Control'
  <2>1. items' \in [Queues -> Seq(1 .. Files + 2)]
    BY <1>1 DEF TypeOK
  <2>2. \A r \in Queues : /\ Len(items'[r]) <= Capacity
                          /\ status[r] = "Abandoned" => items'[r] = <<>>
    <3>1. ASSUME NEW r \in Queues, r # s
          PROVE  Len(items'[r]) <= Capacity /\ (status[r] = "Abandoned" => items'[r] = <<>>)
      BY <1>1, <3>1 DEF TypeOK, Control, Causes
    <3>2. Len(items'[s]) <= Capacity
      <4>1. /\ Len(items[s]) \in Nat /\ Len(items'[s]) = Len(items[s]) + 1
            /\ Len(items[s]) < Capacity
        BY <1>1 DEF TypeOK, Room
      <4> QED BY <4>1, Parameters
    <3> QED BY <3>1, <3>2
  <2>3. /\ held' \in [Stages -> 0 .. Files + 2]
        /\ \A r \in Stages \ {s} : held'[r] = held[r]
        /\ produced' \in 0 .. Files /\ sink' \in Seq(1 .. Files + 2)
    BY <1>1 DEF TypeOK
  <2>4. \E p \in {"take", "close"} : /\ pc' = [pc EXCEPT ![s] = p]
                                     /\ p = "close" => s \in {Packer, Compressor}
    OBVIOUS
  <2> QED
    BY <1>1, <2>1, <2>2, <2>3, <2>4, MoveKeepsControl DEF Active
<1>3. Flow'
  <2>1. Streams([o EXCEPT ![s] = @ + 1], t)'
    BY <1>1, PassingKeepsStreams
  <2>2. [o EXCEPT ![s] = @ + 1] \in [Stages -> Nat]
    BY <1>1
  <2> QED BY <2>1, <2>2 DEF Flow
<1> QED
  BY <1>2, <1>3 DEF IInv

(* Push passes on the item the stage holds.                                *)
LEMMA PushKeepsInvariant ==
  ASSUME IInv, NEW s \in Stages, Push(s)
  PROVE  IInv'
<1>1. /\ TypeOK /\ Places /\ pc[s] = "hold" /\ pc[s] \in Active /\ s \in Queues
      /\ held[s] \in 1 .. Files + 2
  <2>1. TypeOK /\ Places /\ pc[s] = "hold"
    BY DEF IInv, Control, Push
  <2>2. s \in Queues
    BY Parameters DEF Push, Stages, Queues, Writer, Compressor, Packer
  <2>3. held[s] \in 0 .. Files + 2 /\ held[s] # 0
    BY <2>1 DEF TypeOK, Places
  <2>4. held[s] \in 1 .. Files + 2
    BY <2>3, Parameters
  <2> QED BY <2>1, <2>2, <2>4 DEF Active
<1>2. CASE status[s] = "Open"
  <2>1. PICK o, t \in [Stages -> Nat] : Streams(o, t)
    BY DEF IInv, Flow
  <2>2. held[s] = Content(t, s, o[s] + 1)
    BY <1>1, <2>1, ActiveWorks, ItemToPass
  <2> QED
    BY <1>1, <1>2, <2>1, <2>2, AcceptedKeepsInvariant DEF Push, PushTo
<1>3. CASE status[s] # "Open"
  BY <1>1, <1>3, RefusedKeepsInvariant DEF Push, PushTo
<1> QED
  BY <1>2, <1>3

(* Flush passes on the end of the stage's own format.                      *)
LEMMA FlushKeepsInvariant ==
  ASSUME IInv, NEW s \in Stages, Flush(s)
  PROVE  IInv'
<1>1. /\ TypeOK /\ Places /\ pc[s] = "flush" /\ pc[s] \in Active /\ s \in Queues
      /\ s \in {Packer, Compressor} /\ Works(s)
  <2>1. TypeOK /\ Places /\ pc[s] = "flush" /\ s \in {Packer, Compressor}
    BY DEF IInv, Control, Flush
  <2>2. s \in Queues
    BY <2>1, StageOrder
  <2> QED BY <2>1, <2>2, ActiveWorks DEF Active
<1>2. CASE Cancelled
  BY <1>1, <1>2, ThrowKeepsInvariant DEF Flush
<1>3. CASE ~Cancelled /\ status[s] # "Open"
  BY <1>1, <1>3, RefusedKeepsInvariant DEF Flush, PushTo
<1>4. CASE ~Cancelled /\ status[s] = "Open"
  <2>1. PICK o, t \in [Stages -> Nat] : Streams(o, t)
    BY DEF IInv, Flow
  <2> DEFINE end == IF s = Packer THEN TarEnd ELSE ZstdEnd
  <2>2. /\ Room(s) /\ items' = [items EXCEPT ![s] = Append(@, end)]
        /\ pc' = [pc EXCEPT ![s] = "close"]
        /\ UNCHANGED <<scenario, status, held, produced, sink, todo, error, result, state, main,
                       ended, report, cancel>>
    BY <1>4 DEF Flush, PushTo
  <2>3. end \in 1 .. Files + 2
    BY Parameters DEF TarEnd, ZstdEnd
  <2>4. end = Content(t, s, o[s] + 1)
    <3>1. t[s] = o[s] /\ o[s] \in Nat
      BY <1>1, <2>1 DEF Streams, Passed
    <3>2. ~(o[s] + 1 <= t[s])
      BY <3>1
    <3>3. CASE s = Packer
      BY <3>2, <3>3, StageOrder DEF Content
    <3>4. CASE s = Compressor
      BY <3>2, <3>4, StageOrder DEF Content
    <3> QED BY <1>1, <3>3, <3>4
  <2> HIDE DEF end
  <2> QED
    BY <1>1, <1>4, <2>1, <2>2, <2>3, <2>4, AcceptedKeepsInvariant
<1> QED
  BY <1>2, <1>3, <1>4

(* CloseOutput ends the packer, or the compressor.                         *)
LEMMA CloseOutputKeepsInvariant ==
  ASSUME IInv, NEW s \in Stages, CloseOutput(s)
  PROVE  IInv'
<1>1. /\ pc[s] = "close" /\ AtEnd(s) /\ s \in {Packer, Compressor} /\ s # Traverser
      /\ s \in Queues /\ Close(s)
      /\ pc' = [pc EXCEPT ![s] = "done"] /\ result' = [result EXCEPT ![s] = "ok"]
  BY StageOrder DEF CloseOutput, EndStage, AtEnd, IInv, Control, Places
<1> QED
  BY <1>1, EndKeepsInvariant DEF CloseOutput

(* The writer writes what it holds, and ends when there is no more.        *)
LEMMA WriteKeepsInvariant ==
  ASSUME IInv, Write \/ WriteEnd
  PROVE  IInv'
<1>1. /\ TypeOK /\ Places /\ Control /\ Writer \in Stages /\ Writer # Traverser
      /\ Writer \notin {Packer, Compressor}
  BY StageOrder, WriterWorks DEF IInv, Control
<1>2. SinkCancelled => Cancelled
  <2>1. SinkSlot \in Nat /\ cancel \in Nat
    BY <1>1, Parameters DEF SinkSlot, LastSlot, ZstdQueue, Compressor, Packer, TypeOK
  <2> QED BY <2>1 DEF SinkCancelled, Cancelled
<1>3. CASE SinkCancelled
  BY <1>1, <1>2, <1>3, ThrowKeepsInvariant DEF Write, WriteEnd, Active
<1>4. CASE Write /\ ~SinkCancelled
  <2>1. /\ pc[Writer] = "hold" /\ sink' = Append(sink, held[Writer])
        /\ pc' = [pc EXCEPT ![Writer] = "take"]
        /\ UNCHANGED <<scenario, status, items, held, produced, todo, error, result, state, main,
                       ended, report, cancel>>
    BY <1>4 DEF Write
  <2>2. Control'
    <3>1. sink' \in Seq(1 .. Files + 2)
      <4>1. held[Writer] \in 1 .. Files + 2
        BY <1>1, <2>1 DEF TypeOK, Places
      <4> QED BY <1>1, <2>1, <4>1 DEF TypeOK
    <3>2. /\ held' \in [Stages -> 0 .. Files + 2]
          /\ \A r \in Stages \ {Writer} : held'[r] = held[r]
          /\ items' \in [Queues -> Seq(1 .. Files + 2)]
          /\ \A r \in Queues : /\ Len(items'[r]) <= Capacity
                               /\ status[r] = "Abandoned" => items'[r] = <<>>
          /\ produced' \in 0 .. Files
      BY <1>1, <2>1 DEF TypeOK, Control, Causes
    <3> QED
      BY <1>1, <2>1, <3>1, <3>2, MoveKeepsControl DEF Active
  <2>3. Flow'
    <3>1. PICK o, t \in [Stages -> Nat] : Streams(o, t)
      BY DEF IInv, Flow
    <3>2. Streams([o EXCEPT ![Writer] = @ + 1], t)'
      BY <1>1, <2>1, <3>1, WritingKeepsStreams
    <3>3. [o EXCEPT ![Writer] = @ + 1] \in [Stages -> Nat]
      BY <1>1
    <3> QED BY <3>2, <3>3 DEF Flow
  <2> QED BY <2>2, <2>3 DEF IInv
<1>5. CASE WriteEnd /\ ~SinkCancelled
  <2>1. pc[Writer] = "flush" /\ AtEnd(Writer)
    BY <1>5 DEF WriteEnd, AtEnd
  <2> QED
    BY <1>1, <1>5, <2>1, EndKeepsInvariant DEF WriteEnd
<1> QED
  BY <1>3, <1>4, <1>5

(* Error handling moves nothing.                                           *)
LEMMA HandleKeepsInvariant ==
  ASSUME IInv, NEW s \in Stages, Handle(s)
  PROVE  IInv'
<1>1. TypeOK /\ Places /\ Control /\ Handlers
  BY DEF IInv, Control
<1>2. Control'
  BY <1>1, HandleKeepsControl
<1>3. Flow'
  <2>1. \A r \in Stages : \/ pc'[r] = pc[r] /\ result'[r] = result[r]
                          \/ pc'[r] \in {"handling", "done"} /\ result'[r] # "ok"
    BY <1>1 DEF Handle, TypeOK, Errors
  <2>2. \A q \in Queues : status'[q] = status[q] \/ (status[q] = "Open" /\ status'[q] = "Closed")
    BY <1>1 DEF Handle, Close, TypeOK
  <2> QED
    BY <1>1, <2>1, <2>2, QuietKeepsFlow DEF IInv, Handle
<1> QED
  BY <1>2, <1>3 DEF IInv

(* The main thread moves nothing, and a cancellation only throws away.     *)
LEMMA MainKeepsInvariant ==
  ASSUME IInv, MainStep
  PROVE  IInv'
<1>1. TypeOK /\ Control
  BY DEF IInv, Control
<1>2. Control'
  BY <1>1, MainKeepsControl
<1>3. Flow'
  <2>1. UNCHANGED <<scenario, items, held, produced, sink, pc, result>>
    BY DEF MainStep, AwaitFuture, GuardCloses, Join, Conclude, ConcludeFile, Report
  <2>2. \A q \in Queues : status'[q] = status[q] \/ (status[q] = "Open" /\ status'[q] = "Closed")
    BY <1>1 DEF MainStep, AwaitFuture, GuardCloses, Join, Conclude, ConcludeFile, Report, Close,
                TypeOK
  <2> QED
    BY <1>1, <2>1, <2>2, QuietKeepsFlow DEF IInv
<1> QED
  BY <1>2, <1>3 DEF IInv

(* What a cancellation throws away is never taken for the end of a stream: *)
(* an abandoned queue is not closed, and who takes from it throws.         *)
LEMMA CancellingKeepsInvariant ==
  ASSUME IInv, Cancel \/ CancelSlot
  PROVE  IInv'
<1>1. TypeOK /\ Control
  BY DEF IInv, Control
<1>2. Control'
  BY <1>1, CancellingKeepsControl
<1>3. Flow'
  <2>1. UNCHANGED <<scenario, pc, held, produced, sink, result>>
    BY DEF Cancel, CancelSlot
  <2>2. CASE UNCHANGED <<status, items>>
    BY <1>1, <2>1, <2>2, QuietKeepsFlow DEF IInv
  <2>3. ASSUME NEW q \in Queues, status' = [status EXCEPT ![q] = "Abandoned"],
               items' = [items EXCEPT ![q] = <<>>]
        PROVE  Flow'
    <3>1. PICK o, t \in [Stages -> Nat] : Streams(o, t)
      BY DEF IInv, Flow
    <3>2. Streams(o, t)'
      BY <1>1, <2>1, <2>3, <3>1, AbandoningKeepsStreams
    <3> QED BY <3>2 DEF Flow
  <2> QED BY <2>2, <2>3 DEF Cancel, CancelSlot
<1> QED
  BY <1>2, <1>3 DEF IInv

(* A step that changes nothing.                                            *)
LEMMA StutteringKeepsInvariant ==
  ASSUME IInv, UNCHANGED vars
  PROVE  IInv'
<1> USE DEF IInv, Control, vars
<1>1. TypeOK' /\ Places'
  BY DEF TypeOK, Places, Raw
<1>2. Known' = Known /\ Cancelled' = Cancelled /\ ToFile' = ToFile /\ ToSocket' = ToSocket
  BY DEF Known, Cancelled, ToFile, ToSocket
<1>3. Causes' /\ Handlers' /\ Waiting'
  BY <1>2 DEF Causes, RootCauseIsKept, Handlers, Unrecorded, Waiting
<1>4. Flow'
  BY QuietKeepsFlow
<1> QED
  BY <1>1, <1>3, <1>4

(* The inductive invariant holds in every reachable state: errors are on   *)
(* record before their consequences show (Control), and the queues and the *)
(* sink hold adjacent parts of one stream (Flow).                          *)
THEOREM Invariance == Spec => []IInv
<1>1. Init => IInv
  BY InitInvariant
<1>2. IInv /\ [Next]_vars => IInv'
  <2> SUFFICES ASSUME IInv, [Next]_vars PROVE IInv'
    OBVIOUS
  <2>1. ASSUME NEW s \in Stages, StageStep(s) PROVE IInv'
    BY <2>1, TraverseKeepsInvariant, WriteKeepsInvariant, TakeKeepsInvariant,
       AcquireKeepsInvariant, PushKeepsInvariant, FlushKeepsInvariant, CloseOutputKeepsInvariant,
       HandleKeepsInvariant
       DEF StageStep
  <2>2. ASSUME NEW s \in Stages, OwnFailure(s) PROVE IInv'
    BY <2>2, OwnFailureKeepsInvariant
  <2>3. CASE MainStep
    BY <2>3, MainKeepsInvariant
  <2>4. CASE Cancel \/ CancelSlot
    BY <2>4, CancellingKeepsInvariant
  <2>5. CASE UNCHANGED vars
    BY <2>5, StutteringKeepsInvariant
  <2> QED
    BY <2>1, <2>2, <2>3, <2>4, <2>5 DEF Next, Finished
<1> QED
  BY <1>1, <1>2, PTL DEF Spec

(***************************************************************************)
(* When every stage has returned normally, all went through.               *)
(***************************************************************************)

(* A set of numbers that holds 0 and the successor of each holds them all. *)
LEMMA SetInduction ==
  ASSUME NEW S, 0 \in S, \A n \in Nat : n \in S => n + 1 \in S
  PROVE  Nat \subseteq S
<1> DEFINE R == {ss \in Nat \X Nat : ss[1] < ss[2]}
           T == Nat \ S
<1>1. IsWellFoundedOn(R, Nat)
  BY NatLessThanWellFounded DEF OpToRel
<1> SUFFICES ASSUME T # {} PROVE FALSE
  OBVIOUS
<1>2. T \subseteq Nat
  OBVIOUS
<1> HIDE DEF R, T
<1>3. PICK x \in T : \A y \in T : ~ (<<y, x>> \in R)
  BY <1>1, <1>2, WFMin
<1>4. x # 0 /\ x \in Nat
  BY <1>2, <1>3 DEF T
<1>5. \A m, n \in Nat : m < n => <<m, n>> \in R
  BY DEF R
<1>6. x - 1 \notin T
  <2>1. x - 1 \in Nat /\ x - 1 < x
    BY <1>4
  <2>2. <<x - 1, x>> \in R
    BY <1>4, <1>5, <2>1
  <2> QED BY <1>3, <2>2
<1>7. x - 1 \in S /\ x - 1 \in Nat
  BY <1>4, <1>6 DEF T
<1>8. x \in S
  BY <1>7, <1>4
<1> QED BY <1>8, <1>3 DEF T

(* What the relays pass on is what the traverser found.                    *)
LEMMA RelaysPassAll ==
  ASSUME TypeOK, NEW o \in [Stages -> Nat], NEW t \in [Stages -> Nat], Streams(o, t),
         \A s \in Stages : result[s] = "ok"
  PROVE  \A s \in Coroutines : o[s] = scenario.files
<1> DEFINE S == {n \in Nat : n + 1 \in Coroutines => o[n + 1] = scenario.files}
<1>1. \A s \in Coroutines : /\ s \in Stages /\ Works(s) /\ o[s] = t[s]
                            /\ s # Traverser => t[s] = o[s - 1] /\ s - 1 \in Coroutines
  <2> SUFFICES ASSUME NEW s \in Coroutines
               PROVE  /\ s \in Stages /\ Works(s) /\ o[s] = t[s]
                      /\ s # Traverser => t[s] = o[s - 1] /\ s - 1 \in Coroutines
    OBVIOUS
  <2>1. s \in Stages /\ s # Writer /\ s \notin {Packer, Compressor}
    BY Parameters DEF Coroutines, Stages, Packer, Compressor, Writer
  <2>2. Works(s) /\ Extra(s) = 0
    BY <2>1, WriterWorks
  <2>3. o[s] = t[s]
    <3>1. o[s] = t[s] + Extra(s)
      BY <2>1, <2>2 DEF Streams, Passed
    <3> QED BY <2>1, <2>2, <3>1
  <2>4. ASSUME s # Traverser PROVE t[s] = o[s - 1] /\ s - 1 \in Coroutines
    <3>1. Input(s) = s - 1
      BY <2>1 DEF Input
    <3>2. t[s] = o[s - 1]
      BY <2>1, <2>2, <2>4, <3>1 DEF Streams, Taken, AtEnd
    <3> QED BY <2>4, <3>2, Parameters DEF Coroutines, Packer, Traverser
  <2> QED BY <2>1, <2>2, <2>3, <2>4
<1>2. 0 \in S
  <2>1. Traverser \in Coroutines /\ Traverser = 0 + 1 /\ t[Traverser] = produced
        /\ produced = scenario.files
    BY StageOrder DEF Traverser, Streams, Ends
  <2>2. o[Traverser] = scenario.files
    BY <1>1, <2>1
  <2> QED BY <2>1, <2>2
<1>3. ASSUME NEW n \in Nat, n \in S PROVE n + 1 \in S
  <2>1. n + 1 + 1 # Traverser /\ n + 1 + 1 - 1 = n + 1
    BY DEF Traverser
  <2>2. ASSUME n + 1 + 1 \in Coroutines PROVE o[n + 1 + 1] = scenario.files
    <3>1. o[n + 1 + 1] = o[n + 1] /\ n + 1 \in Coroutines
      BY <1>1, <2>1, <2>2
    <3> QED BY <1>3, <3>1
  <2> QED BY <2>2
<1> HIDE DEF S
<1>4. Nat \subseteq S
  BY <1>2, <1>3, SetInduction
<1>5. \A s \in Coroutines : s - 1 \in Nat /\ s = (s - 1) + 1
  BY Parameters DEF Coroutines, Packer
<1> QED
  BY <1>4, <1>5 DEF S

(* Whole, number by number.                                                *)
LEMMA WholeStream ==
  ASSUME TypeOK
  PROVE  /\ Whole \in Seq(1 .. Files + 2)
         /\ Len(Whole) = scenario.files + (IF Raw THEN 1 ELSE 2)
         /\ \A i \in 1 .. Len(Whole) :
              Whole[i] = IF i <= scenario.files THEN i
                         ELSE IF i = scenario.files + 1 THEN TarEnd ELSE ZstdEnd
<1> DEFINE n == scenario.files
           a == [i \in 1 .. n |-> i]
           b == IF Raw THEN <<TarEnd>> ELSE <<TarEnd, ZstdEnd>>
<1>1. n \in Nat /\ n \in 0 .. Files
  BY Parameters DEF TypeOK
<1>2. a \in Seq(1 .. Files + 2) /\ Len(a) = n /\ \A i \in 1 .. n : a[i] = i
  BY <1>1, Parameters
<1>3. /\ b \in Seq(1 .. Files + 2) /\ Len(b) = (IF Raw THEN 1 ELSE 2) /\ b[1] = TarEnd
      /\ ~Raw => b[2] = ZstdEnd
  <2>1. TarEnd \in 1 .. Files + 2 /\ ZstdEnd \in 1 .. Files + 2
    BY Parameters DEF TarEnd, ZstdEnd
  <2>2. \A S : \A x, y \in S : /\ <<x>> \in Seq(S) /\ Len(<<x>>) = 1 /\ <<x>>[1] = x
                              /\ <<x, y>> \in Seq(S) /\ Len(<<x, y>>) = 2
                              /\ <<x, y>>[1] = x /\ <<x, y>>[2] = y
    OBVIOUS
  <2>3. CASE Raw
    BY <2>1, <2>2, <2>3
  <2>4. CASE ~Raw
    BY <2>1, <2>2, <2>4
  <2> QED BY <2>3, <2>4
<1>4. Whole = a \o b
  BY DEF Whole
<1> HIDE DEF n, a, b
<1>5. /\ a \o b \in Seq(1 .. Files + 2) /\ Len(a \o b) = Len(a) + Len(b)
      /\ \A i \in 1 .. Len(a) + Len(b) : (a \o b)[i] = IF i <= Len(a) THEN a[i] ELSE b[i - Len(a)]
  BY <1>2, <1>3, ConcatProperties
<1>6. Len(a \o b) = n + (IF Raw THEN 1 ELSE 2)
  BY <1>2, <1>3, <1>5
<1>7. ASSUME NEW i \in 1 .. n + (IF Raw THEN 1 ELSE 2)
      PROVE  (a \o b)[i] = IF i <= n THEN i ELSE IF i = n + 1 THEN TarEnd ELSE ZstdEnd
  <2>1. (a \o b)[i] = IF i <= n THEN a[i] ELSE b[i - n]
    BY <1>2, <1>5, <1>6
  <2>2. i <= n => i \in 1 .. n
    BY <1>1
  <2>3. ~(i <= n) => \/ i = n + 1 /\ i - n = 1
                     \/ ~Raw /\ i # n + 1 /\ i - n = 2
    BY <1>1
  <2> QED BY <1>2, <1>3, <2>1, <2>2, <2>3
<1> QED
  BY <1>4, <1>5, <1>6, <1>7 DEF n

(* If every stage returned normally, the sink has the whole stream.        *)
LEMMA AllOkIsWhole ==
  ASSUME TypeOK, Flow, \A s \in Stages : result[s] = "ok"
  PROVE  sink = Whole
<1> DEFINE n == scenario.files
<1>1. n \in Nat
  BY Parameters DEF TypeOK
<1>2. PICK o, t \in [Stages -> Nat] : Streams(o, t)
  BY DEF Flow
<1>3. ASSUME NEW s \in Stages, Works(s), s # Traverser
      PROVE  t[s] = o[Input(s)] /\ o[s] = t[s] + Extra(s)
  BY <1>2, <1>3 DEF Streams, Passed, Taken, AtEnd
<1>4. t[Packer] = n /\ o[Packer] = n + 1
  <2>1. /\ Packer \in Stages /\ Works(Packer) /\ Packer # Traverser /\ Extra(Packer) = 1
        /\ Input(Packer) = Packer - 1
    BY StageOrder DEF Works, Extra, Input
  <2>2. Packer - 1 \in Coroutines
    BY Parameters DEF Coroutines, Packer
  <2>3. o[Packer - 1] = n
    BY <1>2, <2>2, RelaysPassAll
  <2> QED BY <1>3, <2>1, <2>3
<1>5. ~Raw => t[Compressor] = n + 1 /\ o[Compressor] = n + 2
  <2>1. ~Raw => /\ Compressor \in Stages /\ Works(Compressor) /\ Compressor # Traverser
                /\ Extra(Compressor) = 1 /\ Input(Compressor) = Packer
    BY StageOrder, Parameters DEF Works, Extra, Input, Compressor, Packer
  <2> QED BY <1>1, <1>3, <1>4, <2>1
<1>6. Input(Writer) = IF Raw THEN Packer ELSE Compressor
  BY Parameters DEF Input, TarQueue, Compressor, Packer, Writer
<1>7. Len(sink) = n + (IF Raw THEN 1 ELSE 2)
  <2>1. /\ Writer \in Stages /\ Works(Writer) /\ Writer # Traverser /\ Extra(Writer) = 0
        /\ o[Writer] = Len(sink)
    BY <1>2, StageOrder, WriterWorks DEF Streams, Ends
  <2>2. o[Writer] = t[Writer] + 0 /\ t[Writer] \in Nat /\ t[Writer] = o[Input(Writer)]
    BY <1>3, <2>1
  <2> QED BY <1>1, <1>4, <1>5, <1>6, <2>1, <2>2
<1>8. ASSUME NEW i \in 1 .. Len(sink)
      PROVE  sink[i] = IF i <= n THEN i ELSE IF i = n + 1 THEN TarEnd ELSE ZstdEnd
  <2>1. sink[i] = Content(t, Input(Writer), i)
    BY <1>2 DEF Streams, Ends
  <2>2. CASE Raw
    <3>1. Content(t, Packer, i) = IF i <= t[Packer] THEN i ELSE TarEnd
      BY StageOrder DEF Content
    <3>2. i <= n \/ i = n + 1
      BY <1>1, <1>7, <2>2
    <3> QED BY <1>1, <1>4, <1>6, <2>1, <2>2, <3>1, <3>2
  <2>3. CASE ~Raw
    <3>1. Content(t, Compressor, i) =
            IF i <= t[Packer] /\ i <= t[Compressor] THEN i
            ELSE IF i <= t[Compressor] THEN TarEnd ELSE ZstdEnd
      BY StageOrder DEF Content
    <3>2. (i <= n /\ i <= n + 1) \/ (i = n + 1 /\ ~(i <= n))
          \/ (~(i <= n) /\ ~(i <= n + 1) /\ i # n + 1)
      BY <1>1, <1>7
    <3>3. Content(t, Compressor, i) =
            IF i <= n /\ i <= n + 1 THEN i ELSE IF i <= n + 1 THEN TarEnd ELSE ZstdEnd
      BY <1>4, <1>5, <2>3, <3>1
    <3> QED BY <1>1, <1>6, <2>1, <2>3, <3>2, <3>3
  <2> QED BY <2>2, <2>3
<1>9. sink \in Seq(1 .. Files + 2) /\ Whole \in Seq(1 .. Files + 2) /\ Len(sink) = Len(Whole)
      /\ \A i \in 1 .. Len(sink) : sink[i] = Whole[i]
  <2>1. sink \in Seq(1 .. Files + 2)
    BY DEF TypeOK
  <2>2. Whole \in Seq(1 .. Files + 2) /\ Len(Whole) = Len(sink)
    BY <1>7, WholeStream
  <2> QED BY <1>8, <2>1, <2>2, WholeStream
<1> QED
  BY <1>9, SeqEqual

(* Every variable keeps its type, and no queue exceeds its capacity,       *)
(* however many relays and files there are and whatever fails.             *)
THEOREM TypeCorrect == Spec => []TypeOK
<1>1. IInv => TypeOK
  BY DEF IInv, Control
<1> QED
  BY <1>1, Invariance, PTL

(* The transport end event is sent, and the packed archive called          *)
(* complete, only when all of it was written in order and every stage      *)
(* returned normally: no failure or cancellation, in any stage and at any  *)
(* time, lets a shortened stream pass for success.                         *)
THEOREM NoTruncation == Spec => []NoSilentTruncation
<1>1. IInv => NoSilentTruncation
  <2>1. IInv => TypeOK /\ Flow /\ Waiting
    BY DEF IInv, Control
  <2> QED BY <2>1, AllOkIsWhole DEF NoSilentTruncation, Waiting
<1> QED
  BY <1>1, Invariance, PTL

(* The pipeline never keeps the "queue closed" of a stage that stumbled    *)
(* over the failure of another as the error of the transfer, but the       *)
(* failure itself: a stage records its exception before anybody can see    *)
(* the queues it closes (except where a cancellation is not recorded).     *)
THEOREM RootCause == Spec => []RootCauseIsKept
<1>1. IInv => RootCauseIsKept
  BY DEF IInv, Control, Causes
<1> QED
  BY <1>1, Invariance, PTL

(***************************************************************************)
(* The level the compressor works at: AdaptiveLevel, for any bounds and    *)
(* any level to start from. Time does not end, so no finite instance shows *)
(* what is said here of the cooldown.                                      *)
(*                                                                         *)
(* The invariant adds that the clock has passed the last decision          *)
(* (ClockPassed): what is left of the cooldown is what the next decision   *)
(* has waited for, and pays for doubling it and for counting one more. The *)
(* first decision has waited for nothing, and reverses nothing.            *)
(***************************************************************************)
CONSTANTS MinLevel, MaxLevel, InitialLevel

VARIABLES level, lastTarget, lastDirection, cooldown, lastAdjusted, pending, now, decisions

Level == INSTANCE AdaptiveLevel

ClockPassed == lastAdjusted <= now
FirstReversesNothing == (lastAdjusted = Level!Never \/ decisions = 0) => lastDirection = "none"

LevelInv ==
  /\ Level!TypeOK
  /\ Level!LevelIsBounded
  /\ ClockPassed
  /\ FirstReversesNothing
  /\ Level!CooldownIsBounded
  /\ Level!OneDecisionPerCooldown

(* A decision sets the level to a target within the bounds, at most one    *)
(* step away from the last or the bound next to where it started, and not  *)
(* above it when the direction turns.                                      *)
LEMMA TargetIsNear ==
  ASSUME Level!LevelsAreOrdered, Level!TypeOK, Level!LevelIsBounded, FirstReversesNothing,
         NEW requested \in {level - 1, level + 1}, NEW direction \in Level!Directions
  PROVE  /\ Level!Target(requested, direction) \in MinLevel .. MaxLevel
         /\ \/ Level!Target(requested, direction) \in {level - 1, level, level + 1}
            \/ /\ decisions = 0 /\ level \notin MinLevel .. MaxLevel
               /\ Level!Target(requested, direction) = Level!Clamp(level)
         /\ Level!Reversed(direction) => Level!Target(requested, direction) <= level
BY DEF Level!LevelsAreOrdered, Level!TypeOK, Level!LevelIsBounded, Level!Target, Level!Clamp,
       Level!Smaller, Level!Reversed, FirstReversesNothing

(* A decision waits for the cooldown of the one before.                    *)
LEMMA DecisionKeepsLevel ==
  ASSUME Level!LevelsAreOrdered, LevelInv,
         NEW requested \in {level - 1, level + 1}, NEW direction \in Level!Directions,
         Level!Evaluate(requested, direction), pending' \in BOOLEAN, now' = now
  PROVE  LevelInv'
<1>1. CASE Level!CoolingDown
  BY <1>1 DEF LevelInv, Level!TypeOK, Level!LevelIsBounded, ClockPassed, FirstReversesNothing,
              Level!CooldownIsBounded, Level!OneDecisionPerCooldown, Level!Evaluate
<1>2. CASE ~Level!CoolingDown
  <2>1. /\ lastTarget' = Level!Target(requested, direction)
        /\ level' = Level!Target(requested, direction)
        /\ lastDirection' = direction /\ lastAdjusted' = now /\ decisions' = decisions + 1
        /\ cooldown' = IF Level!Reversed(direction) THEN 2 * cooldown ELSE 1
    BY <1>2 DEF Level!Evaluate
  <2>2. Level!Target(requested, direction) \in MinLevel .. MaxLevel
    BY TargetIsNear DEF LevelInv
  <2>3. Level!TypeOK' /\ Level!LevelIsBounded'
    BY <2>1, <2>2 DEF LevelInv, Level!TypeOK, Level!LevelIsBounded, Level!LevelsAreOrdered,
        Level!Never
  <2>4. lastAdjusted = Level!Never \/ now >= lastAdjusted + cooldown
    BY <1>2 DEF Level!CoolingDown, LevelInv, Level!TypeOK, Level!Never
  <2>5. ClockPassed' /\ FirstReversesNothing'
    BY <2>1 DEF ClockPassed, FirstReversesNothing, LevelInv, Level!TypeOK, Level!Never
  <2>6. Level!CooldownIsBounded'
    BY <2>1, <2>4 DEF Level!CooldownIsBounded, FirstReversesNothing, Level!Reversed, LevelInv,
        Level!TypeOK, Level!Never
  <2>7. Level!OneDecisionPerCooldown'
    BY <2>1, <2>4 DEF Level!OneDecisionPerCooldown, LevelInv, Level!TypeOK, Level!Never
  <2> QED BY <2>3, <2>5, <2>6, <2>7 DEF LevelInv
<1> QED BY <1>1, <1>2

(* What is not a decision leaves all but the flag and the clock alone.     *)
LEMMA OthersKeepLevel ==
  ASSUME LevelInv, Level!NoDecision, pending' \in BOOLEAN, now' \in Nat, now' >= now
  PROVE  LevelInv'
BY DEF LevelInv, Level!NoDecision, Level!TypeOK, Level!LevelIsBounded, ClockPassed,
       FirstReversesNothing,
       Level!CooldownIsBounded, Level!OneDecisionPerCooldown, Level!Never

LEMMA InitLevel ==
  ASSUME Level!LevelsAreOrdered, Level!Init
  PROVE  LevelInv
<1>1. Level!TypeOK
  <2>1. pending \in BOOLEAN
    BY Zenon DEF Level!Init
  <2> QED BY <2>1 DEF Level!LevelsAreOrdered, Level!Init, Level!TypeOK, Level!Never
<1>2. Level!LevelIsBounded
  BY DEF Level!LevelsAreOrdered, Level!Init, Level!LevelIsBounded
<1>3. /\ ClockPassed /\ FirstReversesNothing
      /\ Level!CooldownIsBounded /\ Level!OneDecisionPerCooldown
  BY DEF Level!Init, ClockPassed, FirstReversesNothing, Level!CooldownIsBounded,
      Level!OneDecisionPerCooldown, Level!Never
<1> QED BY <1>1, <1>2, <1>3 DEF LevelInv

LEMMA NextLevel ==
  ASSUME Level!LevelsAreOrdered, LevelInv, [Level!Next]_(Level!vars)
  PROVE  LevelInv'
<1>1. CASE Level!Turn
  <2>1. pending' \in BOOLEAN /\ now' = now
    BY <1>1 DEF Level!Turn
  <2>2. CASE Level!Evaluate(level - 1, "down")
    BY <2>1, <2>2, DecisionKeepsLevel DEF Level!Directions
  <2>3. CASE Level!Evaluate(level + 1, "up")
    BY <2>1, <2>3, DecisionKeepsLevel DEF Level!Directions
  <2>4. CASE Level!NoDecision
    BY <2>1, <2>4, OthersKeepLevel DEF LevelInv, Level!TypeOK
  <2> QED BY <1>1, <2>2, <2>3, <2>4 DEF Level!Turn
<1>2. CASE Level!Output
  <2>1. pending' \in BOOLEAN /\ now' = now
    BY <1>2 DEF Level!Output, LevelInv, Level!TypeOK
  <2>2. CASE Level!Evaluate(level + 1, "up")
    BY <2>1, <2>2, DecisionKeepsLevel DEF Level!Directions
  <2>3. CASE Level!NoDecision
    BY <2>1, <2>3, OthersKeepLevel DEF LevelInv, Level!TypeOK
  <2> QED BY <1>2, <2>2, <2>3 DEF Level!Output
<1>3. CASE Level!Tick
  BY <1>3, OthersKeepLevel DEF Level!Tick, Level!NoDecision, LevelInv, Level!TypeOK
<1>4. CASE UNCHANGED Level!vars
  BY <1>4, OthersKeepLevel DEF Level!vars, Level!NoDecision, LevelInv, Level!TypeOK
<1> QED BY <1>1, <1>2, <1>3, <1>4 DEF Level!Next

(* The inductive invariant of the controller.                               *)
THEOREM LevelInvariance == Level!LevelsAreOrdered => (Level!Spec => []LevelInv)
<1> SUFFICES ASSUME Level!LevelsAreOrdered PROVE Level!Spec => []LevelInv
  OBVIOUS
<1>1. Level!Init => LevelInv
  BY InitLevel
<1>2. LevelInv /\ [Level!Next]_(Level!vars) => LevelInv'
  BY NextLevel
<1> QED BY <1>1, <1>2, PTL DEF Level!Spec

(* AdaptiveLevelController::evaluate: whatever the queues do, and whatever *)
(* level was asked for, the level given to the codec is within the bounds  *)
(* from the first decision on, and the one the controller remembers.       *)
THEOREM LevelBounded == Level!LevelsAreOrdered => (Level!Spec => []Level!LevelIsBounded)
<1> SUFFICES ASSUME Level!LevelsAreOrdered PROVE Level!Spec => []Level!LevelIsBounded
  OBVIOUS
<1>1. LevelInv => Level!LevelIsBounded
  BY DEF LevelInv
<1> QED BY <1>1, LevelInvariance, PTL

(* current_cooldown_ doubles with every reversal and still never gets      *)
(* ahead of the clock, and there is at most one decision in a second, over *)
(* a run of any length.                                                    *)
THEOREM CooldownPaysForDecisions ==
  Level!LevelsAreOrdered => (Level!Spec => [](Level!CooldownIsBounded
      /\ Level!OneDecisionPerCooldown))
<1> SUFFICES ASSUME Level!LevelsAreOrdered
             PROVE  Level!Spec => [](Level!CooldownIsBounded /\ Level!OneDecisionPerCooldown)
  OBVIOUS
<1>1. LevelInv => Level!CooldownIsBounded /\ Level!OneDecisionPerCooldown
  BY DEF LevelInv
<1> QED BY <1>1, LevelInvariance, PTL

(* The reversal annealing: the level moves by single steps, once it is     *)
(* within the bounds, and is not raised by the decision that follows one   *)
(* to lower it.                                                            *)
THEOREM LevelMovesGently == Level!LevelsAreOrdered => (Level!Spec => Level!MovesGently)
<1> SUFFICES ASSUME Level!LevelsAreOrdered PROVE Level!Spec => Level!MovesGently
  OBVIOUS
<1>1. LevelInv /\ [Level!Next]_(Level!vars) => [Level!SmallSteps
    /\ Level!NoRaiseAfterDrop]_(Level!vars)
  <2> SUFFICES ASSUME LevelInv, Level!Next
               PROVE  (Level!SmallSteps /\ Level!NoRaiseAfterDrop) \/ UNCHANGED Level!vars
    OBVIOUS
  <2>1. ASSUME NEW requested \in {level - 1, level + 1}, NEW direction \in Level!Directions,
               Level!Evaluate(requested, direction)
        PROVE  level' = level \/ level' = Level!Target(requested, direction)
    BY <2>1 DEF Level!Evaluate
  <2>2. CASE Level!Evaluate(level - 1, "down")
    <3>1. level' = level \/ level' = Level!Clamp(level - 1)
        \/ level' = Level!Smaller(Level!Clamp(level - 1), level)
      BY <2>2 DEF Level!Evaluate, Level!Target, LevelInv, Level!LevelIsBounded
    <3>2. Level!NoRaiseAfterDrop
      BY <3>1 DEF Level!NoRaiseAfterDrop, Level!Clamp, Level!Smaller, LevelInv, Level!TypeOK,
                  Level!LevelIsBounded, Level!LevelsAreOrdered, FirstReversesNothing
    <3>3. level' = level \/ level' = Level!Target(level - 1, "down")
      BY <2>2, <2>1 DEF Level!Directions
    <3>4. Level!SmallSteps
      BY <3>3, TargetIsNear DEF Level!SmallSteps, LevelInv, Level!Directions
    <3> QED BY <3>2, <3>4
  <2>3. CASE Level!Evaluate(level + 1, "up")
    <3>1. /\ \/ Level!Target(level + 1, "up") \in {level - 1, level, level + 1}
             \/ /\ decisions = 0 /\ level \notin MinLevel .. MaxLevel
                /\ Level!Target(level + 1, "up") = Level!Clamp(level)
          /\ (Level!Reversed("up") => Level!Target(level + 1, "up") <= level)
      BY TargetIsNear DEF LevelInv, Level!Directions
    <3>2. level' = level \/ level' = Level!Target(level + 1, "up")
      BY <2>3, <2>1 DEF Level!Directions
    <3> QED BY <3>1, <3>2 DEF Level!SmallSteps, Level!NoRaiseAfterDrop, Level!Reversed, LevelInv,
        Level!TypeOK
  <2>4. CASE level' = level
    BY <2>4 DEF Level!SmallSteps, Level!NoRaiseAfterDrop, LevelInv, Level!TypeOK
  <2> QED BY <2>2, <2>3, <2>4 DEF Level!Next, Level!Turn, Level!Output, Level!Tick,
      Level!NoDecision
<1> QED BY <1>1, LevelInvariance, PTL DEF Level!Spec, Level!MovesGently
=============================================================================
