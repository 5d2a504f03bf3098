----------------------- MODULE ReceivePipelineProofs -----------------------
(***************************************************************************)
(* Proofs about ReceivePipeline, for any files, any sizes of the queue,    *)
(* the slots and the buffers, any number of operations in flight and any   *)
(* scenario.                                                               *)
(***************************************************************************)
EXTENDS ReceivePipeline, SequenceTheorems, WellFoundedInduction, TLAPS

(***************************************************************************)
(* Sequences without repetition.                                           *)
(***************************************************************************)
Distinct(s) == \A i, j \in DOMAIN s : s[i] = s[j] => i = j

(* A sequence without repetitions stays one when something new is put at   *)
(* its end ...                                                             *)
LEMMA AppendDistinct ==
  ASSUME NEW S, NEW s \in Seq(S), NEW e \in S, Distinct(s), e \notin Range(s)
  PROVE  /\ Append(s, e) \in Seq(S) /\ Len(Append(s, e)) = Len(s) + 1
         /\ Distinct(Append(s, e))
         /\ Range(Append(s, e)) = Range(s) \cup {e}
<1> DEFINE t == Append(s, e)
<1>1. /\ t \in Seq(S) /\ DOMAIN t = 1 .. Len(s) + 1 /\ DOMAIN s = 1 .. Len(s)
      /\ \A i \in 1 .. Len(s) : t[i] = s[i]
      /\ t[Len(s) + 1] = e /\ Len(s) \in Nat /\ Len(t) = Len(s) + 1
  OBVIOUS
<1> HIDE DEF t
<1>2. \A i \in DOMAIN t : i \in DOMAIN s \/ i = Len(s) + 1
  BY <1>1
<1>3. \A i \in DOMAIN s : i \in DOMAIN t /\ t[i] = s[i]
  BY <1>1
<1>4. Len(s) + 1 \in DOMAIN t
  BY <1>1
<1>5. Distinct(t)
  BY <1>1, <1>2, <1>3 DEF Distinct, Range
<1>6. Range(t) = Range(s) \cup {e}
  BY <1>1, <1>2, <1>3, <1>4 DEF Range
<1>7. QED
  BY <1>1, <1>5, <1>6 DEF t

(* ... and when its head is taken off.                                     *)
LEMMA TailDistinct ==
  ASSUME NEW S, NEW s \in Seq(S), s # <<>>, Distinct(s)
  PROVE  /\ Head(s) \in S /\ Tail(s) \in Seq(S) /\ Len(Tail(s)) = Len(s) - 1
         /\ Head(s) \in Range(s) /\ Distinct(Tail(s))
         /\ Range(Tail(s)) = Range(s) \ {Head(s)}
<1> DEFINE t == Tail(s)
<1>1. /\ t \in Seq(S) /\ Len(s) \in Nat \ {0} /\ Head(s) = s[1] /\ Head(s) \in S
      /\ Len(t) = Len(s) - 1
      /\ DOMAIN t = 1 .. Len(s) - 1 /\ DOMAIN s = 1 .. Len(s)
      /\ \A i \in 1 .. Len(s) - 1 : t[i] = s[i + 1]
  OBVIOUS
<1> HIDE DEF t
<1>2. \A i \in DOMAIN t : i + 1 \in DOMAIN s /\ t[i] = s[i + 1] /\ i + 1 # 1
  BY <1>1
<1>3. \A i \in DOMAIN s : i # 1 => i - 1 \in DOMAIN t /\ t[i - 1] = s[i]
  BY <1>1
<1>4. 1 \in DOMAIN s
  BY <1>1
<1>5. Distinct(t)
  BY <1>1, <1>2 DEF Distinct
<1>6. Range(t) = Range(s) \ {Head(s)}
  <2>1. ASSUME NEW x \in Range(t) PROVE x \in Range(s) /\ x # s[1]
    BY <1>2, <1>4 DEF Range, Distinct
  <2>2. ASSUME NEW x \in Range(s), x # s[1] PROVE x \in Range(t)
    <3>1. PICK i \in DOMAIN s : x = s[i]
      BY DEF Range
    <3>2. i # 1
      BY <2>2, <3>1
    <3>3. i - 1 \in DOMAIN t /\ t[i - 1] = x
      BY <1>3, <3>1, <3>2
    <3>4. QED
      BY <3>3 DEF Range
  <2>3. QED
    BY <1>1, <2>1, <2>2
<1>7. QED
  BY <1>1, <1>4, <1>5, <1>6 DEF t, Range

(***************************************************************************)
(* The way of a file's chunks, which are its numbers 1, 2, ...: those the  *)
(* sink has given to the system (the first n), the buffer it is filling,   *)
(* the slot the drain loop is writing, the slots that wait, and the slot   *)
(* the unpacker is filling, one behind the other up to the t-th.           *)
(***************************************************************************)
Run(q, a) == \A k \in DOMAIN q : q[k] = a + k

Chained(pending, current, slot, buffer, n, t) ==
  \E b \in [0 .. Len(pending) -> Nat] :
    /\ Run(buffer, n) /\ Run(slot, n + Len(buffer))
    /\ b[0] = n + Len(buffer) + Len(slot)
    /\ \A i \in 1 .. Len(pending) :
         /\ pending[i] # <<>> /\ Run(pending[i], b[i - 1])
         /\ b[i] = b[i - 1] + Len(pending[i])
    /\ Run(current, b[Len(pending)])
    /\ b[Len(pending)] + Len(current) = t

(* What was put at the end of a run, and what is behind its head.          *)
LEMMA RunAppend ==
  ASSUME NEW q \in Seq(Nat), NEW a \in Nat, Run(q, a)
  PROVE  Run(Append(q, a + Len(q) + 1), a)
<1> DEFINE e == a + Len(q) + 1
           r == Append(q, e)
<1>1. /\ DOMAIN r = 1 .. Len(q) + 1 /\ DOMAIN q = 1 .. Len(q) /\ Len(q) \in Nat
      /\ r[Len(q) + 1] = e /\ \A k \in 1 .. Len(q) : r[k] = q[k]
  OBVIOUS
<1> HIDE DEF r
<1>2. ASSUME NEW k \in DOMAIN r PROVE r[k] = a + k
  <2>1. k \in 1 .. Len(q) \/ k = Len(q) + 1
    BY <1>1
  <2>2. CASE k \in 1 .. Len(q)
    BY <1>1, <2>2 DEF Run
  <2>3. CASE k = Len(q) + 1
    BY <1>1, <2>3
  <2>4. QED
    BY <2>1, <2>2, <2>3
<1>3. Run(r, a)
  BY <1>2 DEF Run
<1>4. QED
  BY <1>3 DEF r

LEMMA RunTail ==
  ASSUME NEW q \in Seq(Nat), NEW a \in Nat, Run(q, a), q # <<>>
  PROVE  Head(q) = a + 1 /\ Run(Tail(q), a + 1) /\ Len(Tail(q)) = Len(q) - 1
<1> DEFINE r == Tail(q)
<1>1. /\ DOMAIN r = 1 .. Len(q) - 1 /\ DOMAIN q = 1 .. Len(q) /\ Len(q) \in Nat \ {0}
      /\ \A k \in 1 .. Len(q) - 1 : r[k] = q[k + 1]
      /\ Head(q) = q[1] /\ Len(r) = Len(q) - 1
  OBVIOUS
<1> HIDE DEF r
<1>2. Head(q) = a + 1
  BY SMTT(30), <1>1 DEF Run
<1>3. ASSUME NEW k \in DOMAIN r PROVE r[k] = a + 1 + k
  <2>1. k + 1 \in DOMAIN q /\ k \in Nat
    BY <1>1
  <2>2. QED
    BY <1>1, <2>1 DEF Run
<1>4. QED
  BY <1>1, <1>2, <1>3 DEF Run, r

(* A new file: nothing is on its way.                                      *)
LEMMA ChainStart == Chained(<<>>, <<>>, <<>>, <<>>, 0, 0)
<1> DEFINE b == [i \in 0 .. 0 |-> 0]
<1>1. Len(<<>>) = 0 /\ DOMAIN <<>> = {}
  OBVIOUS
<1>2. b \in [0 .. Len(<<>>) -> Nat] /\ b[0] = 0 /\ b[Len(<<>>)] = 0
  BY <1>1
<1> HIDE DEF b
<1>3. \A x : Run(<<>>, x)
  BY <1>1 DEF Run
<1>4. \A i \in 1 .. Len(<<>>) : FALSE
  BY <1>1
<1>5. b[0] = 0 + Len(<<>>) + Len(<<>>) /\ b[Len(<<>>)] + Len(<<>>) = 0
  BY <1>1, <1>2
<1>6. QED
  BY <1>2, <1>3, <1>4, <1>5 DEF Chained

(* BufferedFileWriter::write adds the next chunk to its slot ...           *)
LEMMA ChainWrite ==
  ASSUME NEW P \in Seq(Seq(Nat)), NEW c \in Seq(Nat), NEW s \in Seq(Nat), NEW a \in Seq(Nat),
         NEW n \in Nat, NEW t \in Nat, Chained(P, c, s, a, n, t)
  PROVE  Chained(P, Append(c, t + 1), s, a, n, t + 1)
<1>1. PICK b \in [0 .. Len(P) -> Nat] :
        /\ Run(a, n) /\ Run(s, n + Len(a))
        /\ b[0] = n + Len(a) + Len(s)
        /\ \A i \in 1 .. Len(P) : /\ P[i] # <<>> /\ Run(P[i], b[i - 1])
                                  /\ b[i] = b[i - 1] + Len(P[i])
        /\ Run(c, b[Len(P)]) /\ b[Len(P)] + Len(c) = t
  BY DEF Chained
<1>2. b[Len(P)] \in Nat /\ Len(c) \in Nat
  <2>1. Len(P) \in 0 .. Len(P) /\ Len(c) \in Nat
    OBVIOUS
  <2>2. QED
    BY <2>1
<1>3. Run(Append(c, t + 1), b[Len(P)])
  BY <1>1, <1>2, RunAppend
<1>4. Len(Append(c, t + 1)) = Len(c) + 1
  OBVIOUS
<1>5. b[Len(P)] + Len(Append(c, t + 1)) = t + 1
  BY <1>1, <1>2, <1>4
<1>6. QED
  BY <1>1, <1>3, <1>5 DEF Chained

(* ... and puts the slot behind those that wait.                           *)
LEMMA ChainSend ==
  ASSUME NEW P \in Seq(Seq(Nat)), NEW c \in Seq(Nat), NEW s \in Seq(Nat), NEW a \in Seq(Nat),
         NEW n \in Nat, NEW t \in Nat, Chained(P, c, s, a, n, t), c # <<>>
  PROVE  Chained(Append(P, c), <<>>, s, a, n, t)
<1>1. PICK b \in [0 .. Len(P) -> Nat] :
        /\ Run(a, n) /\ Run(s, n + Len(a))
        /\ b[0] = n + Len(a) + Len(s)
        /\ \A i \in 1 .. Len(P) : /\ P[i] # <<>> /\ Run(P[i], b[i - 1])
                                  /\ b[i] = b[i - 1] + Len(P[i])
        /\ Run(c, b[Len(P)]) /\ b[Len(P)] + Len(c) = t
  BY DEF Chained
<1> DEFINE Q == Append(P, c)
           d == [i \in 0 .. Len(Q) |-> IF i = Len(P) + 1 THEN t ELSE b[i]]
<1>2. /\ Len(P) \in Nat /\ Len(Q) = Len(P) + 1 /\ Q[Len(P) + 1] = c
      /\ \A i \in 1 .. Len(P) : Q[i] = P[i]
  OBVIOUS
<1> HIDE DEF Q
<1>3. d \in [0 .. Len(Q) -> Nat] /\ d[Len(P) + 1] = t /\ \A i \in 0 .. Len(P) : d[i] = b[i]
  BY <1>2
<1> HIDE DEF d
<1>4. ASSUME NEW i \in 1 .. Len(Q)
      PROVE  Q[i] # <<>> /\ Run(Q[i], d[i - 1]) /\ d[i] = d[i - 1] + Len(Q[i])
  <2>1. CASE i = Len(P) + 1
    <3>1. i - 1 = Len(P) /\ Len(P) \in 0 .. Len(P)
      BY <1>2, <2>1
    <3>2. d[i - 1] = b[Len(P)] /\ Q[i] = c /\ d[i] = t
      BY <1>2, <1>3, <2>1, <3>1
    <3>3. QED
      BY <1>1, <3>2
  <2>2. CASE i \in 1 .. Len(P)
    <3>1. i - 1 \in 0 .. Len(P) /\ i \in 0 .. Len(P)
      BY <1>2, <2>2
    <3>2. d[i - 1] = b[i - 1] /\ Q[i] = P[i] /\ d[i] = b[i]
      BY <1>2, <1>3, <2>2, <3>1
    <3>3. QED
      BY <1>1, <2>2, <3>2
  <2>3. i = Len(P) + 1 \/ i \in 1 .. Len(P)
    <3>1. i \in 1 .. Len(P) + 1 /\ Len(P) \in Nat
      BY <1>2
    <3>2. QED
      BY <3>1
  <2>4. QED
    BY <2>1, <2>2, <2>3
<1>5. Run(<<>>, d[Len(Q)]) /\ d[Len(Q)] + Len(<<>>) = t
  <2>1. DOMAIN <<>> = {} /\ Len(<<>>) = 0 /\ d[Len(Q)] = t
    BY <1>2, <1>3
  <2>2. QED
    BY <2>1 DEF Run
<1>6. d[0] = b[0]
  BY <1>2, <1>3
<1>7. QED
  BY <1>1, <1>3, <1>4, <1>5, <1>6 DEF Chained, Q

(* The drain loop takes the oldest of them.                                *)
LEMMA ChainTake ==
  ASSUME NEW P \in Seq(Seq(Nat)), NEW c \in Seq(Nat), NEW a \in Seq(Nat),
         NEW n \in Nat, NEW t \in Nat, Chained(P, c, <<>>, a, n, t), P # <<>>
  PROVE  Chained(Tail(P), c, Head(P), a, n, t) /\ Head(P) # <<>>
<1>1. PICK b \in [0 .. Len(P) -> Nat] :
        /\ Run(a, n) /\ Run(<<>>, n + Len(a))
        /\ b[0] = n + Len(a) + Len(<<>>)
        /\ \A i \in 1 .. Len(P) : /\ P[i] # <<>> /\ Run(P[i], b[i - 1])
                                  /\ b[i] = b[i - 1] + Len(P[i])
        /\ Run(c, b[Len(P)]) /\ b[Len(P)] + Len(c) = t
  BY DEF Chained
<1> DEFINE Q == Tail(P)
           d == [i \in 0 .. Len(Q) |-> b[i + 1]]
<1>2. /\ Len(P) \in Nat \ {0} /\ Len(Q) = Len(P) - 1 /\ Head(P) = P[1] /\ Head(P) \in Seq(Nat)
      /\ \A i \in 1 .. Len(Q) : Q[i] = P[i + 1]
      /\ Len(<<>>) = 0
  OBVIOUS
<1> HIDE DEF Q
<1>3. d \in [0 .. Len(Q) -> Nat] /\ \A i \in 0 .. Len(Q) : d[i] = b[i + 1]
  BY SMTT(30), <1>2
<1> HIDE DEF d
<1>4. 1 \in 1 .. Len(P) /\ 0 \in 0 .. Len(Q) /\ Len(Q) \in 0 .. Len(Q)
  BY <1>2
<1>5. Head(P) # <<>> /\ Run(Head(P), b[0]) /\ b[1] = b[0] + Len(Head(P))
  <2>1. P[1] # <<>> /\ Run(P[1], b[1 - 1]) /\ b[1] = b[1 - 1] + Len(P[1])
    BY <1>1, <1>4
  <2>2. QED
    BY <1>2, <2>1
<1>6. ASSUME NEW i \in 1 .. Len(Q)
      PROVE  Q[i] # <<>> /\ Run(Q[i], d[i - 1]) /\ d[i] = d[i - 1] + Len(Q[i])
  <2>1. /\ i + 1 \in 1 .. Len(P) /\ i - 1 \in 0 .. Len(Q) /\ i \in 0 .. Len(Q)
        /\ (i + 1) - 1 = i /\ (i - 1) + 1 = i
    BY <1>2
  <2>2. d[i] = b[i + 1] /\ d[i - 1] = b[i] /\ Q[i] = P[i + 1]
    BY <1>2, <1>3, <2>1
  <2>3. P[i + 1] # <<>> /\ Run(P[i + 1], b[(i + 1) - 1]) /\ b[i + 1] = b[(i + 1) - 1] + Len(P[i + 1])
    BY <1>1, <2>1
  <2>4. QED
    BY <2>1, <2>2, <2>3
<1>7. d[Len(Q)] = b[Len(P)] /\ d[0] = b[1]
  BY <1>2, <1>3, <1>4
<1>8. n + Len(a) \in Nat /\ b[0] = n + Len(a)
  <2>1. Len(a) \in Nat
    OBVIOUS
  <2>2. QED
    BY <1>1, <1>2, <2>1
<1>9. Run(Head(P), n + Len(a)) /\ d[0] = n + Len(a) + Len(Head(P))
  BY <1>5, <1>7, <1>8
<1>10. QED
  BY <1>1, <1>3, <1>5, <1>6, <1>7, <1>9 DEF Chained, Q

(* FileByteSink::write moves the next chunk of the slot into its buffer ...*)
LEMMA ChainFill ==
  ASSUME NEW P \in Seq(Seq(Nat)), NEW c \in Seq(Nat), NEW s \in Seq(Nat), NEW a \in Seq(Nat),
         NEW n \in Nat, NEW t \in Nat, Chained(P, c, s, a, n, t), s # <<>>
  PROVE  Chained(P, c, Tail(s), Append(a, Head(s)), n, t)
<1>1. PICK b \in [0 .. Len(P) -> Nat] :
        /\ Run(a, n) /\ Run(s, n + Len(a))
        /\ b[0] = n + Len(a) + Len(s)
        /\ \A i \in 1 .. Len(P) : /\ P[i] # <<>> /\ Run(P[i], b[i - 1])
                                  /\ b[i] = b[i - 1] + Len(P[i])
        /\ Run(c, b[Len(P)]) /\ b[Len(P)] + Len(c) = t
  BY DEF Chained
<1>2. Len(a) \in Nat /\ Len(s) \in Nat /\ n + Len(a) \in Nat
  OBVIOUS
<1>3. /\ Head(s) = n + Len(a) + 1 /\ Run(Tail(s), n + Len(a) + 1)
      /\ Len(Tail(s)) = Len(s) - 1
  BY <1>1, <1>2, RunTail
<1>4. Run(Append(a, Head(s)), n)
  BY <1>1, <1>3, RunAppend
<1>5. Len(Append(a, Head(s))) = Len(a) + 1
  OBVIOUS
<1>6. /\ Run(Tail(s), n + Len(Append(a, Head(s))))
      /\ b[0] = n + Len(Append(a, Head(s))) + Len(Tail(s))
  BY <1>1, <1>2, <1>3, <1>5
<1>7. QED
  BY <1>1, <1>4, <1>6 DEF Chained

(* ... and submit_active_write hands the buffer to the system.             *)
LEMMA ChainIssue ==
  ASSUME NEW P \in Seq(Seq(Nat)), NEW c \in Seq(Nat), NEW s \in Seq(Nat), NEW a \in Seq(Nat),
         NEW n \in Nat, NEW t \in Nat, Chained(P, c, s, a, n, t)
  PROVE  Chained(P, c, s, <<>>, n + Len(a), t) /\ Run(a, n)
<1>1. PICK b \in [0 .. Len(P) -> Nat] :
        /\ Run(a, n) /\ Run(s, n + Len(a))
        /\ b[0] = n + Len(a) + Len(s)
        /\ \A i \in 1 .. Len(P) : /\ P[i] # <<>> /\ Run(P[i], b[i - 1])
                                  /\ b[i] = b[i - 1] + Len(P[i])
        /\ Run(c, b[Len(P)]) /\ b[Len(P)] + Len(c) = t
  BY DEF Chained
<1>2. Len(a) \in Nat /\ Len(<<>>) = 0 /\ DOMAIN <<>> = {}
  OBVIOUS
<1>3. Run(<<>>, n + Len(a)) /\ n + Len(a) + Len(<<>>) = n + Len(a)
  BY <1>2 DEF Run
<1>4. QED
  BY <1>1, <1>3 DEF Chained

(* When nothing is on its way the system has had it all.                   *)
LEMMA ChainEmpty ==
  ASSUME NEW n \in Nat, NEW t \in Nat, Chained(<<>>, <<>>, <<>>, <<>>, n, t)
  PROVE  n = t
BY DEF Chained

(***************************************************************************)
(* Types.                                                                  *)
(***************************************************************************)
InPlaces == {"check", "read", "push", "handling", "done"}
UnPlaces == {"check", "pop", "create", "write", "enqueue", "close", "await", "restore",
             "handling", "done"}
DrainPlaces == {"none", "wait", "look", "fill", "submit", "reap", "issue", "all", "over"}
Outcomes == {"idle", "pending", "written", "failed", "aborted"}
Handlings == {<<>>, <<"fail">>, <<"close">>, <<"fail", "close">>, <<"close", "fail">>}

QueueType == [items : Seq(1 .. Len(Stream)), status : {"open", "closed", "abandoned"}]
InType == [at : InPlaces, item : 0 .. Len(Stream), error : Errors, todo : Handlings]
UnType == [at : UnPlaces, file : Files \cup {0}, chunk : Nat, then : {"none", "write", "await"},
           error : Errors, todo : Handlings]
WriterType == [current : Seq(Nat), pending : Seq(Seq(Nat)), closing : BOOLEAN,
               cancelled : BOOLEAN, error : Errors]
DrainType == [at : DrainPlaces, slot : Seq(Nat), then : {"none", "fill", "all"}]
SinkType == [buffer : [Slots -> Seq(Nat)], place : [Slots -> Nat], op : [Slots -> Outcomes],
             active : Slots, available : Seq(Slots), flight : Seq(Slots), size : Nat,
             cancelled : BOOLEAN]

Types ==
  /\ scenario \in Scenarios
  /\ line \in {"up", "lost", "stalled", "closed"}
  /\ got \in 0 .. Len(Stream)
  /\ queue \in QueueType /\ Len(queue.items) <= Capacity
  /\ in \in InType /\ un \in UnType
  /\ writer \in WriterType /\ drain \in DrainType /\ sink \in SinkType
  /\ restored \subseteq Files
  /\ main \in {"await", "input", "unpacker", "pool", "judge", "over"}
  /\ received \in 0 .. Transports
  /\ state \in Errors
  /\ report \in {"none", "completed", "cancelled", "failed"}
  /\ cancel \in 0 .. EmitDone

(***************************************************************************)
(* Where the threads are.                                                  *)
(***************************************************************************)
Regular == Files \ Directories
Writing == un.at \in {"write", "enqueue", "close", "await"}
Working == un.at \notin {"handling", "done"}

InputPlace ==
  /\ in.at = "handling" => in.todo # <<>>
  /\ in.at # "done" => (in.at = "handling" <=> in.error # "none")
  /\ in.at = "push" => in.item = got /\ got # 0

(* A thread that failed has an error, and its file is one with content.    *)
UnpackerPlace ==
  /\ un.at = "handling" => un.todo # <<>> /\ un.error # "none"
  /\ Working => un.error = "none" /\ main \in {"input", "unpacker"}
  /\ un.at \in {"check", "pop"} => un.file \notin Directories
  /\ un.at = "create" \/ Writing => un.file \in Regular
  /\ un.at = "restore" => un.file \in Files
  /\ un.at = "create" => un.chunk = Sizes[un.file]
  /\ Writing => un.chunk <= Sizes[un.file]
  /\ un.at \in {"close", "await"} => un.chunk = Sizes[un.file]
  /\ un.at = "enqueue" => un.then # "none"
  /\ un.at = "enqueue" /\ un.then = "await" => un.chunk = Sizes[un.file]

(* A failed thread has recorded its error, unless unpack_file_to_directory *)
(* leaves a cancellation out.                                              *)
Recorded(e) == state # "none" \/ (Local /\ e = "cancelled")
Records(thread) ==
  thread.error # "none" /\ (thread.at = "done" \/ thread.todo = <<"close">>)
    => Recorded(thread.error)

MainPlace ==
  /\ main \in {"await", "input", "unpacker", "pool", "judge"} => received <= Transports
  /\ main \in {"input", "unpacker", "pool", "judge"} => received < Transports
  /\ main = "await" => un.at = "done" /\ un.error = "none"
  /\ main \in {"pool", "judge"} => un.at = "done"
  /\ main \in {"unpacker", "pool", "judge"} => in.at = "done"

(* What only a cancellation can cause.                                     *)
Causes ==
  \/ Cancelled
  \/ /\ line # "closed" /\ queue.status # "abandoned"
     /\ {in.error, un.error, writer.error, state} \subseteq {"none", "own", "closed"}
     /\ ~sink.cancelled /\ ~writer.cancelled
     /\ \A s \in Slots : sink.op[s] # "aborted"

Threads ==
  InputPlace /\ UnpackerPlace /\ Records(in) /\ Records(un) /\ MainPlace /\ Causes

(***************************************************************************)
(* What the constants are.                                                 *)
(***************************************************************************)
LEMMA Parameters ==
  /\ Sizes \in Seq(Nat) /\ Files = 1 .. Len(Sizes) /\ Len(Sizes) \in Nat
  /\ \A f \in Files : Sizes[f] \in Nat /\ f \in Nat \ {0}
  /\ Directories \subseteq Files /\ \A d \in Directories : Sizes[d] = 0
  /\ Padding \in Nat /\ Capacity \in Nat \ {0}
  /\ BatchSize \in Nat \ {0} /\ MaxOps \in Nat \ {0} /\ Transports \in Nat \ {0}
  /\ \A s \in Scenarios : /\ s.source \in {"socket", "zstd", "raw"} /\ s.keep \in BOOLEAN
                          /\ s.slot \in Nat \ {0} /\ s.slots \in Nat \ {0}
                          /\ s.keep => s.source = "socket"
  /\ 0 \in Slots /\ \A i \in 1 .. MaxOps : i \in Slots
BY ReceiveAssumption DEF ReceiveAssumption, Files, Slots

(* An error is handled in two parts: it is recorded, and a queue closed.   *)
LEMMA TwoParts ==
  ASSUME NEW todo \in Handlings, todo # <<>>
  PROVE  /\ Head(todo) \in {"fail", "close"} /\ Tail(todo) \in Handlings
         /\ Len(todo) = 1 <=> Tail(todo) = <<>>
         /\ Head(todo) # "fail" /\ Tail(todo) = <<>> => todo = <<"close">>
         /\ Tail(todo) = <<"close">> => Head(todo) = "fail"
<1>1. \A x : Head(<<x>>) = x /\ Tail(<<x>>) = <<>> /\ Len(<<x>>) = 1
  OBVIOUS
<1>2. \A x, y : Head(<<x, y>>) = x /\ Tail(<<x, y>>) = <<y>> /\ Len(<<x, y>>) = 2
  OBVIOUS
<1>3. \A x : <<x>> # <<>> /\ Len(<<x>>) = 1
  OBVIOUS
<1>4. \A x, y : <<x>> = <<y>> => x = y
  OBVIOUS
<1>5. /\ todo \in {<<"fail">>, <<"close">>, <<"fail", "close">>, <<"close", "fail">>}
      /\ {<<>>, <<"fail">>, <<"close">>} \subseteq Handlings
  BY DEF Handlings
<1>6. CASE todo = <<"fail">>
  BY <1>1, <1>3, <1>5, <1>6
<1>7. CASE todo = <<"close">>
  BY <1>1, <1>3, <1>5, <1>7
<1>8. CASE todo = <<"fail", "close">>
  BY <1>2, <1>3, <1>4, <1>5, <1>8
<1>9. CASE todo = <<"close", "fail">>
  BY <1>2, <1>3, <1>4, <1>5, <1>9
<1>10. QED
  BY <1>5, <1>6, <1>7, <1>8, <1>9

(***************************************************************************)
(* The stream of a transport.                                              *)
(***************************************************************************)
(* Induction, over a set.                                                  *)
LEMMA SetInduction ==
  ASSUME NEW S, 0 \in S, \A n \in Nat : n \in S => n + 1 \in S
  PROVE  Nat \subseteq S
<1> DEFINE R == {ss \in Nat \X Nat : ss[1] < ss[2]}
           T == Nat \ S
<1>1. IsWellFoundedOn(R, Nat)
  BY NatLessThanWellFounded DEF OpToRel
<1>2. SUFFICES ASSUME T # {} PROVE FALSE
  OBVIOUS
<1>3. T \subseteq Nat
  OBVIOUS
<1> HIDE DEF R, T
<1>4. PICK x \in T : \A y \in T : ~ (<<y, x>> \in R)
  BY <1>1, <1>2, <1>3, WFMin
<1>5. x # 0 /\ x \in Nat
  BY <1>3, <1>4 DEF T
<1>6. \A m, n \in Nat : m < n => <<m, n>> \in R
  BY DEF R
<1>7. x - 1 \notin T
  <2>1. x - 1 \in Nat /\ x - 1 < x
    BY <1>5
  <2>2. <<x - 1, x>> \in R
    BY <1>5, <1>6, <2>1
  <2>3. QED
    BY <1>4, <2>2
<1>8. x - 1 \in S /\ x - 1 \in Nat
  BY <1>5, <1>7 DEF T
<1>9. x \in S
  BY <1>5, <1>8
<1>10. QED
  BY <1>4, <1>9 DEF T

(* The sequences that FlattenSeq builds, one after the other.              *)
Joins(seqs, n, f) ==
  f = [i \in 1 .. n |-> IF i = 1 THEN seqs[i] ELSE f[i - 1] \o seqs[i]]

LEMMA JoinsExist ==
  ASSUME NEW L \in Nat \ {0}, NEW seqs
  PROVE  \E f : Joins(seqs, L, f)
<1> DEFINE S == {n \in Nat : \E f : Joins(seqs, n + 1, f)}
<1>1. 0 \in S
  <2> DEFINE f == [i \in 1 .. 1 |-> seqs[i]]
  <2>1. f = [i \in 1 .. 1 |-> IF i = 1 THEN seqs[i] ELSE f[i - 1] \o seqs[i]]
    OBVIOUS
  <2>2. 0 + 1 = 1 /\ 0 \in Nat
    OBVIOUS
  <2> HIDE DEF f
  <2>3. Joins(seqs, 1, f)
    BY <2>1 DEF Joins
  <2>4. QED
    BY <2>2, <2>3
<1>2. ASSUME NEW n \in Nat, n \in S
      PROVE  n + 1 \in S
  <2>1. PICK f : Joins(seqs, n + 1, f)
    BY <1>2
  <2>2. /\ \A i \in 1 .. n + 1 : f[i] = IF i = 1 THEN seqs[i] ELSE f[i - 1] \o seqs[i]
    BY <2>1 DEF Joins
  <2> DEFINE g == [i \in 1 .. n + 2 |-> IF i = n + 2 THEN f[n + 1] \o seqs[n + 2] ELSE f[i]]
  <2>3. DOMAIN g = 1 .. n + 2
    OBVIOUS
  <2>4. \A i \in 1 .. n + 1 : g[i] = f[i]
    OBVIOUS
  <2>5. g[n + 2] = f[n + 1] \o seqs[n + 2]
    <3>1. n + 2 \in 1 .. n + 2
      OBVIOUS
    <3>2. QED
      BY <3>1
  <2>6. g = [i \in 1 .. n + 2 |-> g[i]]
    OBVIOUS
  <2> HIDE DEF g
  <2>7. ASSUME NEW i \in 1 .. n + 2
        PROVE  g[i] = IF i = 1 THEN seqs[i] ELSE g[i - 1] \o seqs[i]
    <3>1. CASE i = n + 2
      <4>1. i # 1 /\ i - 1 = n + 1 /\ n + 1 \in 1 .. n + 1
        BY <3>1
      <4>2. QED
        BY <2>4, <2>5, <3>1, <4>1
    <3>2. CASE i # n + 2
      <4>1. i \in 1 .. n + 1
        BY <3>2
      <4>2. i # 1 => i - 1 \in 1 .. n + 1
        BY <4>1
      <4>3. QED
        BY <2>2, <2>4, <4>1, <4>2
    <3>3. QED
      BY <3>1, <3>2
  <2>8. g = [i \in 1 .. n + 2 |-> IF i = 1 THEN seqs[i] ELSE g[i - 1] \o seqs[i]]
    BY <2>6, <2>7
  <2>9. (n + 1) + 1 = n + 2 /\ n + 1 \in Nat
    OBVIOUS
  <2>10. Joins(seqs, (n + 1) + 1, g)
    BY <2>8, <2>9 DEF Joins
  <2>11. QED
    BY <2>9, <2>10
<1> HIDE DEF S
<1>3. Nat \subseteq S
  BY <1>1, <1>2, SetInduction
<1>4. L - 1 \in Nat /\ (L - 1) + 1 = L
  OBVIOUS
<1>5. L - 1 \in S
  BY <1>3, <1>4
<1>6. QED
  BY <1>4, <1>5 DEF S

LEMMA Concatenation ==
  ASSUME NEW T, NEW s \in Seq(T), NEW t \in Seq(T)
  PROVE  s \o t \in Seq(T) /\ Range(s) \subseteq Range(s \o t) /\ Range(t) \subseteq Range(s \o t)
<1> DEFINE u == s \o t
<1>1. /\ u \in Seq(T) /\ Len(s) \in Nat /\ Len(t) \in Nat
      /\ DOMAIN s = 1 .. Len(s) /\ DOMAIN t = 1 .. Len(t) /\ DOMAIN u = 1 .. Len(s) + Len(t)
      /\ \A i \in 1 .. Len(s) : u[i] = s[i]
      /\ \A i \in 1 .. Len(t) : u[Len(s) + i] = t[i]
  OBVIOUS
<1> HIDE DEF u
<1>2. \A i \in DOMAIN s : i \in DOMAIN u /\ u[i] = s[i]
  BY <1>1
<1>3. \A i \in DOMAIN t : Len(s) + i \in DOMAIN u /\ u[Len(s) + i] = t[i]
  BY <1>1
<1>4. Range(s) \subseteq Range(u) /\ Range(t) \subseteq Range(u)
  BY <1>2, <1>3 DEF Range
<1>5. QED
  BY <1>1, <1>4 DEF u

LEMMA Joined ==
  ASSUME NEW T, NEW s \in Seq(T), NEW t \in Seq(T), NEW u, u = s \o t
  PROVE  /\ Len(s) \in Nat /\ Len(t) \in Nat /\ Len(u) = Len(s) + Len(t)
         /\ \A k \in 1 .. Len(s) : u[k] = s[k]
         /\ \A i \in 1 .. Len(t) : u[Len(s) + i] = t[i]
OBVIOUS

(* FlattenSeq puts the sequences together, and leaves out none.            *)
LEMMA Flattened ==
  ASSUME NEW T, NEW L \in Nat, NEW seqs, Len(seqs) = L, DOMAIN seqs = 1 .. L,
         \A i \in 1 .. L : seqs[i] \in Seq(T), L # 0
  PROVE  /\ FlattenSeq(seqs) \in Seq(T)
         /\ \A i \in 1 .. L : Range(seqs[i]) \subseteq Range(FlattenSeq(seqs))
<1> DEFINE c == CHOOSE f : Joins(seqs, L, f)
<1>1. Joins(seqs, L, c)
  <2>1. \E f : Joins(seqs, L, f)
    BY JoinsExist
  <2>2. QED
    BY ONLY <2>1, Zenon
<1>2. FlattenSeq(seqs) = c[L]
  BY DEF FlattenSeq, Joins
<1> HIDE DEF c
<1>3. \A i \in 1 .. L : c[i] = IF i = 1 THEN seqs[i] ELSE c[i - 1] \o seqs[i]
  BY <1>1 DEF Joins
<1> DEFINE S == {n \in Nat : n < L => /\ c[n + 1] \in Seq(T)
                                      /\ \A i \in 1 .. n + 1 : Range(seqs[i]) \subseteq Range(c[n + 1])}
<1>4. 0 \in S
  <2>1. 1 \in 1 .. L /\ c[1] = seqs[1]
    BY <1>3
  <2>2. QED
    BY <2>1
<1>5. ASSUME NEW n \in Nat, n \in S
      PROVE  n + 1 \in S
  <2>1. SUFFICES ASSUME n + 1 < L
                 PROVE  /\ c[n + 2] \in Seq(T)
                        /\ \A i \in 1 .. n + 2 : Range(seqs[i]) \subseteq Range(c[n + 2])
    <3>1. (n + 1) + 1 = n + 2 /\ n + 1 \in Nat
      OBVIOUS
    <3>2. QED
      BY <3>1
  <2>2. /\ c[n + 1] \in Seq(T) /\ \A i \in 1 .. n + 1 : Range(seqs[i]) \subseteq Range(c[n + 1])
    BY <1>5, <2>1
  <2>3. n + 2 \in 1 .. L /\ n + 2 # 1 /\ (n + 2) - 1 = n + 1
    BY <2>1
  <2>4. c[n + 2] = c[n + 1] \o seqs[n + 2]
    BY <1>3, <2>3
  <2>5. /\ c[n + 2] \in Seq(T) /\ Range(c[n + 1]) \subseteq Range(c[n + 2])
        /\ Range(seqs[n + 2]) \subseteq Range(c[n + 2])
    BY <2>2, <2>3, <2>4, Concatenation
  <2>6. \A i \in 1 .. n + 2 : i \in 1 .. n + 1 \/ i = n + 2
    OBVIOUS
  <2>7. QED
    BY <2>2, <2>5, <2>6
<1> HIDE DEF S
<1>6. Nat \subseteq S
  BY <1>4, <1>5, SetInduction
<1>7. L - 1 \in Nat /\ L - 1 < L /\ (L - 1) + 1 = L
  OBVIOUS
<1>8. L - 1 \in S
  BY <1>6, <1>7
<1>9. /\ c[L] \in Seq(T) /\ \A i \in 1 .. L : Range(seqs[i]) \subseteq Range(c[L])
  BY <1>7, <1>8 DEF S
<1>10. QED
  BY <1>2, <1>9

(* What the items of the stream are: headers and chunks of files, among    *)
(* them the last one of every file, the mark, and nothing but padding.     *)
MarkAt == Len(Stream) - Padding
LEMMA StreamTyped ==
  /\ Len(Stream) \in Nat /\ MarkAt \in 1 .. Len(Stream)
  /\ \A k \in 1 .. Len(Stream) :
       /\ Stream[k][1] \in Files \cup {0} /\ Stream[k][2] \in Nat
       /\ Stream[k] = Mark <=> k = MarkAt
       /\ k < MarkAt => Stream[k][1] \in Files
  /\ \A f \in Files : \E k \in 1 .. Len(Stream) :
       k < MarkAt /\ Stream[k][1] = f /\ Stream[k][2] = Sizes[f]
<1> DEFINE seqs == [f \in Files |-> Entry(f)]
           L == Len(Sizes)
           T == Files \X Nat
           F == FlattenSeq(seqs)
           pad == [i \in 1 .. Padding + 1 |-> <<0, i - 1>>]
<1>1. L \in Nat /\ Files = 1 .. L /\ \A f \in Files : Sizes[f] \in Nat /\ f \in Nat \ {0}
  BY Parameters
<1>2. DOMAIN seqs = 1 .. L /\ Len(seqs) = L /\ \A f \in 1 .. L : seqs[f] = Entry(f)
  BY <1>1
<1>3. \A f \in Files : Entry(f) \in Seq(T) /\ <<f, Sizes[f]>> \in Range(Entry(f))
  <2>1. SUFFICES ASSUME NEW f \in Files
                 PROVE  Entry(f) \in Seq(T) /\ <<f, Sizes[f]>> \in Range(Entry(f))
    OBVIOUS
  <2> DEFINE n == Sizes[f]
  <2>2. n \in Nat
    BY <1>1
  <2>3. Entry(f) = [i \in 1 .. n + 1 |-> <<f, i - 1>>]
    BY DEF Entry
  <2> HIDE DEF n
  <2>4. \A i \in 1 .. n + 1 : <<f, i - 1>> \in T
    BY <2>2
  <2>5. Entry(f) \in Seq(T) /\ DOMAIN Entry(f) = 1 .. n + 1
    BY <2>2, <2>3, <2>4
  <2>6. n + 1 \in 1 .. n + 1 /\ Entry(f)[n + 1] = <<f, n>>
    BY <2>2, <2>3
  <2>7. QED
    BY <2>5, <2>6 DEF Range, n
<1> HIDE DEF seqs
<1>4. F \in Seq(T) /\ \A f \in Files : <<f, Sizes[f]>> \in Range(F)
  <2>1. CASE L = 0
    <3>1. FlattenSeq(seqs) = seqs
      BY <1>2, <2>1 DEF FlattenSeq
    <3>2. Files = {}
      BY <1>1, <2>1
    <3>3. seqs = <<>>
      BY <3>2 DEF seqs
    <3>4. QED
      BY <3>1, <3>2, <3>3
  <2>2. CASE L # 0
    <3>1. \A i \in 1 .. L : seqs[i] \in Seq(T)
      BY <1>1, <1>2, <1>3
    <3>2. F \in Seq(T) /\ \A i \in 1 .. L : Range(seqs[i]) \subseteq Range(F)
      BY <1>1, <1>2, <2>2, <3>1, Flattened
    <3>3. QED
      BY <1>1, <1>2, <1>3, <3>2
  <2>3. QED
    BY <2>1, <2>2
<1>5. Stream = F \o pad
  BY DEF Stream, seqs
<1>6. Padding \in Nat
  BY Parameters
<1> DEFINE U == (Files \cup {0}) \X Nat
<1>7. /\ pad \in Seq(U) /\ Len(pad) = Padding + 1
      /\ \A i \in 1 .. Padding + 1 : pad[i] = <<0, i - 1>>
  <2>1. \A i \in 1 .. Padding + 1 : <<0, i - 1>> \in U
    BY <1>6
  <2>2. QED
    BY <1>6, <2>1
<1>8. F \in Seq(U)
  BY <1>4
<1> HIDE DEF F, pad, U
<1>9. /\ Len(F) \in Nat /\ Len(Stream) = Len(F) + Padding + 1
      /\ \A k \in 1 .. Len(F) : Stream[k] = F[k]
      /\ \A i \in 1 .. Padding + 1 : Stream[Len(F) + i] = pad[i]
  <2>1. /\ Len(F) \in Nat /\ Len(pad) \in Nat /\ Len(Stream) = Len(F) + Len(pad)
        /\ \A k \in 1 .. Len(F) : Stream[k] = F[k]
        /\ \A i \in 1 .. Len(pad) : Stream[Len(F) + i] = pad[i]
    BY ONLY <1>5, <1>7, <1>8, Joined
  <2>2. QED
    BY <1>6, <1>7, <2>1
<1>10. MarkAt = Len(F) + 1
  BY <1>6, <1>9 DEF MarkAt
<1>11. \A k \in 1 .. Len(F) : F[k][1] \in Files /\ F[k][2] \in Nat
  BY <1>4
<1>12. Len(Stream) \in Nat /\ MarkAt \in 1 .. Len(Stream)
  BY <1>6, <1>9, <1>10
<1>13. ASSUME NEW k \in 1 .. Len(Stream)
       PROVE  /\ Stream[k][1] \in Files \cup {0} /\ Stream[k][2] \in Nat
              /\ Stream[k] = Mark <=> k = MarkAt
              /\ k < MarkAt => Stream[k][1] \in Files
  <2>1. CASE k \in 1 .. Len(F)
    <3>1. k < MarkAt /\ k # MarkAt
      BY <1>9, <1>10, <2>1
    <3>2. Stream[k][1] \in Files /\ Stream[k][2] \in Nat /\ Stream[k][1] # 0
      BY <1>1, <1>9, <1>11, <2>1
    <3>3. Stream[k] # Mark
      BY <3>2 DEF Mark
    <3>4. QED
      BY <3>1, <3>2, <3>3
  <2>2. CASE k \notin 1 .. Len(F)
    <3>1. PICK i \in 1 .. Padding + 1 : k = Len(F) + i
      <4>1. k - Len(F) \in 1 .. Padding + 1 /\ k = Len(F) + (k - Len(F))
        BY <1>6, <1>9, <2>2
      <4>2. QED
        BY <4>1
    <3>2. Stream[k] = <<0, i - 1>> /\ i - 1 \in Nat
      <4>1. i - 1 \in Nat
        BY <1>6
      <4>2. QED
        BY <1>7, <1>9, <3>1, <4>1
    <3>3. ~ (k < MarkAt) /\ (k = MarkAt <=> i - 1 = 0)
      BY <1>6, <1>9, <1>10, <3>1
    <3>4. QED
      BY <3>2, <3>3 DEF Mark
  <2>3. QED
    BY <2>1, <2>2
<1>14. ASSUME NEW f \in Files
       PROVE  \E k \in 1 .. Len(Stream) :
                k < MarkAt /\ Stream[k][1] = f /\ Stream[k][2] = Sizes[f]
  <2>1. PICK k \in DOMAIN F : F[k] = <<f, Sizes[f]>>
    BY <1>4 DEF Range
  <2>2. k \in 1 .. Len(F)
    BY <1>4
  <2>3. k \in 1 .. Len(Stream) /\ k < MarkAt
    BY <1>6, <1>9, <1>10, <2>2
  <2>4. QED
    BY <1>9, <2>1, <2>2, <2>3
<1>15. QED
  BY <1>12, <1>13, <1>14

(***************************************************************************)
(* The input thread keeps the types and places.                            *)
(***************************************************************************)
(* A thread that throws has its error and has recorded nothing yet; one    *)
(* that handles its error records it, or closes its queue.                 *)
LEMMA InputThrown ==
  ASSUME in \in InType, NEW e \in Errors, InputThrows(e)
  PROVE  /\ in' \in InType /\ in'.at = "handling" /\ in'.error = e /\ in'.item = in.item
         /\ in'.todo # <<>> /\ in'.todo # <<"close">>
BY DEF InType, InputThrows, Throw, InputHandling, Handlings, InPlaces

LEMMA UnpackerThrown ==
  ASSUME un \in UnType, NEW e \in Errors, UnpackerThrows(e)
  PROVE  /\ un' \in UnType /\ un'.at = "handling" /\ un'.error = e
         /\ un'.file = un.file /\ un'.chunk = un.chunk
         /\ un'.todo # <<>> /\ un'.todo # <<"close">>
BY DEF UnType, UnpackerThrows, Throw, Handlings, UnPlaces

LEMMA InputMoved ==
  ASSUME in \in InType, NEW p \in InPlaces, in' = [in EXCEPT !.at = p]
  PROVE  /\ in' \in InType /\ in'.at = p /\ in'.error = in.error /\ in'.item = in.item
         /\ in'.todo = in.todo
BY DEF InType

LEMMA UnpackerMoved ==
  ASSUME un \in UnType, NEW p \in UnPlaces, un' = [un EXCEPT !.at = p]
  PROVE  /\ un' \in UnType /\ un'.at = p /\ un'.error = un.error /\ un'.file = un.file
         /\ un'.chunk = un.chunk /\ un'.then = un.then /\ un'.todo = un.todo
BY DEF UnType

LEMMA InputHandled ==
  ASSUME in \in InType, in.at = "handling", in.todo # <<>>, in' = Handled(in)
  PROVE  /\ in' \in InType /\ in'.error = in.error /\ in'.item = in.item
         /\ in'.at \in {"handling", "done"} /\ (in'.at = "handling" => in'.todo # <<>>)
         /\ in'.at = "done" => in'.todo = <<>>
         /\ (Head(in.todo) # "fail" /\ in'.at = "done") => in.todo = <<"close">>
         /\ in'.todo = <<"close">> => Head(in.todo) = "fail"
<1>1. in.todo \in Handlings
  BY DEF InType
<1>2. /\ in'.todo = Tail(in.todo) /\ in'.error = in.error /\ in'.item = in.item
      /\ in'.at = IF Len(in.todo) = 1 THEN "done" ELSE in.at
  BY DEF InType, Handled
<1>3. in' \in InType
  BY <1>1, TwoParts DEF InType, Handled, InPlaces
<1>4. QED
  BY <1>1, <1>2, <1>3, TwoParts

LEMMA UnpackerHandled ==
  ASSUME un \in UnType, un.at = "handling", un.todo # <<>>, un' = Handled(un)
  PROVE  /\ un' \in UnType /\ un'.error = un.error /\ un'.file = un.file /\ un'.chunk = un.chunk
         /\ un'.at \in {"handling", "done"} /\ (un'.at = "handling" => un'.todo # <<>>)
         /\ un'.at = "done" => un'.todo = <<>>
         /\ (Head(un.todo) # "fail" /\ un'.at = "done") => un.todo = <<"close">>
         /\ un'.todo = <<"close">> => Head(un.todo) = "fail"
<1>1. un.todo \in Handlings
  BY DEF UnType
<1>2. /\ un'.todo = Tail(un.todo) /\ un'.error = un.error /\ un'.file = un.file
      /\ un'.chunk = un.chunk
      /\ un'.at = IF Len(un.todo) = 1 THEN "done" ELSE un.at
  BY DEF UnType, Handled
<1>3. un' \in UnType
  BY <1>1, TwoParts DEF UnType, Handled, UnPlaces
<1>4. QED
  BY <1>1, <1>2, <1>3, TwoParts

(* Handling closes the queue or leaves it alone, and only adds an error.   *)
LEMMA QueueClosed ==
  ASSUME queue \in QueueType, CloseQueue
  PROVE  /\ queue' \in QueueType /\ queue'.items = queue.items
         /\ queue'.status = IF queue.status = "open" THEN "closed" ELSE queue.status
BY DEF QueueType, CloseQueue

LEMMA ErrorHandled ==
  ASSUME Types, NEW thread, thread.error \in Errors \ {"none"}, Handle(thread)
  PROVE  /\ queue' \in QueueType /\ queue'.items = queue.items
         /\ queue'.status \in {queue.status, "closed"}
         /\ queue'.status = queue.status \/ queue.status = "open"
         /\ state' \in {state, thread.error} /\ (state # "none" => state' # "none")
         /\ Head(thread.todo) = "fail" =>
              state' # "none" \/ (Local /\ thread.error = "cancelled")
<1>1. queue \in QueueType
  BY DEF Types
<1>2. CASE Head(thread.todo) = "fail"
  BY <1>1, <1>2 DEF Handle, Fail
<1>3. CASE Head(thread.todo) # "fail"
  BY <1>1, <1>3, QueueClosed DEF Handle
<1>4. QED
  BY <1>2, <1>3

(* A step of the input thread, in general: it touches nothing of the       *)
(* unpacker and its files.                                                 *)
LEMMA InputStepKeepsThreads ==
  ASSUME Types, Threads, main = "input" \/ in.at # "done",
         UNCHANGED <<scenario, line, un, files, main, received, report, cancel>>,
         in' \in InType, got' \in 0 .. Len(Stream),
         queue' \in QueueType, Len(queue'.items) <= Capacity, state' \in {state, in.error},
         state # "none" => state' # "none",
         InputPlace', Records(in)',
         Cancelled \/ (queue'.status # "abandoned" /\ in'.error \in {"none", "own", "closed"})
  PROVE  Types' /\ Threads'
<1>1. in \in InType /\ in.error \in Errors
  BY DEF Types, InType
<1>2. Types'
  BY <1>1 DEF Types, files
<1>3. InputPlace' /\ UnpackerPlace' /\ Records(un)'
  BY DEF Threads, UnpackerPlace, Working, Writing, Records, Recorded, Local
<1>4. MainPlace'
  BY DEF Threads, MainPlace
<1>5. Causes'
  BY DEF Threads, Causes, Cancelled, files
<1>6. QED
  BY <1>2, <1>3, <1>4, <1>5 DEF Threads

LEMMA InputChecksKeepsThreads ==
  ASSUME Types, Threads, InputChecks
  PROVE  Types' /\ Threads'
<1>1. in \in InType /\ in.at = "check"
  BY DEF Types, InputChecks
<1>2. /\ in' \in InType
      /\ \/ /\ in'.at = "handling" /\ in'.error = "cancelled" /\ in'.todo # <<>>
            /\ in'.todo # <<"close">> /\ Cancelled
         \/ in'.at = "read" /\ in'.error = in.error /\ in'.todo = in.todo
  <2>1. CASE Cancelled
    BY <1>1, <2>1, InputThrown DEF InputChecks, Errors
  <2>2. CASE ~Cancelled
    BY <1>1, <2>2, InputMoved DEF InputChecks, InPlaces
  <2>3. QED
    BY <2>1, <2>2
<1>3. UNCHANGED <<source, queue, un, files, outcome, cancel>>
  BY DEF InputChecks
<1>4. InputPlace' /\ Records(in)'
  BY <1>1, <1>2, <1>3 DEF InputPlace, Threads, Records, Recorded, Local, source, outcome
<1>5. Cancelled \/ (queue'.status # "abandoned" /\ in'.error \in {"none", "own", "closed"})
  BY <1>2, <1>3 DEF Threads, Causes
<1>6. QED
  BY <1>1, <1>2, <1>3, <1>4, <1>5, InputStepKeepsThreads DEF Types, source, outcome

LEMMA ReadKeepsThreads ==
  ASSUME Types, Threads, Read
  PROVE  Types' /\ Threads'
<1>1. in \in InType /\ in.at = "read" /\ queue \in QueueType /\ got \in 0 .. Len(Stream)
  BY DEF Types, Read
<1>2. UNCHANGED <<scenario, line, un, files, outcome, cancel>>
  BY DEF Read
<1>3. CASE line = "up" /\ got < Len(Stream) /\ got' = got + 1 /\ UNCHANGED queue
            /\ in' = [in EXCEPT !.at = "push", !.item = got + 1]
  <2>1. got + 1 \in 0 .. Len(Stream) /\ got + 1 # 0
    BY <1>1, <1>3, StreamTyped
  <2>2. /\ in' \in InType /\ in'.at = "push" /\ in'.item = got + 1 /\ in'.error = in.error
        /\ in'.todo = in.todo
    BY <1>1, <1>3, <2>1 DEF InType, InPlaces
  <2>3. InputPlace' /\ Records(in)'
    BY <1>1, <1>2, <1>3, <2>1, <2>2 DEF InputPlace, Threads, Records, Recorded, Local, outcome
  <2>4. Cancelled \/ (queue'.status # "abandoned" /\ in'.error \in {"none", "own", "closed"})
    BY <1>3, <2>2 DEF Threads, Causes
  <2>5. QED
    BY <1>1, <1>2, <1>3, <2>1, <2>2, <2>3, <2>4, InputStepKeepsThreads DEF Types, outcome
<1>4. CASE line = "up" /\ got = Len(Stream) /\ in' = [in EXCEPT !.at = "done"]
           /\ CloseQueue /\ UNCHANGED got
  <2>1. /\ in' \in InType /\ in'.at = "done" /\ in'.error = in.error /\ in'.todo = in.todo
    BY <1>1, <1>4, InputMoved DEF InPlaces
  <2>2. /\ queue' \in QueueType /\ queue'.items = queue.items
        /\ queue'.status = IF queue.status = "open" THEN "closed" ELSE queue.status
    BY <1>1, <1>4, QueueClosed
  <2>3. in.error = "none"
    BY <1>1 DEF Threads, InputPlace
  <2>4. InputPlace' /\ Records(in)'
    BY <2>1, <2>3 DEF InputPlace, Records
  <2>5. Cancelled \/ (queue'.status # "abandoned" /\ in'.error \in {"none", "own", "closed"})
    BY <2>1, <2>2 DEF Threads, Causes
  <2>6. QED
    BY <1>1, <1>2, <1>4, <2>1, <2>2, <2>4, <2>5, InputStepKeepsThreads DEF Types, outcome
<1>5. CASE line \in {"lost", "closed"} /\ UNCHANGED <<queue, got>>
           /\ InputThrows(IF line = "lost" THEN "own" ELSE "cancelled")
  <2> DEFINE e == IF line = "lost" THEN "own" ELSE "cancelled"
  <2>1. e \in Errors /\ e # "none" /\ (Cancelled \/ e = "own")
    BY <1>5 DEF Errors, Threads, Causes
  <2> HIDE DEF e
  <2>2. /\ in' \in InType /\ in'.at = "handling" /\ in'.error = e
        /\ in'.todo # <<>> /\ in'.todo # <<"close">>
    BY <1>1, <1>5, <2>1, InputThrown DEF e
  <2>3. InputPlace' /\ Records(in)'
    BY <2>1, <2>2 DEF InputPlace, Records
  <2>4. Cancelled \/ (queue'.status # "abandoned" /\ in'.error \in {"none", "own", "closed"})
    BY <1>5, <2>1, <2>2 DEF Threads, Causes
  <2>5. QED
    BY <1>1, <1>2, <1>5, <2>2, <2>3, <2>4, InputStepKeepsThreads DEF Types, outcome
<1>6. QED
  BY <1>1, <1>3, <1>4, <1>5 DEF Read

LEMMA PushTarKeepsThreads ==
  ASSUME Types, Threads, PushTar
  PROVE  Types' /\ Threads'
<1>1. in \in InType /\ in.at = "push" /\ queue \in QueueType /\ got \in 0 .. Len(Stream)
  BY DEF Types, PushTar
<1>2. UNCHANGED <<source, un, files, outcome, cancel>>
  BY DEF PushTar
<1>3. CASE queue.status = "open" /\ Len(queue.items) < Capacity
           /\ queue' = [queue EXCEPT !.items = Append(@, in.item)]
           /\ in' = [in EXCEPT !.at = "check"]
  <2>1. /\ in' \in InType /\ in'.at = "check" /\ in'.error = in.error /\ in'.todo = in.todo
    BY <1>1, <1>3, InputMoved DEF InPlaces
  <2>2. in.item \in 1 .. Len(Stream)
    BY <1>1, StreamTyped DEF Threads, InputPlace
  <2>3. queue.items \in Seq(1 .. Len(Stream))
    BY <1>1 DEF QueueType
  <2>10. Append(queue.items, in.item) \in Seq(1 .. Len(Stream))
    BY <2>2, <2>3
  <2>4. /\ queue' \in QueueType /\ queue'.status = queue.status
        /\ queue'.items = Append(queue.items, in.item)
    BY <1>1, <1>3, <2>10 DEF QueueType
  <2>5. Len(queue'.items) <= Capacity
    <3>1. Len(Append(queue.items, in.item)) = Len(queue.items) + 1 /\ Len(queue.items) \in Nat
      BY <2>3
    <3>2. QED
      BY <1>3, <2>4, <3>1, Parameters
  <2>6. InputPlace' /\ Records(in)'
    BY <1>1, <1>2, <2>1 DEF InputPlace, Threads, Records, Recorded, Local, source, outcome
  <2>7. Cancelled \/ (queue'.status # "abandoned" /\ in'.error \in {"none", "own", "closed"})
    BY <2>1, <2>4 DEF Threads, Causes
  <2>8. QED
    BY <1>1, <1>2, <2>1, <2>4, <2>5, <2>6, <2>7, InputStepKeepsThreads DEF Types, source, outcome
<1>4. CASE queue.status # "open" /\ UNCHANGED queue
           /\ InputThrows(IF queue.status = "closed" THEN "closed" ELSE "cancelled")
  <2> DEFINE e == IF queue.status = "closed" THEN "closed" ELSE "cancelled"
  <2>1. e \in Errors /\ e # "none" /\ (Cancelled \/ e = "closed")
    BY <1>1, <1>4 DEF Errors, Threads, Causes, QueueType
  <2> HIDE DEF e
  <2>2. /\ in' \in InType /\ in'.at = "handling" /\ in'.error = e
        /\ in'.todo # <<>> /\ in'.todo # <<"close">>
    BY <1>1, <1>4, <2>1, InputThrown DEF e
  <2>3. InputPlace' /\ Records(in)'
    BY <2>1, <2>2 DEF InputPlace, Records
  <2>4. Cancelled \/ (queue'.status # "abandoned" /\ in'.error \in {"none", "own", "closed"})
    BY <1>4, <2>1, <2>2 DEF Threads, Causes
  <2>5. QED
    BY <1>1, <1>2, <1>4, <2>2, <2>3, <2>4, InputStepKeepsThreads DEF Types, source, outcome
<1>5. QED
  BY <1>3, <1>4 DEF PushTar

LEMMA InputHandlesKeepsThreads ==
  ASSUME Types, Threads, InputHandles
  PROVE  Types' /\ Threads'
<1>1. /\ in \in InType /\ in.at = "handling" /\ queue \in QueueType
      /\ in.todo # <<>> /\ in.error # "none" /\ in.error \in Errors
  BY DEF Types, InputHandles, Handle, Threads, InputPlace, InType
<1>2. UNCHANGED <<source, un, files, main, received, report, cancel>>
  BY DEF InputHandles
<1>3. /\ in' \in InType /\ in'.error = in.error
      /\ in'.at \in {"handling", "done"} /\ (in'.at = "handling" => in'.todo # <<>>)
      /\ in'.at = "done" => in'.todo = <<>>
      /\ (Head(in.todo) # "fail" /\ in'.at = "done") => in.todo = <<"close">>
      /\ in'.todo = <<"close">> => Head(in.todo) = "fail"
  BY <1>1, InputHandled DEF InputHandles
<1>4. /\ queue' \in QueueType /\ queue'.items = queue.items
      /\ queue'.status \in {queue.status, "closed"}
      /\ state' \in {state, in.error} /\ (state # "none" => state' # "none")
      /\ Head(in.todo) = "fail" => state' # "none" \/ (Local /\ in.error = "cancelled")
  BY <1>1, ErrorHandled DEF InputHandles
<1>5. InputPlace' /\ Records(in)'
  BY <1>1, <1>2, <1>3, <1>4 DEF InputPlace, Threads, Records, Recorded, Local, source
<1>6. Cancelled \/ (queue'.status # "abandoned" /\ in'.error \in {"none", "own", "closed"})
  BY <1>3, <1>4 DEF Threads, Causes
<1>7. QED
  BY <1>1, <1>2, <1>3, <1>4, <1>5, <1>6, InputStepKeepsThreads DEF Types, source

(* The source, the main thread and the cancellation.                       *)
LEMMA SourceFailsKeepsThreads ==
  ASSUME Types, Threads, SourceFails
  PROVE  Types' /\ Threads'
<1>1. line' \in {"lost", "stalled"} /\ UNCHANGED <<scenario, got, queue, in, un, files, outcome, cancel>>
  BY DEF SourceFails
<1>2. Types'
  BY <1>1 DEF Types, files, outcome
<1>3. Threads'
  BY <1>1 DEF Threads, InputPlace, UnpackerPlace, Working, Writing, Records, Recorded, Local,
              MainPlace, Causes, Cancelled, files, outcome
<1>4. QED
  BY <1>2, <1>3

LEMMA AwaitTransportKeepsThreads ==
  ASSUME Types, Threads, AwaitTransport
  PROVE  Types' /\ Threads'
<1>1. UNCHANGED <<scenario, line, files, received, cancel>> /\ main = "await"
  BY DEF AwaitTransport
<1>2. CASE Start /\ received < Transports
  <2>1. /\ got' = 0 /\ state' = "none" /\ report' = "none" /\ main' = "input"
        /\ queue' = [items |-> <<>>, status |-> IF Cancelled THEN "abandoned" ELSE "open"]
        /\ in' = [at |-> "check", item |-> 0, error |-> "none", todo |-> <<>>]
        /\ un' = [at |-> "check", file |-> 0, chunk |-> 0, then |-> "none", error |-> "none",
                  todo |-> <<>>]
    BY <1>2 DEF Start, NewQueue, NewInput, NewUnpacker
  <2>2. 0 \in 0 .. Len(Stream) /\ 0 <= Capacity /\ 0 \notin Directories
    BY Parameters, StreamTyped
  <2>3. queue' \in QueueType /\ Len(queue'.items) <= Capacity
    BY <2>1, <2>2 DEF QueueType
  <2>4. in' \in InType /\ un' \in UnType
    BY <2>1, <2>2 DEF InType, UnType, InPlaces, UnPlaces, Errors, Handlings
  <2>5. Types'
    BY <1>1, <2>1, <2>2, <2>3, <2>4 DEF Types, files, Errors
  <2>6. InputPlace' /\ UnpackerPlace' /\ Records(in)' /\ Records(un)' /\ MainPlace'
    BY <1>1, <1>2, <2>1, <2>2 DEF InputPlace, UnpackerPlace, Working, Writing, Records, MainPlace,
                                  Threads
  <2>7. Causes'
    BY <1>1, <2>1 DEF Threads, Causes, Cancelled, files
  <2>8. QED
    BY <2>5, <2>6, <2>7 DEF Threads
<1>3. CASE main' = "over" /\ report' \in {report, "cancelled", "failed"}
           /\ UNCHANGED <<got, queue, in, un, state>>
  <2>1. Types'
    BY <1>1, <1>3 DEF Types, files
  <2>2. Threads'
    BY <1>1, <1>3 DEF Threads, InputPlace, UnpackerPlace, Working, Writing, Records, Recorded, Local,
                MainPlace, Causes, Cancelled, files
  <2>3. QED
    BY <2>1, <2>2
<1>4. QED
  BY <1>2, <1>3 DEF AwaitTransport, Verdict

LEMMA JoinKeepsThreads ==
  ASSUME Types, Threads, Join
  PROVE  Types' /\ Threads'
<1>1. UNCHANGED <<source, queue, in, un, files, received, state, report, cancel>>
  BY DEF Join
<1>2. \/ main = "input" /\ in.at = "done" /\ main' = "unpacker"
      \/ main = "unpacker" /\ un.at = "done" /\ main' = "pool"
      \/ main = "pool" /\ main' = "judge"
  BY DEF Join
<1>3. Types'
  BY <1>1, <1>2 DEF Types, source, files
<1>4. Threads'
  BY <1>1, <1>2 DEF Threads, InputPlace, UnpackerPlace, Working, Writing, Records, Recorded, Local,
              MainPlace, Causes, Cancelled, source, files
<1>5. QED
  BY <1>3, <1>4

LEMMA JudgeKeepsThreads ==
  ASSUME Types, Threads, Judge
  PROVE  Types' /\ Threads'
<1>1. UNCHANGED <<source, queue, in, un, files, state, cancel>> /\ main = "judge"
  BY DEF Judge
<1>2. /\ report' \in {"completed", "cancelled", "failed"} /\ main' \in {"await", "over"}
      /\ received' \in {received, received + 1}
      /\ main' = "await" => state = "none" /\ scenario.keep
  BY DEF Judge, Verdict
<1>3. received' \in 0 .. Transports
  BY <1>1, <1>2, Parameters DEF Types, Threads, MainPlace
<1>4. Types'
  BY <1>1, <1>2, <1>3 DEF Types, source, files
<1>5. main' = "await" => un.at = "done" /\ un.error = "none"
  <2>1. main' = "await" => ~Local
    BY <1>2, Parameters DEF Types, Local
  <2>2. un.at = "done"
    BY <1>1 DEF Threads, MainPlace
  <2>3. QED
    BY <1>2, <2>1, <2>2 DEF Threads, Records, Recorded
<1>6. MainPlace'
  BY <1>1, <1>2, <1>3, <1>5, Parameters DEF MainPlace
<1>7. un.at = "done"
  BY <1>1 DEF Threads, MainPlace
<1>8. InputPlace' /\ UnpackerPlace' /\ Records(in)' /\ Records(un)' /\ Causes'
  BY <1>1, <1>7 DEF Threads, InputPlace, UnpackerPlace, Working, Writing, Records, Recorded, Local,
                    Causes, Cancelled, source, files
<1>9. QED
  BY <1>4, <1>6, <1>8 DEF Threads

LEMMA CancelKeepsThreads ==
  ASSUME Types, Threads, Cancel
  PROVE  Types' /\ Threads'
<1>1. cancel' = 1 /\ UNCHANGED <<source, queue, in, un, files, outcome>>
  BY DEF Cancel
<1>2. 1 \in 0 .. EmitDone /\ 1 > 0
  BY DEF EmitDone
<1>3. Types'
  BY <1>1, <1>2 DEF Types, source, files, outcome
<1>4. Threads'
  BY <1>1, <1>2 DEF Threads, InputPlace, UnpackerPlace, Working, Writing, Records, Recorded, Local,
              MainPlace, Causes, Cancelled, source, files, outcome
<1>5. QED
  BY <1>3, <1>4

(***************************************************************************)
(* What the steps of the writer, its drain loop and the sink do, field by  *)
(* field.                                                                  *)
(***************************************************************************)
Kinds == writer \in WriterType /\ drain \in DrainType /\ sink \in SinkType

LEMMA Heads ==
  ASSUME NEW S, NEW s \in Seq(S), s # <<>>
  PROVE  Head(s) \in S /\ Tail(s) \in Seq(S) /\ Len(Tail(s)) = Len(s) - 1 /\ Len(s) \in Nat \ {0}
OBVIOUS

LEMMA Appends ==
  ASSUME NEW S, NEW s \in Seq(S), NEW e \in S
  PROVE  /\ Append(s, e) \in Seq(S) /\ Len(Append(s, e)) = Len(s) + 1 /\ Len(s) \in Nat
         /\ Append(s, e) # <<>>
OBVIOUS

LEMMA DrainFailed ==
  ASSUME Kinds, NEW e \in Errors, DrainFails(e)
  PROVE  /\ writer' \in WriterType /\ drain' \in DrainType
         /\ writer'.error = e /\ writer'.current = writer.current
         /\ writer'.pending = writer.pending
         /\ writer'.closing = writer.closing /\ writer'.cancelled = writer.cancelled
         /\ drain'.at = "over" /\ drain'.slot = drain.slot /\ drain'.then = drain.then
BY DEF Kinds, DrainFails, WriterType, DrainType, DrainPlaces

LEMMA DrainMoved ==
  ASSUME Kinds, NEW p \in DrainPlaces, drain' = [drain EXCEPT !.at = p]
  PROVE  /\ drain' \in DrainType /\ drain'.at = p /\ drain'.slot = drain.slot
         /\ drain'.then = drain.then
BY DEF Kinds, DrainType

LEMMA TakeSlotEffect ==
  ASSUME Kinds, TakeSlot
  PROVE  /\ writer' \in WriterType /\ drain' \in DrainType
         /\ writer'.current = writer.current /\ writer'.closing = writer.closing
         /\ writer'.cancelled = writer.cancelled /\ drain'.then = drain.then
         /\ \/ /\ writer.pending # <<>> /\ writer'.pending = Tail(writer.pending)
               /\ writer'.error = writer.error
               /\ drain'.at = "look" /\ drain'.slot = Head(writer.pending)
            \/ /\ writer.pending = <<>> /\ writer.closing /\ writer' = writer
               /\ drain'.at = "look" /\ drain'.slot = drain.slot
            \/ /\ writer.pending = <<>> /\ ~writer.closing /\ writer.cancelled
               /\ writer'.pending = writer.pending /\ writer'.error = "cancelled"
               /\ drain'.at = "over" /\ drain'.slot = drain.slot
<1>1. CASE /\ writer.pending # <<>>
           /\ writer' = [writer EXCEPT !.pending = Tail(@)]
           /\ drain' = [drain EXCEPT !.at = "look", !.slot = Head(writer.pending)]
  <2>1. Tail(writer.pending) \in Seq(Seq(Nat)) /\ Head(writer.pending) \in Seq(Nat)
    BY <1>1, Heads DEF Kinds, WriterType
  <2>2. QED
    BY <1>1, <2>1 DEF Kinds, WriterType, DrainType, DrainPlaces
<1>2. CASE /\ writer.pending = <<>> /\ writer.closing /\ writer' = writer
           /\ drain' = [drain EXCEPT !.at = "look"]
  BY <1>2, DrainMoved DEF Kinds, DrainPlaces
<1>3. CASE /\ writer.pending = <<>> /\ ~writer.closing /\ writer.cancelled
           /\ DrainFails("cancelled")
  BY <1>3, DrainFailed DEF Errors
<1>4. QED
  BY <1>1, <1>2, <1>3 DEF TakeSlot

LEMMA LookEffect ==
  ASSUME Kinds, Look
  PROVE  /\ writer' \in WriterType /\ drain' \in DrainType
         /\ writer'.current = writer.current /\ writer'.closing = writer.closing
         /\ writer'.pending = writer.pending
         /\ writer'.cancelled = writer.cancelled /\ drain'.slot = drain.slot
         /\ \/ /\ writer.cancelled \/ sink.cancelled
               /\ writer'.error = "cancelled" /\ drain'.at = "over"
            \/ /\ writer' = writer
               /\ \/ drain.slot # <<>> /\ drain'.at = "fill"
                  \/ drain.slot = <<>> /\ drain'.at = "submit" /\ drain'.then = "all"
<1>1. CASE (writer.cancelled \/ sink.cancelled) /\ DrainFails("cancelled")
  BY <1>1, DrainFailed DEF Errors
<1>2. CASE drain.slot # <<>> /\ writer' = writer /\ drain' = [drain EXCEPT !.at = "fill"]
  BY <1>2, DrainMoved DEF Kinds, DrainPlaces
<1>3. CASE drain.slot = <<>> /\ writer' = writer
           /\ drain' = [drain EXCEPT !.at = "submit", !.then = "all"]
  BY <1>3 DEF Kinds, DrainType, DrainPlaces
<1>4. QED
  BY <1>1, <1>2, <1>3 DEF Look

LEMMA FillEffect ==
  ASSUME Kinds, Fill
  PROVE  /\ drain' \in DrainType /\ sink' \in SinkType
         /\ sink'.place = sink.place /\ sink'.op = sink.op /\ sink'.active = sink.active
         /\ sink'.available = sink.available /\ sink'.flight = sink.flight
         /\ sink'.size = sink.size /\ sink'.cancelled = sink.cancelled
         /\ \/ /\ drain.slot = <<>> /\ drain'.at = "wait" /\ drain'.slot = drain.slot
               /\ sink' = sink
            \/ /\ drain.slot # <<>> /\ sink.buffer[sink.active] # <<>> /\ sink' = sink
               /\ drain'.at = "submit" /\ drain'.then = "fill" /\ drain'.slot = drain.slot
            \/ /\ drain.slot # <<>> /\ drain'.slot = Tail(drain.slot) /\ drain'.then = "fill"
               /\ sink'.buffer[sink.active] = Append(sink.buffer[sink.active], Head(drain.slot))
               /\ \A s \in Slots : s # sink.active => sink'.buffer[s] = sink.buffer[s]
               /\ drain'.at = IF Len(sink.buffer[sink.active]) + 1 = BatchSize
                              THEN "submit" ELSE "fill"
<1>1. CASE drain.slot = <<>> /\ drain' = [drain EXCEPT !.at = "wait"] /\ sink' = sink
  BY <1>1, DrainMoved DEF Kinds, DrainPlaces
<1>2. CASE /\ drain.slot # <<>> /\ sink.buffer[sink.active] # <<>> /\ sink' = sink
           /\ drain' = [drain EXCEPT !.at = "submit", !.then = "fill"]
  BY <1>2 DEF Kinds, DrainType, DrainPlaces
<1>3. CASE /\ drain.slot # <<>>
           /\ sink' = [sink EXCEPT !.buffer[sink.active] = Append(@, Head(drain.slot))]
           /\ drain' = [drain EXCEPT !.slot = Tail(@), !.then = "fill",
                !.at = IF Len(sink.buffer[sink.active]) + 1 = BatchSize THEN "submit" ELSE "fill"]
  <2>1. /\ sink.active \in Slots /\ sink.buffer \in [Slots -> Seq(Nat)] /\ drain.slot \in Seq(Nat)
        /\ sink.buffer[sink.active] \in Seq(Nat)
    BY DEF Kinds, SinkType, DrainType
  <2>2. Head(drain.slot) \in Nat /\ Tail(drain.slot) \in Seq(Nat)
    BY <1>3, <2>1, Heads
  <2> DEFINE a == Append(sink.buffer[sink.active], Head(drain.slot))
             p == IF Len(sink.buffer[sink.active]) + 1 = BatchSize THEN "submit" ELSE "fill"
  <2>3. a \in Seq(Nat) /\ p \in DrainPlaces
    BY <2>1, <2>2, Appends DEF DrainPlaces
  <2>4. sink' = [sink EXCEPT !.buffer = [sink.buffer EXCEPT ![sink.active] = a]]
    BY <1>3 DEF Kinds, SinkType
  <2>5. drain' = [drain EXCEPT !.slot = Tail(drain.slot), !.then = "fill", !.at = p]
    BY <1>3
  <2> HIDE DEF a, p
  <2>6. [sink.buffer EXCEPT ![sink.active] = a] \in [Slots -> Seq(Nat)]
    BY <2>1, <2>3
  <2>7. /\ sink' \in SinkType
        /\ sink'.place = sink.place /\ sink'.op = sink.op /\ sink'.active = sink.active
        /\ sink'.available = sink.available /\ sink'.flight = sink.flight
        /\ sink'.size = sink.size /\ sink'.cancelled = sink.cancelled
        /\ sink'.buffer = [sink.buffer EXCEPT ![sink.active] = a]
    BY <2>4, <2>6 DEF Kinds, SinkType
  <2>8. drain' \in DrainType /\ drain'.slot = Tail(drain.slot) /\ drain'.then = "fill" /\ drain'.at = p
    BY <2>2, <2>3, <2>5 DEF Kinds, DrainType
  <2>9. /\ sink'.buffer[sink.active] = a
        /\ \A s \in Slots : s # sink.active => sink'.buffer[s] = sink.buffer[s]
    BY <2>1, <2>7
  <2>10. QED
    BY <1>3, <2>7, <2>8, <2>9 DEF a, p
<1>4. QED
  BY <1>1, <1>2, <1>3 DEF Fill

LEMMA SubmitEffect ==
  ASSUME Kinds, Submit, drain.then # "none"
  PROVE  /\ writer' \in WriterType /\ drain' \in DrainType
         /\ writer'.current = writer.current /\ writer'.closing = writer.closing
         /\ writer'.pending = writer.pending
         /\ writer'.cancelled = writer.cancelled /\ drain'.slot = drain.slot
         /\ drain'.then = drain.then
         /\ \/ sink.cancelled /\ writer'.error = "cancelled" /\ drain'.at = "over"
            \/ /\ writer' = writer
               /\ drain'.at = IF sink.buffer[sink.active] = <<>> THEN drain.then
                              ELSE IF Len(sink.flight) >= MaxOps THEN "reap" ELSE "issue"
<1>1. CASE sink.cancelled
  BY <1>1, DrainFailed DEF Submit, Errors
<1>2. CASE ~sink.cancelled
  <2> DEFINE p == IF sink.buffer[sink.active] = <<>> THEN drain.then
                  ELSE IF TooManyOps THEN "reap" ELSE "issue"
  <2>1. p \in DrainPlaces
    BY DEF Kinds, DrainType, DrainPlaces
  <2>2. drain' = [drain EXCEPT !.at = p] /\ writer' = writer
    BY <1>2 DEF Submit
  <2>3. p = IF sink.buffer[sink.active] = <<>> THEN drain.then
            ELSE IF Len(sink.flight) >= MaxOps THEN "reap" ELSE "issue"
    BY DEF TooManyOps
  <2> HIDE DEF p
  <2>4. QED
    BY <2>1, <2>2, <2>3, DrainMoved DEF Kinds
<1>3. QED
  BY <1>1, <1>2

LEMMA IssueEffect ==
  ASSUME Kinds, Issue, drain.then # "none", sink.available # <<>>,
         Head(sink.available) # sink.active
  PROVE  /\ writer' \in WriterType /\ drain' \in DrainType /\ sink' \in SinkType
         /\ writer'.current = writer.current /\ writer'.closing = writer.closing
         /\ writer'.pending = writer.pending
         /\ writer'.cancelled = writer.cancelled /\ drain'.slot = drain.slot
         /\ drain'.then = drain.then /\ sink'.cancelled = sink.cancelled
         /\ \/ /\ drain'.at = drain.then /\ writer' = writer
               /\ sink'.place = [sink.place EXCEPT ![sink.active] = sink.size]
               /\ sink'.op = [sink.op EXCEPT ![sink.active] = "pending"]
               /\ sink'.buffer = [sink.buffer EXCEPT ![Head(sink.available)] = <<>>]
               /\ sink'.size = sink.size + Len(sink.buffer[sink.active])
               /\ sink'.flight = Append(sink.flight, sink.active)
               /\ sink'.active = Head(sink.available) /\ sink'.available = Tail(sink.available)
            \/ /\ drain'.at = "over" /\ sink' = sink
               /\ writer'.error = "own" \/ (sink.cancelled /\ writer'.error = "cancelled")
<1>1. CASE DrainFails(IF sink.cancelled THEN "cancelled" ELSE "own") /\ sink' = sink
  <2> DEFINE e == IF sink.cancelled THEN "cancelled" ELSE "own"
  <2>1. e \in Errors /\ (e = "own" \/ (sink.cancelled /\ e = "cancelled"))
    BY DEF Errors
  <2> HIDE DEF e
  <2>2. DrainFails(e)
    BY <1>1 DEF e
  <2>3. QED
    BY <1>1, <2>1, <2>2, DrainFailed DEF Kinds
<1>2. CASE /\ sink' = [sink EXCEPT !.place[sink.active] = sink.size,
                                !.op[sink.active] = "pending",
                                !.size = @ + Len(sink.buffer[sink.active]),
                                !.flight = Append(@, sink.active),
                                !.active = Head(sink.available),
                                !.available = Tail(@),
                                !.buffer[Head(sink.available)] = <<>>]
           /\ drain' = [drain EXCEPT !.at = drain.then] /\ writer' = writer
  <2> DEFINE pl == [sink.place EXCEPT ![sink.active] = sink.size]
             o == [sink.op EXCEPT ![sink.active] = "pending"]
             z == sink.size + Len(sink.buffer[sink.active])
             fl == Append(sink.flight, sink.active)
             h == Head(sink.available)
             t == Tail(sink.available)
             bu == [sink.buffer EXCEPT ![h] = <<>>]
  <2>1. /\ sink.active \in Slots /\ sink.buffer \in [Slots -> Seq(Nat)] /\ sink.size \in Nat
        /\ sink.buffer[sink.active] \in Seq(Nat) /\ sink.place \in [Slots -> Nat]
        /\ sink.op \in [Slots -> Outcomes] /\ sink.flight \in Seq(Slots)
        /\ sink.available \in Seq(Slots)
    BY DEF Kinds, SinkType
  <2>2. h \in Slots /\ t \in Seq(Slots) /\ fl \in Seq(Slots)
    BY <2>1, Heads, Appends
  <2>3. Len(sink.buffer[sink.active]) \in Nat
    BY <2>1
  <2>4. /\ pl \in [Slots -> Nat] /\ o \in [Slots -> Outcomes] /\ z \in Nat
        /\ bu \in [Slots -> Seq(Nat)]
    BY <2>1, <2>2, <2>3 DEF Outcomes
  <2>5. sink' = [sink EXCEPT !.place = pl, !.op = o, !.size = z, !.flight = fl, !.active = h,
                             !.available = t, !.buffer = bu]
    BY <1>2 DEF Kinds, SinkType
  <2>6. drain.then \in DrainPlaces
    BY DEF Kinds, DrainType, DrainPlaces
  <2>7. drain' \in DrainType /\ drain'.at = drain.then /\ drain'.slot = drain.slot /\ drain'.then = drain.then
    BY <1>2, <2>6, DrainMoved
  <2> HIDE DEF pl, o, z, fl, h, t, bu
  <2>8. /\ sink' \in SinkType /\ sink'.cancelled = sink.cancelled
        /\ sink'.place = pl /\ sink'.op = o /\ sink'.size = z /\ sink'.flight = fl
        /\ sink'.active = h /\ sink'.available = t /\ sink'.buffer = bu
    BY <2>2, <2>4, <2>5 DEF Kinds, SinkType
  <2>9. QED
    BY <1>2, <2>7, <2>8 DEF Kinds, pl, o, z, fl, h, t, bu
<1>3. QED
  BY <1>1, <1>2 DEF Issue

LEMMA WaitForOneEffect ==
  ASSUME Kinds, NEW then \in {"issue", "all"}, WaitForOne(then), sink.flight # <<>>
  PROVE  LET s == Head(sink.flight) IN
         /\ writer' \in WriterType /\ drain' \in DrainType /\ sink' \in SinkType
         /\ writer'.current = writer.current /\ writer'.closing = writer.closing
         /\ writer'.pending = writer.pending
         /\ writer'.cancelled = writer.cancelled /\ drain'.slot = drain.slot
         /\ drain'.then = drain.then
         /\ sink'.cancelled = sink.cancelled /\ sink'.buffer = sink.buffer
         /\ sink'.place = sink.place /\ sink'.size = sink.size /\ sink'.active = sink.active
         /\ sink'.flight = Tail(sink.flight) /\ sink'.op = [sink.op EXCEPT ![s] = "idle"]
         /\ sink.op[s] # "pending"
         /\ \/ /\ sink.op[s] = "written" /\ writer' = writer /\ drain'.at = then
               /\ sink'.available = Append(sink.available, s)
            \/ /\ sink.op[s] # "written" /\ sink'.available = sink.available /\ drain'.at = "over"
               /\ writer'.error = "own" \/ (sink.op[s] = "aborted" /\ writer'.error = "cancelled")
<1> DEFINE s == Head(sink.flight)
           o == [sink.op EXCEPT ![s] = "idle"]
           av == IF sink.op[s] = "written" THEN Append(sink.available, s) ELSE sink.available
           t == Tail(sink.flight)
           e == IF sink.op[s] = "aborted" THEN "cancelled" ELSE "own"
<1>1. /\ sink.op \in [Slots -> Outcomes] /\ sink.flight \in Seq(Slots)
      /\ sink.available \in Seq(Slots)
  BY DEF Kinds, SinkType
<1>2. s \in Slots /\ t \in Seq(Slots)
  BY <1>1, Heads
<1>3. av \in Seq(Slots) /\ o \in [Slots -> Outcomes]
  BY <1>1, <1>2, Appends DEF Outcomes
<1>4. sink' = [sink EXCEPT !.flight = t, !.op = o, !.available = av]
  BY DEF WaitForOne, Kinds, SinkType
<1>5. e \in Errors /\ (e = "own" \/ (sink.op[s] = "aborted" /\ e = "cancelled"))
  BY DEF Errors
<1>6. /\ sink.op[s] # "pending"
      /\ \/ /\ sink.op[s] = "written" /\ drain' = [drain EXCEPT !.at = then] /\ writer' = writer
            /\ av = Append(sink.available, s)
         \/ sink.op[s] # "written" /\ DrainFails(e) /\ av = sink.available
  BY DEF WaitForOne
<1> HIDE DEF s, o, av, t, e
<1>7. /\ sink' \in SinkType
      /\ sink'.cancelled = sink.cancelled /\ sink'.buffer = sink.buffer
      /\ sink'.place = sink.place /\ sink'.size = sink.size /\ sink'.active = sink.active
      /\ sink'.flight = t /\ sink'.op = o /\ sink'.available = av
  BY <1>2, <1>3, <1>4 DEF Kinds, SinkType
<1>8. /\ writer' \in WriterType /\ drain' \in DrainType
      /\ writer'.current = writer.current /\ writer'.closing = writer.closing
      /\ writer'.pending = writer.pending
      /\ writer'.cancelled = writer.cancelled /\ drain'.slot = drain.slot
      /\ drain'.then = drain.then
      /\ \/ /\ sink.op[s] = "written" /\ writer' = writer /\ drain'.at = then
            /\ av = Append(sink.available, s)
         \/ /\ sink.op[s] # "written" /\ av = sink.available /\ drain'.at = "over"
            /\ writer'.error = "own" \/ (sink.op[s] = "aborted" /\ writer'.error = "cancelled")
  <2>1. then \in DrainPlaces
    BY DEF DrainPlaces
  <2>2. CASE /\ sink.op[s] = "written" /\ drain' = [drain EXCEPT !.at = then] /\ writer' = writer
             /\ av = Append(sink.available, s)
    BY <2>1, <2>2, DrainMoved DEF Kinds
  <2>3. CASE sink.op[s] # "written" /\ DrainFails(e) /\ av = sink.available
    BY <1>5, <2>3, DrainFailed
  <2>4. QED
    BY <1>6, <2>2, <2>3
<1>9. QED
  BY <1>6, <1>7, <1>8 DEF s, o, t

(* A step of the drain loop, or of the system, in general.                 *)
LEMMA FilesStepKeepsThreads ==
  ASSUME Types, Threads,
         UNCHANGED <<source, queue, in, un, restored, outcome, cancel>>,
         writer' \in WriterType, drain' \in DrainType, sink' \in SinkType,
         Cancelled \/ /\ writer'.error \in {"none", "own", "closed"}
                      /\ ~sink'.cancelled /\ ~writer'.cancelled
                      /\ \A s \in Slots : sink'.op[s] # "aborted"
  PROVE  Types' /\ Threads'
<1>1. Types'
  BY DEF Types, source, outcome
<1>2. Causes'
  BY DEF Threads, Causes, Cancelled, source, outcome
<1>3. Threads'
  BY <1>2 DEF Threads, InputPlace, UnpackerPlace, Working, Writing, Records, Recorded, Local,
              MainPlace, source, outcome
<1>4. QED
  BY <1>1, <1>3

LEMMA DrainStepKeepsThreads ==
  ASSUME Types, Threads, DrainStep,
         drain.at \in {"submit", "reap", "issue"} => drain.then # "none",
         drain.at = "reap" => sink.flight # <<>>,
         drain.at = "issue" => sink.available # <<>> /\ Head(sink.available) # sink.active
  PROVE  Types' /\ Threads'
<1>1. Kinds
  BY DEF Types, Kinds
<1>2. Cancelled \/ /\ writer.error \in {"none", "own", "closed"}
                   /\ ~sink.cancelled /\ ~writer.cancelled
                   /\ \A s \in Slots : sink.op[s] # "aborted"
  BY DEF Threads, Causes
<1>3. CASE TakeSlot
  <2>1. UNCHANGED <<source, queue, in, un, sink, restored, outcome, cancel>>
    BY <1>3 DEF TakeSlot
  <2>2. QED
    BY <1>1, <1>2, <1>3, <2>1, TakeSlotEffect, FilesStepKeepsThreads DEF Kinds
<1>4. CASE Look
  <2>1. UNCHANGED <<source, queue, in, un, sink, restored, outcome, cancel>>
    BY <1>4 DEF Look
  <2>2. QED
    BY <1>1, <1>2, <1>4, <2>1, LookEffect, FilesStepKeepsThreads DEF Kinds
<1>5. CASE Fill
  <2>1. UNCHANGED <<source, queue, in, un, writer, restored, outcome, cancel>>
    BY <1>5 DEF Fill
  <2>2. QED
    BY <1>1, <1>2, <1>5, <2>1, FillEffect, FilesStepKeepsThreads DEF Kinds
<1>6. CASE Submit
  <2>1. UNCHANGED <<source, queue, in, un, sink, restored, outcome, cancel>> /\ drain.then # "none"
    BY <1>6 DEF Submit
  <2>2. QED
    BY <1>1, <1>2, <1>6, <2>1, SubmitEffect, FilesStepKeepsThreads DEF Kinds
<1>7. CASE Issue
  <2>1. /\ UNCHANGED <<source, queue, in, un, restored, outcome, cancel>> /\ drain.then # "none"
        /\ sink.available # <<>> /\ Head(sink.available) # sink.active
    BY <1>7 DEF Issue
  <2>2. /\ writer' \in WriterType /\ drain' \in DrainType /\ sink' \in SinkType
        /\ writer'.cancelled = writer.cancelled /\ sink'.cancelled = sink.cancelled
        /\ writer' = writer \/ writer'.error = "own" \/ (sink.cancelled /\ writer'.error = "cancelled")
        /\ sink' = sink \/ sink'.op = [sink.op EXCEPT ![sink.active] = "pending"]
    BY <1>1, <1>7, <2>1, IssueEffect
  <2>3. \A s \in Slots : sink'.op[s] \in {sink.op[s], "pending"}
    BY <1>1, <2>2 DEF Kinds, SinkType
  <2>4. QED
    BY <1>2, <2>1, <2>2, <2>3, FilesStepKeepsThreads
<1>8. CASE Reap \/ FinishSink
  <2>1. UNCHANGED <<source, queue, in, un, restored, outcome, cancel>>
    BY <1>8 DEF Reap, FinishSink
  <2>2. CASE sink.flight # <<>> /\ \E then \in {"issue", "all"} : WaitForOne(then)
    <3>1. PICK then \in {"issue", "all"} : WaitForOne(then)
      BY <2>2
    <3> DEFINE h == Head(sink.flight)
    <3>2. /\ writer' \in WriterType /\ drain' \in DrainType /\ sink' \in SinkType
          /\ writer'.cancelled = writer.cancelled /\ sink'.cancelled = sink.cancelled
          /\ \/ writer' = writer
             \/ writer'.error = "own" \/ (sink.op[h] = "aborted" /\ writer'.error = "cancelled")
          /\ sink'.op = [sink.op EXCEPT ![h] = "idle"]
      BY <1>1, <2>2, <3>1, WaitForOneEffect
    <3>3. h \in Slots
      BY <1>1, <2>2, Heads DEF Kinds, SinkType
    <3> HIDE DEF h
    <3>4. \A s \in Slots : sink'.op[s] \in {sink.op[s], "idle"}
      BY <1>1, <3>2, <3>3 DEF Kinds, SinkType
    <3>5. Cancelled \/ sink.op[h] # "aborted"
      BY <1>2, <3>3
    <3>6. QED
      BY <1>2, <2>1, <3>2, <3>4, <3>5, FilesStepKeepsThreads
  <2>3. CASE sink' = sink /\ writer' = writer /\ drain' = [drain EXCEPT !.at = "over"]
    BY <1>1, <1>2, <2>1, <2>3, DrainMoved, FilesStepKeepsThreads DEF Kinds, DrainPlaces
  <2>4. CASE sink' = sink /\ DrainFails("own")
    BY <1>1, <1>2, <2>1, <2>4, DrainFailed, FilesStepKeepsThreads DEF Kinds, Errors
  <2>5. QED
    BY <1>8, <2>2, <2>3, <2>4 DEF Reap, FinishSink
<1>9. QED
  BY <1>3, <1>4, <1>5, <1>6, <1>7, <1>8 DEF DrainStep

(* The system completes a write; a cancellation marks and aborts some.     *)
LEMMA CompleteEffect ==
  ASSUME Kinds, NEW s \in Slots, Complete(s)
  PROVE  /\ sink' \in SinkType /\ sink.op[s] = "pending"
         /\ sink'.buffer = sink.buffer /\ sink'.place = sink.place /\ sink'.size = sink.size
         /\ sink'.active = sink.active /\ sink'.available = sink.available
         /\ sink'.flight = sink.flight /\ sink'.cancelled = sink.cancelled
         /\ \/ /\ sink'.op = [sink.op EXCEPT ![s] = "written"]
               /\ disk' = disk \cup {<<un.file, sink.place[s] + i, sink.buffer[s][i]>> :
                                     i \in DOMAIN sink.buffer[s]}
            \/ sink'.op = [sink.op EXCEPT ![s] = "failed"] /\ disk' = disk
<1>1. sink.op \in [Slots -> Outcomes]
  BY DEF Kinds, SinkType
<1>2. ASSUME NEW o \in Outcomes, sink' = [sink EXCEPT !.op[s] = o]
      PROVE  /\ sink' \in SinkType /\ sink'.op = [sink.op EXCEPT ![s] = o]
             /\ sink'.buffer = sink.buffer /\ sink'.place = sink.place /\ sink'.size = sink.size
             /\ sink'.active = sink.active /\ sink'.available = sink.available
             /\ sink'.flight = sink.flight /\ sink'.cancelled = sink.cancelled
  <2> DEFINE p == [sink.op EXCEPT ![s] = o]
  <2>1. p \in [Slots -> Outcomes]
    BY <1>1
  <2>2. sink' = [sink EXCEPT !.op = p]
    BY <1>2 DEF Kinds, SinkType
  <2> HIDE DEF p
  <2>3. /\ sink' \in SinkType /\ sink'.op = p
        /\ sink'.buffer = sink.buffer /\ sink'.place = sink.place /\ sink'.size = sink.size
        /\ sink'.active = sink.active /\ sink'.available = sink.available
        /\ sink'.flight = sink.flight /\ sink'.cancelled = sink.cancelled
    BY <2>1, <2>2 DEF Kinds, SinkType
  <2>4. QED
    BY <2>3 DEF p
<1>3. "written" \in Outcomes /\ "failed" \in Outcomes
  BY DEF Outcomes
<1>4. CASE sink' = [sink EXCEPT !.op[s] = "written"] /\
           disk' = disk \cup {<<un.file, sink.place[s] + i, sink.buffer[s][i]>> :
                                i \in DOMAIN sink.buffer[s]}
  BY <1>2, <1>3, <1>4 DEF Complete
<1>5. CASE sink' = [sink EXCEPT !.op[s] = "failed"] /\ disk' = disk
  BY <1>2, <1>3, <1>5 DEF Complete
<1>6. QED
  BY <1>4, <1>5 DEF Complete

LEMMA CompleteKeepsThreads ==
  ASSUME Types, Threads, NEW s \in Slots, Complete(s)
  PROVE  Types' /\ Threads'
<1>1. Kinds
  BY DEF Types, Kinds
<1>2. Cancelled \/ /\ writer.error \in {"none", "own", "closed"}
                   /\ ~sink.cancelled /\ ~writer.cancelled
                   /\ \A r \in Slots : sink.op[r] # "aborted"
  BY DEF Threads, Causes
<1>3. UNCHANGED <<source, queue, in, un, writer, drain, restored, outcome, cancel>>
  BY DEF Complete
<1>4. /\ sink' \in SinkType /\ sink'.cancelled = sink.cancelled
      /\ \E o \in {"written", "failed"} : sink'.op = [sink.op EXCEPT ![s] = o]
  BY <1>1, CompleteEffect
<1>5. \A r \in Slots : sink'.op[r] \in {sink.op[r], "written", "failed"}
  BY <1>1, <1>4 DEF Kinds, SinkType
<1>6. QED
  BY <1>1, <1>2, <1>3, <1>4, <1>5, FilesStepKeepsThreads DEF Kinds

LEMMA CancelSlotEffect ==
  ASSUME Kinds, CancelSlot
  PROVE  /\ writer' \in WriterType /\ sink' \in SinkType
         /\ writer'.current = writer.current /\ writer'.pending = writer.pending
         /\ writer'.closing = writer.closing /\ writer'.error = writer.error
         /\ sink'.buffer = sink.buffer /\ sink'.place = sink.place /\ sink'.size = sink.size
         /\ sink'.active = sink.active /\ sink'.available = sink.available
         /\ sink'.flight = sink.flight
         /\ \A s \in Slots : \/ sink'.op[s] = sink.op[s]
                             \/ sink.op[s] = "pending" /\ sink'.op[s] = "aborted"
<1>1. \/ writer' = writer
      \/ writer' = [writer EXCEPT !.cancelled = TRUE]
  BY DEF CancelSlot
<1>2. /\ writer' \in WriterType
      /\ writer'.current = writer.current /\ writer'.pending = writer.pending
      /\ writer'.closing = writer.closing /\ writer'.error = writer.error
  BY <1>1 DEF Kinds, WriterType
<1>3. CASE sink' = sink
  BY <1>2, <1>3 DEF Kinds
<1>4. CASE \E ops \in SUBSET {s \in Slots : sink.op[s] = "pending"} : Abort(ops)
  <2>1. PICK ops \in SUBSET {s \in Slots : sink.op[s] = "pending"} : Abort(ops)
    BY <1>4
  <2> DEFINE o == [s \in Slots |-> IF s \in ops THEN "aborted" ELSE sink.op[s]]
  <2>2. sink.op \in [Slots -> Outcomes]
    BY DEF Kinds, SinkType
  <2>3. o \in [Slots -> Outcomes]
    BY <2>2 DEF Outcomes
  <2>4. sink' = [sink EXCEPT !.cancelled = TRUE, !.op = o]
    BY <2>1 DEF Abort
  <2>5. \A s \in Slots : \/ o[s] = sink.op[s]
                         \/ sink.op[s] = "pending" /\ o[s] = "aborted"
    BY <2>1
  <2> HIDE DEF o
  <2>6. /\ sink' \in SinkType /\ sink'.op = o
        /\ sink'.buffer = sink.buffer /\ sink'.place = sink.place /\ sink'.size = sink.size
        /\ sink'.active = sink.active /\ sink'.available = sink.available
        /\ sink'.flight = sink.flight
    BY <2>3, <2>4 DEF Kinds, SinkType
  <2>7. QED
    BY <1>2, <2>5, <2>6
<1>5. QED
  BY <1>3, <1>4 DEF CancelSlot

LEMMA CancelSlotKeepsThreads ==
  ASSUME Types, Threads, CancelSlot
  PROVE  Types' /\ Threads'
<1>1. Kinds
  BY DEF Types, Kinds
<1>2. /\ UNCHANGED <<scenario, got, in, un, drain, disk, restored, outcome>>
      /\ cancel' \in 1 .. EmitDone /\ Cancelled /\ Cancelled'
      /\ line' \in {line, "closed"}
      /\ queue' \in {queue, [items |-> <<>>, status |-> "abandoned"]}
  BY DEF CancelSlot, EmitDone, Cancelled
<1>3. writer' \in WriterType /\ sink' \in SinkType /\ writer'.error = writer.error
  BY <1>1, CancelSlotEffect
<1>4. queue' \in QueueType /\ Len(queue'.items) <= Capacity
  <2>1. [items |-> <<>>, status |-> "abandoned"] \in QueueType
    BY DEF QueueType
  <2>2. QED
    BY <1>2, <2>1, Parameters DEF Types
<1>5. Types'
  BY <1>1, <1>2, <1>3, <1>4 DEF Types, Kinds, outcome
<1>6. Threads'
  BY <1>2 DEF Threads, InputPlace, UnpackerPlace, Working, Writing, Records, Recorded, Local,
              MainPlace, Causes, outcome
<1>7. QED
  BY <1>5, <1>6

(***************************************************************************)
(* The unpacker keeps the types and places.                                *)
(***************************************************************************)
LEMMA UnpackerStepKeepsThreads ==
  ASSUME Types, Threads, un.at # "done",
         UNCHANGED <<source, in, main, received, report, cancel>>,
         un' \in UnType, writer' \in WriterType, drain' \in DrainType, sink' \in SinkType,
         restored' \subseteq Files,
         queue' \in QueueType, Len(queue'.items) <= Capacity, state' \in {state, un.error},
         state # "none" => state' # "none",
         UnpackerPlace', Records(un)',
         Cancelled \/ /\ queue'.status # "abandoned"
                      /\ {un'.error, writer'.error} \subseteq {"none", "own", "closed"}
                      /\ ~sink'.cancelled /\ ~writer'.cancelled
                      /\ \A s \in Slots : sink'.op[s] # "aborted"
  PROVE  Types' /\ Threads'
<1>1. un \in UnType /\ un.error \in Errors
  BY DEF Types, UnType
<1>2. Types'
  BY <1>1 DEF Types, source
<1>3. InputPlace' /\ Records(in)'
  BY DEF Threads, InputPlace, Records, Recorded, Local, source
<1>4. MainPlace'
  BY DEF Threads, MainPlace
<1>5. Causes'
  BY DEF Threads, Causes, Cancelled, source
<1>6. QED
  BY <1>2, <1>3, <1>4, <1>5 DEF Threads

(* Most of its steps leave its files alone.                                *)
LEMMA UnpackerKeepsThreads ==
  ASSUME Types, Threads, un.at # "done",
         UNCHANGED <<source, in, outcome, cancel>>, UNCHANGED <<files>>,
         un' \in UnType,
         queue' \in QueueType, Len(queue'.items) <= Capacity,
         UnpackerPlace', Records(un)',
         Cancelled \/ (queue'.status # "abandoned" /\ un'.error \in {"none", "own", "closed"})
  PROVE  Types' /\ Threads'
<1>1. /\ writer' \in WriterType /\ drain' \in DrainType /\ sink' \in SinkType
      /\ restored' \subseteq Files
  BY DEF Types, files
<1>2. Cancelled \/ /\ queue'.status # "abandoned"
                   /\ {un'.error, writer'.error} \subseteq {"none", "own", "closed"}
                   /\ ~sink'.cancelled /\ ~writer'.cancelled
                   /\ \A s \in Slots : sink'.op[s] # "aborted"
  BY DEF Threads, Causes, files
<1>3. QED
  BY <1>1, <1>2, UnpackerStepKeepsThreads DEF outcome

(* An unpacker that threw is where it should be.                           *)
LEMMA ThrownPlace ==
  ASSUME Types, Threads, NEW e \in Errors \ {"none"}, UnpackerThrows(e)
  PROVE  /\ un' \in UnType /\ un'.error = e /\ un'.at = "handling" /\ un'.file = un.file
         /\ UnpackerPlace' /\ Records(un)'
<1>1. un \in UnType
  BY DEF Types
<1>2. /\ un' \in UnType /\ un'.at = "handling" /\ un'.error = e /\ un'.file = un.file
      /\ un'.todo # <<>> /\ un'.todo # <<"close">>
  BY <1>1, UnpackerThrown
<1>3. QED
  BY <1>2 DEF UnpackerPlace, Working, Writing, Records

LEMMA UnpackerChecksKeepsThreads ==
  ASSUME Types, Threads, UnpackerChecks
  PROVE  Types' /\ Threads'
<1>1. /\ un \in UnType /\ un.at = "check" /\ UNCHANGED <<source, queue, in, files, outcome, cancel>>
      /\ queue \in QueueType /\ Len(queue.items) <= Capacity
  BY DEF Types, UnpackerChecks
<1>2. CASE Cancelled
  <2>1. UnpackerThrows("cancelled") /\ "cancelled" \in Errors \ {"none"}
    BY <1>2 DEF UnpackerChecks, Errors
  <2>2. un' \in UnType /\ UnpackerPlace' /\ Records(un)'
    BY <2>1, ThrownPlace
  <2>3. QED
    BY <1>1, <1>2, <2>2, UnpackerKeepsThreads
<1>3. CASE ~Cancelled
  <2> DEFINE p == IF Collected THEN "create" ELSE "pop"
  <2>1. p \in UnPlaces /\ un' = [un EXCEPT !.at = p]
    BY <1>3 DEF UnpackerChecks, UnPlaces
  <2>2. p = "pop" \/ (p = "create" /\ un.file # 0 /\ un.chunk = Sizes[un.file])
    BY DEF Collected
  <2> HIDE DEF p
  <2>3. /\ un' \in UnType /\ un'.at = p /\ un'.error = un.error /\ un'.file = un.file
        /\ un'.chunk = un.chunk
    BY <1>1, <2>1, UnpackerMoved
  <2>4. /\ un.error = "none" /\ main \in {"input", "unpacker"} /\ un.file \notin Directories
        /\ un.file \in Files \cup {0}
    BY <1>1 DEF Threads, UnpackerPlace, Working, UnType
  <2>5. UnpackerPlace' /\ Records(un)'
    BY <1>1, <2>2, <2>3, <2>4 DEF UnpackerPlace, Working, Writing, Regular, Records, outcome
  <2>6. un'.error = "none"
    BY <2>3, <2>4
  <2>7. Cancelled \/ queue'.status # "abandoned"
    BY <1>1 DEF Threads, Causes
  <2>8. QED
    BY <1>1, <2>3, <2>5, <2>6, <2>7, UnpackerKeepsThreads
<1>4. QED
  BY <1>2, <1>3

LEMMA PopTarKeepsThreads ==
  ASSUME Types, Threads, PopTar
  PROVE  Types' /\ Threads'
<1>1. /\ un \in UnType /\ un.at = "pop" /\ UNCHANGED <<source, in, files, outcome, cancel>>
      /\ queue \in QueueType /\ Len(queue.items) <= Capacity
  BY DEF Types, PopTar
<1>2. /\ un.error = "none" /\ main \in {"input", "unpacker"} /\ un.file \notin Directories
  BY <1>1 DEF Threads, UnpackerPlace, Working
<1>3. CASE queue.items # <<>>
  <2> DEFINE k == Head(queue.items)
             x == Stream[k]
  <2>1. /\ queue.items \in Seq(1 .. Len(Stream))
    BY <1>1 DEF QueueType
  <2>2. /\ k \in 1 .. Len(Stream) /\ Tail(queue.items) \in Seq(1 .. Len(Stream))
        /\ Len(Tail(queue.items)) <= Capacity
    <3>1. /\ k \in 1 .. Len(Stream) /\ Tail(queue.items) \in Seq(1 .. Len(Stream))
          /\ Len(Tail(queue.items)) = Len(queue.items) - 1 /\ Len(queue.items) \in Nat
      BY <1>3, <2>1, Heads
    <3>2. QED
      BY <1>1, <3>1, Parameters
  <2>3. queue' = [queue EXCEPT !.items = Tail(@)]
    BY <1>3 DEF PopTar
  <2>4. /\ queue' \in QueueType /\ Len(queue'.items) <= Capacity /\ queue'.status = queue.status
    BY <1>1, <2>2, <2>3 DEF QueueType
  <2>5. un' = IF x = Mark THEN [un EXCEPT !.at = "done"]
              ELSE [un EXCEPT !.at = IF x[1] \in Directories THEN "restore" ELSE "check",
                              !.file = x[1], !.chunk = x[2]]
    BY <1>3 DEF PopTar
  <2>6. x[1] \in Files \cup {0} /\ x[2] \in Nat
    BY <2>2, StreamTyped
  <2> HIDE DEF x, k
  <2>7. un' \in UnType /\ un'.error = "none"
    BY <1>1, <1>2, <2>5, <2>6 DEF UnType, UnPlaces
  <2>8. un'.at = "done" \/ /\ un'.at = IF x[1] \in Directories THEN "restore" ELSE "check"
                           /\ un'.file = x[1]
    BY <1>1, <2>5 DEF UnType
  <2>9. UnpackerPlace'
    BY <1>1, <1>2, <2>6, <2>7, <2>8, Parameters DEF UnpackerPlace, Working, Writing, outcome
  <2>10. Cancelled \/ (queue'.status # "abandoned" /\ un'.error \in {"none", "own", "closed"})
    BY <2>4, <2>7 DEF Threads, Causes
  <2>11. QED
    BY <1>1, <2>4, <2>7, <2>9, <2>10, UnpackerKeepsThreads DEF Records
<1>4. CASE queue.items = <<>> /\ queue.status = "closed" /\ un.file = 0 /\ UNCHANGED queue
  <2>1. un' = [un EXCEPT !.at = "done"]
    BY <1>4 DEF PopTar
  <2>2. un' \in UnType /\ un'.error = "none" /\ un'.at = "done"
    BY <1>1, <1>2, <2>1, UnpackerMoved DEF UnPlaces
  <2>3. UnpackerPlace' /\ Records(un)'
    BY <2>2 DEF UnpackerPlace, Working, Writing, Records
  <2>4. QED
    BY <1>1, <1>4, <2>2, <2>3, UnpackerKeepsThreads
<1>5. CASE queue.items = <<>> /\ UNCHANGED queue /\
           \E e \in {"own", "cancelled"} : UnpackerThrows(e) /\ (e = "own" \/ queue.status = "abandoned")
  <2>1. PICK e \in {"own", "cancelled"} : UnpackerThrows(e) /\ (e = "own" \/ queue.status = "abandoned")
    BY <1>5
  <2>2. e \in Errors \ {"none"}
    BY DEF Errors
  <2>3. un' \in UnType /\ UnpackerPlace' /\ Records(un)' /\ un'.error = e
    BY <2>1, <2>2, ThrownPlace
  <2>4. Cancelled \/ (queue'.status # "abandoned" /\ un'.error \in {"none", "own", "closed"})
    BY <1>5, <2>1, <2>3 DEF Threads, Causes
  <2>5. QED
    BY <1>1, <1>5, <2>3, <2>4, UnpackerKeepsThreads
<1>6. QED
  BY <1>3, <1>4, <1>5 DEF PopTar

LEMMA UnpackerHandlesKeepsThreads ==
  ASSUME Types, Threads, UnpackerHandles
  PROVE  Types' /\ Threads'
<1>1. /\ un \in UnType /\ un.at = "handling" /\ queue \in QueueType
      /\ un.todo # <<>> /\ un.error # "none" /\ un.error \in Errors
  BY DEF Types, UnpackerHandles, Handle, Threads, UnpackerPlace, UnType
<1>2. UNCHANGED <<source, in, main, received, report, cancel>> /\ UNCHANGED files
  BY DEF UnpackerHandles
<1>3. /\ un' \in UnType /\ un'.error = un.error
      /\ un'.at \in {"handling", "done"} /\ (un'.at = "handling" => un'.todo # <<>>)
      /\ un'.at = "done" => un'.todo = <<>>
      /\ (Head(un.todo) # "fail" /\ un'.at = "done") => un.todo = <<"close">>
      /\ un'.todo = <<"close">> => Head(un.todo) = "fail"
  BY <1>1, UnpackerHandled DEF UnpackerHandles
<1>4. /\ queue' \in QueueType /\ queue'.items = queue.items
      /\ queue'.status \in {queue.status, "closed"}
      /\ state' \in {state, un.error} /\ (state # "none" => state' # "none")
      /\ Head(un.todo) = "fail" => state' # "none" \/ (Local /\ un.error = "cancelled")
  BY <1>1, ErrorHandled DEF UnpackerHandles
<1>5. Records(un)'
  BY <1>1, <1>2, <1>3, <1>4 DEF Threads, Records, Recorded, Local, source
<1>6. UnpackerPlace'
  BY <1>1, <1>3 DEF UnpackerPlace, Working, Writing
<1>7. Cancelled \/ /\ queue'.status # "abandoned"
                   /\ {un'.error, writer'.error} \subseteq {"none", "own", "closed"}
                   /\ ~sink'.cancelled /\ ~writer'.cancelled
                   /\ \A s \in Slots : sink'.op[s] # "aborted"
  BY <1>2, <1>3, <1>4 DEF Threads, Causes, files
<1>8. /\ writer' \in WriterType /\ drain' \in DrainType /\ sink' \in SinkType
      /\ restored' \subseteq Files /\ Len(queue'.items) <= Capacity
  BY <1>2, <1>4 DEF Types, files
<1>9. QED
  BY <1>1, <1>2, <1>3, <1>4, <1>5, <1>6, <1>7, <1>8, UnpackerStepKeepsThreads

LEMMA CreateEffect ==
  ASSUME Types, Create
  PROVE  \/ /\ writer' \in WriterType /\ sink' \in SinkType /\ drain' \in DrainType
            /\ writer'.current = <<>> /\ writer'.pending = <<>> /\ ~writer'.closing
            /\ writer'.cancelled = Cancelled /\ writer'.error = "none"
            /\ drain'.at = "none" /\ drain'.slot = <<>>
            /\ sink'.buffer = [s \in Slots |-> <<>>] /\ sink'.op = [s \in Slots |-> "idle"]
            /\ sink'.active = 0 /\ sink'.available = [i \in 1 .. MaxOps |-> i]
            /\ sink'.flight = <<>> /\ sink'.size = 0 /\ sink'.cancelled = Cancelled
            /\ disk' = {d \in disk : d[1] # un.file} /\ restored' = restored \ {un.file}
            /\ un' \in UnType /\ un'.at = "write" /\ un'.chunk = 0 /\ un'.file = un.file
            /\ un'.error = un.error
         \/ UnpackerThrows("own") /\ UNCHANGED files
<1>1. un \in UnType /\ Cancelled \in BOOLEAN
  BY DEF Types, Cancelled
<1>2. CASE /\ writer' = NewWriter /\ sink' = NewSink /\ drain' = NoDrain
           /\ disk' = {d \in disk : d[1] # un.file}
           /\ restored' = restored \ {un.file}
           /\ un' = [un EXCEPT !.at = "write", !.chunk = 0]
  <2>1. /\ writer'.current = <<>> /\ writer'.pending = <<>> /\ ~writer'.closing
        /\ writer'.cancelled = Cancelled /\ writer'.error = "none"
        /\ drain'.at = "none" /\ drain'.slot = <<>>
    BY <1>2 DEF NewWriter, NoDrain
  <2>2. writer' \in WriterType /\ drain' \in DrainType
    <3>1. <<>> \in Seq(Nat) /\ <<>> \in Seq(Seq(Nat)) /\ FALSE \in BOOLEAN
      OBVIOUS
    <3>2. drain' \in DrainType
      BY <1>2, <3>1 DEF NoDrain, DrainType, DrainPlaces
    <3>3. writer' \in WriterType
      BY <1>1, <1>2, <3>1 DEF NewWriter, WriterType, Errors
    <3>4. QED
      BY <3>2, <3>3
  <2> DEFINE b == [s \in Slots |-> <<>>]
             z == [s \in Slots |-> 0]
             o == [s \in Slots |-> "idle"]
             av == [i \in 1 .. MaxOps |-> i]
  <2>3. /\ b \in [Slots -> Seq(Nat)] /\ z \in [Slots -> Nat] /\ o \in [Slots -> Outcomes]
        /\ 0 \in Slots /\ av \in Seq(Slots) /\ <<>> \in Seq(Slots) /\ 0 \in Nat
    BY Parameters DEF Outcomes
  <2>4. sink' = [buffer |-> b, place |-> z, op |-> o, active |-> 0, available |-> av,
                 flight |-> <<>>, size |-> 0, cancelled |-> Cancelled]
    BY <1>2 DEF NewSink
  <2> HIDE DEF b, z, o, av
  <2>5. /\ sink' \in SinkType /\ sink'.buffer = b /\ sink'.op = o /\ sink'.available = av
        /\ sink'.active = 0 /\ sink'.flight = <<>> /\ sink'.size = 0
        /\ sink'.cancelled = Cancelled
    BY <1>1, <2>3, <2>4 DEF SinkType
  <2>6. /\ un' \in UnType /\ un'.at = "write" /\ un'.chunk = 0 /\ un'.file = un.file
        /\ un'.error = un.error
    BY <1>1, <1>2 DEF UnType, UnPlaces
  <2>7. QED
    BY <1>2, <2>1, <2>2, <2>5, <2>6 DEF b, o, av
<1>3. QED
  BY <1>2 DEF Create

LEMMA CreateKeepsThreads ==
  ASSUME Types, Threads, Create
  PROVE  Types' /\ Threads'
<1>1. /\ un \in UnType /\ un.at = "create" /\ UNCHANGED <<source, queue, in, outcome, cancel>>
      /\ queue \in QueueType /\ Len(queue.items) <= Capacity /\ restored \subseteq Files
  BY DEF Types, Create
<1>2. /\ un.error = "none" /\ main \in {"input", "unpacker"} /\ un.file \in Regular
      /\ Sizes[un.file] \in Nat
  BY <1>1, Parameters DEF Threads, UnpackerPlace, Working, Regular
<1>3. CASE UnpackerThrows("own") /\ UNCHANGED files
  <2>1. "own" \in Errors \ {"none"}
    BY DEF Errors
  <2>2. un' \in UnType /\ UnpackerPlace' /\ Records(un)' /\ un'.error = "own"
    BY <1>3, <2>1, ThrownPlace
  <2>3. Cancelled \/ (queue'.status # "abandoned" /\ un'.error \in {"none", "own", "closed"})
    BY <1>1, <2>2 DEF Threads, Causes
  <2>4. QED
    BY <1>1, <1>3, <2>2, <2>3, UnpackerKeepsThreads
<1>4. CASE /\ writer' \in WriterType /\ sink' \in SinkType /\ drain' \in DrainType
           /\ writer'.cancelled = Cancelled /\ writer'.error = "none"
           /\ sink'.op = [s \in Slots |-> "idle"] /\ sink'.cancelled = Cancelled
           /\ restored' = restored \ {un.file}
           /\ un' \in UnType /\ un'.at = "write" /\ un'.chunk = 0 /\ un'.file = un.file
           /\ un'.error = un.error
  <2>1. UnpackerPlace' /\ Records(un)'
    BY <1>1, <1>2, <1>4 DEF UnpackerPlace, Working, Writing, Regular, Records, outcome
  <2>2. Cancelled \/ queue.status # "abandoned"
    BY DEF Threads, Causes
  <2>3. QED
    BY <1>1, <1>2, <1>4, <2>1, <2>2, UnpackerStepKeepsThreads DEF outcome
<1>5. QED
  BY <1>3, <1>4, CreateEffect

LEMMA WriteChunkEffect ==
  ASSUME Types, WriteChunk
  PROVE  \/ /\ un.chunk = Sizes[un.file] /\ writer' = writer
            /\ un' \in UnType /\ un'.at = "close" /\ un'.file = un.file /\ un'.chunk = un.chunk
            /\ un'.error = un.error
         \/ /\ writer' = writer
            /\ \/ Cancelled /\ UnpackerThrows("cancelled")
               \/ writer.error # "none" /\ UnpackerThrows(writer.error)
         \/ /\ un.chunk < Sizes[un.file] /\ writer' \in WriterType
            /\ writer'.current = Append(writer.current, un.chunk + 1)
            /\ writer'.pending = writer.pending /\ writer'.closing = writer.closing
            /\ writer'.cancelled = writer.cancelled /\ writer'.error = writer.error
            /\ un' \in UnType /\ un'.file = un.file /\ un'.chunk = un.chunk + 1
            /\ un'.then = "write" /\ un'.error = un.error
            /\ un'.at = IF Len(writer.current) + 1 = scenario.slot THEN "enqueue" ELSE "write"
<1>1. un \in UnType /\ writer \in WriterType
  BY DEF Types
<1>2. CASE un.chunk = Sizes[un.file] /\ un' = [un EXCEPT !.at = "close"] /\ writer' = writer
  BY <1>1, <1>2, UnpackerMoved DEF UnPlaces
<1>3. CASE /\ Cancelled \/ writer.error # "none"
           /\ UnpackerThrows(IF Cancelled THEN "cancelled" ELSE writer.error) /\ writer' = writer
  BY <1>3
<1>4. CASE /\ un.chunk < Sizes[un.file]
           /\ writer' = [writer EXCEPT !.current = Append(@, un.chunk + 1)]
           /\ un' = [un EXCEPT !.chunk = @ + 1, !.then = "write",
                       !.at = IF Len(writer.current) + 1 = scenario.slot THEN "enqueue" ELSE "write"]
  <2>1. un.chunk + 1 \in Nat /\ writer.current \in Seq(Nat)
    BY <1>1 DEF UnType, WriterType
  <2>2. Append(writer.current, un.chunk + 1) \in Seq(Nat)
    BY <2>1
  <2>3. /\ writer' \in WriterType
        /\ writer'.current = Append(writer.current, un.chunk + 1)
        /\ writer'.pending = writer.pending /\ writer'.closing = writer.closing
        /\ writer'.cancelled = writer.cancelled /\ writer'.error = writer.error
    BY <1>1, <1>4, <2>2 DEF WriterType
  <2>4. /\ un' \in UnType /\ un'.file = un.file /\ un'.chunk = un.chunk + 1
        /\ un'.then = "write" /\ un'.error = un.error
        /\ un'.at = IF Len(writer.current) + 1 = scenario.slot THEN "enqueue" ELSE "write"
    BY <1>1, <1>4, <2>1 DEF UnType, UnPlaces
  <2>5. QED
    BY <1>4, <2>3, <2>4
<1>5. QED
  BY <1>2, <1>3, <1>4 DEF WriteChunk

LEMMA WriteChunkKeepsThreads ==
  ASSUME Types, Threads, WriteChunk
  PROVE  Types' /\ Threads'
<1>1. /\ un \in UnType /\ un.at = "write" /\ writer \in WriterType
      /\ UNCHANGED <<source, queue, in, drain, sink, disk, restored, outcome, cancel>>
      /\ queue \in QueueType /\ Len(queue.items) <= Capacity /\ restored \subseteq Files
      /\ drain \in DrainType /\ sink \in SinkType
  BY DEF Types, WriteChunk
<1>2. /\ un.error = "none" /\ main \in {"input", "unpacker"} /\ un.file \in Regular
      /\ Sizes[un.file] \in Nat /\ un.chunk \in Nat /\ un.chunk <= Sizes[un.file]
  BY <1>1, Parameters DEF Threads, UnpackerPlace, Working, Writing, Regular, UnType
<1>3. Cancelled \/ /\ queue.status # "abandoned"
                   /\ writer.error \in {"none", "own", "closed"}
                   /\ ~sink.cancelled /\ ~writer.cancelled
                   /\ \A s \in Slots : sink.op[s] # "aborted"
  BY DEF Threads, Causes
<1>4. CASE /\ writer' = writer
           /\ \/ Cancelled /\ UnpackerThrows("cancelled")
              \/ writer.error # "none" /\ UnpackerThrows(writer.error)
  <2>1. PICK e \in Errors \ {"none"} : UnpackerThrows(e) /\ (Cancelled \/ e = writer.error)
    BY <1>1, <1>4 DEF Errors, WriterType
  <2>2. un' \in UnType /\ UnpackerPlace' /\ Records(un)' /\ un'.error = e
    BY <2>1, ThrownPlace
  <2>3. Cancelled \/ (queue'.status # "abandoned" /\ un'.error \in {"none", "own", "closed"})
    BY <1>1, <1>3, <2>1, <2>2
  <2>4. QED
    BY <1>1, <1>4, <2>2, <2>3, UnpackerKeepsThreads DEF files
<1>5. CASE /\ un.chunk = Sizes[un.file] /\ writer' = writer
           /\ un' \in UnType /\ un'.at = "close" /\ un'.file = un.file /\ un'.chunk = un.chunk
           /\ un'.error = un.error
  <2>1. UnpackerPlace' /\ Records(un)'
    BY <1>1, <1>2, <1>5 DEF UnpackerPlace, Working, Writing, Regular, Records, outcome
  <2>2. QED
    BY <1>1, <1>2, <1>3, <1>5, <2>1, UnpackerKeepsThreads DEF files
<1>6. CASE /\ un.chunk < Sizes[un.file] /\ writer' \in WriterType
           /\ writer'.cancelled = writer.cancelled /\ writer'.error = writer.error
           /\ un' \in UnType /\ un'.file = un.file /\ un'.chunk = un.chunk + 1
           /\ un'.then = "write" /\ un'.error = un.error
           /\ un'.at \in {"enqueue", "write"}
  <2>1. UnpackerPlace' /\ Records(un)'
    BY <1>1, <1>2, <1>6 DEF UnpackerPlace, Working, Writing, Regular, Records, outcome
  <2>2. QED
    BY <1>1, <1>2, <1>3, <1>6, <2>1, UnpackerStepKeepsThreads DEF outcome
<1>7. QED
  BY <1>4, <1>5, <1>6, WriteChunkEffect

LEMMA ClosingSet ==
  ASSUME Types, NEW closing \in BOOLEAN, writer' = [writer EXCEPT !.closing = closing]
  PROVE  /\ writer' \in WriterType /\ writer'.closing = closing
         /\ writer'.current = writer.current /\ writer'.pending = writer.pending
         /\ writer'.cancelled = writer.cancelled /\ writer'.error = writer.error
BY DEF Types, WriterType

LEMMA SendSlotEffect ==
  ASSUME Types, NEW closing \in BOOLEAN, NEW then \in {"write", "await"}, SendSlot(closing, then)
  PROVE  \/ /\ writer' \in WriterType /\ writer'.closing = closing /\ drain' = drain
            /\ writer'.current = writer.current /\ writer'.pending = writer.pending
            /\ writer'.cancelled = writer.cancelled /\ writer'.error = writer.error
            /\ \/ writer.cancelled /\ UnpackerThrows("cancelled")
               \/ writer.error # "none" /\ UnpackerThrows(writer.error)
         \/ /\ writer.error = "none" /\ ~writer.cancelled /\ Len(writer.pending) < scenario.slots
            /\ writer' \in WriterType /\ writer'.closing = closing
            /\ writer'.current = <<>> /\ writer'.pending = Append(writer.pending, writer.current)
            /\ writer'.cancelled = writer.cancelled /\ writer'.error = writer.error
            /\ drain' \in DrainType /\ drain'.slot = drain.slot /\ drain'.then = drain.then
            /\ drain'.at = IF drain.at = "none" THEN "wait" ELSE drain.at
            /\ un' \in UnType /\ un'.at = then /\ un'.file = un.file /\ un'.chunk = un.chunk
            /\ un'.error = un.error
<1>1. un \in UnType /\ writer \in WriterType /\ drain \in DrainType
  BY DEF Types
<1>2. CASE /\ writer.error # "none" \/ writer.cancelled
           /\ UnpackerThrows(IF writer.error # "none" THEN writer.error ELSE "cancelled")
           /\ writer' = [writer EXCEPT !.closing = closing] /\ drain' = drain
  BY <1>2, ClosingSet
<1>3. CASE /\ writer.error = "none" /\ ~writer.cancelled /\ MaySend
           /\ writer' = [writer EXCEPT !.pending = Append(@, writer.current), !.current = <<>>,
                                       !.closing = closing]
           /\ StartWorker /\ un' = [un EXCEPT !.at = then]
  <2>1. writer.pending \in Seq(Seq(Nat)) /\ writer.current \in Seq(Nat) /\ <<>> \in Seq(Nat)
    BY <1>1 DEF WriterType
  <2>2. Append(writer.pending, writer.current) \in Seq(Seq(Nat))
    BY <2>1
  <2>3. /\ writer' \in WriterType /\ writer'.closing = closing
        /\ writer'.current = <<>> /\ writer'.pending = Append(writer.pending, writer.current)
        /\ writer'.cancelled = writer.cancelled /\ writer'.error = writer.error
    BY <1>1, <1>3, <2>1, <2>2 DEF WriterType
  <2>4. /\ drain' \in DrainType /\ drain'.slot = drain.slot /\ drain'.then = drain.then
        /\ drain'.at = IF drain.at = "none" THEN "wait" ELSE drain.at
    BY <1>1, <1>3 DEF StartWorker, DrainType, DrainPlaces
  <2>5. /\ un' \in UnType /\ un'.at = then /\ un'.file = un.file /\ un'.chunk = un.chunk
        /\ un'.error = un.error
    BY <1>1, <1>3, UnpackerMoved DEF UnPlaces
  <2>6. QED
    BY <1>3, <2>3, <2>4, <2>5 DEF MaySend
<1>4. QED
  BY <1>2, <1>3 DEF SendSlot

(* A step in the writer's wait or close, in general.                       *)
LEMMA SendingKeepsThreads ==
  ASSUME Types, Threads, un.at \in {"enqueue", "close"},
         UNCHANGED <<source, queue, in, sink, disk, restored, outcome, cancel>>,
         writer' \in WriterType, drain' \in DrainType,
         writer'.cancelled = writer.cancelled, writer'.error = writer.error,
         \/ writer.cancelled /\ UnpackerThrows("cancelled")
         \/ writer.error # "none" /\ UnpackerThrows(writer.error)
         \/ /\ un' \in UnType /\ un'.file = un.file /\ un'.chunk = un.chunk /\ un'.error = un.error
            /\ \/ un'.at = "write"
               \/ un'.at = "await" /\ un.chunk = Sizes[un.file]
               \/ un'.at = "enqueue" /\ un'.then = "await" /\ un.chunk = Sizes[un.file]
  PROVE  Types' /\ Threads'
<1>1. /\ un \in UnType /\ writer \in WriterType
      /\ queue \in QueueType /\ Len(queue.items) <= Capacity /\ restored \subseteq Files
      /\ sink \in SinkType
  BY DEF Types
<1>2. /\ un.error = "none" /\ main \in {"input", "unpacker"} /\ un.file \in Regular
      /\ Sizes[un.file] \in Nat /\ un.chunk \in Nat /\ un.chunk <= Sizes[un.file]
  BY <1>1, Parameters DEF Threads, UnpackerPlace, Working, Writing, Regular, UnType
<1>3. Cancelled \/ /\ queue.status # "abandoned"
                   /\ writer.error \in {"none", "own", "closed"}
                   /\ ~sink.cancelled /\ ~writer.cancelled
                   /\ \A s \in Slots : sink.op[s] # "aborted"
  BY DEF Threads, Causes
<1>4. CASE \/ writer.cancelled /\ UnpackerThrows("cancelled")
           \/ writer.error # "none" /\ UnpackerThrows(writer.error)
  <2>1. PICK e \in Errors \ {"none"} : UnpackerThrows(e) /\ (writer.cancelled \/ e = writer.error)
    BY <1>1, <1>4 DEF Errors, WriterType
  <2>2. un' \in UnType /\ UnpackerPlace' /\ Records(un)' /\ un'.error = e
    BY <2>1, ThrownPlace
  <2>3. Cancelled \/ (queue'.status # "abandoned" /\ un'.error \in {"none", "own", "closed"})
    BY <1>1, <1>3, <2>1, <2>2
  <2>4. QED
    BY <1>1, <1>3, <1>4, <2>2, <2>3, UnpackerStepKeepsThreads DEF outcome
<1>5. CASE /\ un' \in UnType /\ un'.file = un.file /\ un'.chunk = un.chunk /\ un'.error = un.error
           /\ \/ un'.at = "write"
              \/ un'.at = "await" /\ un.chunk = Sizes[un.file]
              \/ un'.at = "enqueue" /\ un'.then = "await" /\ un.chunk = Sizes[un.file]
  <2>1. UnpackerPlace' /\ Records(un)'
    BY <1>1, <1>2, <1>5 DEF UnpackerPlace, Working, Writing, Regular, Records, outcome
  <2>2. QED
    BY <1>1, <1>2, <1>3, <1>5, <2>1, UnpackerStepKeepsThreads DEF outcome
<1>6. QED
  BY <1>4, <1>5

LEMMA EnqueueKeepsThreads ==
  ASSUME Types, Threads, Enqueue
  PROVE  Types' /\ Threads'
<1>1. /\ un \in UnType /\ un.at = "enqueue" /\ writer \in WriterType /\ drain \in DrainType
      /\ UNCHANGED <<source, queue, in, sink, disk, restored, outcome, cancel>>
      /\ SendSlot(writer.closing, un.then)
  BY DEF Types, Enqueue
<1>2. /\ un.then \in {"write", "await"} /\ (un.then = "await" => un.chunk = Sizes[un.file])
      /\ writer.closing \in BOOLEAN
  BY <1>1 DEF Threads, UnpackerPlace, UnType, WriterType
<1>3. QED
  BY <1>1, <1>2, SendSlotEffect, SendingKeepsThreads

LEMMA CloseWriterEffect ==
  ASSUME Types, CloseWriter
  PROVE  \/ /\ writer.error = "none" /\ writer.current = <<>> /\ drain' = drain
            /\ writer' = [writer EXCEPT !.closing = TRUE] /\ un' = [un EXCEPT !.at = "await"]
         \/ (writer.error # "none" \/ writer.current # <<>>) /\ SendSlot(TRUE, "await")
         \/ /\ writer.error = "none" /\ ~writer.cancelled /\ writer.current # <<>> /\ drain' = drain
            /\ ~ (Len(writer.pending) < scenario.slots)
            /\ writer' = [writer EXCEPT !.closing = TRUE]
            /\ un' \in UnType /\ un'.at = "enqueue" /\ un'.then = "await" /\ un'.file = un.file
            /\ un'.chunk = un.chunk /\ un'.error = un.error
<1>1. un \in UnType
  BY DEF Types
<1>2. ASSUME un' = [un EXCEPT !.at = "enqueue", !.then = "await"]
      PROVE  /\ un' \in UnType /\ un'.at = "enqueue" /\ un'.then = "await" /\ un'.file = un.file
             /\ un'.chunk = un.chunk /\ un'.error = un.error
  BY <1>1, <1>2 DEF UnType, UnPlaces
<1>3. QED
  BY <1>2 DEF CloseWriter, MaySend

LEMMA CloseWriterKeepsThreads ==
  ASSUME Types, Threads, CloseWriter
  PROVE  Types' /\ Threads'
<1>1. /\ un \in UnType /\ un.at = "close" /\ writer \in WriterType /\ drain \in DrainType
      /\ UNCHANGED <<source, queue, in, sink, disk, restored, outcome, cancel>>
  BY DEF Types, CloseWriter
<1>2. un.chunk = Sizes[un.file] /\ TRUE \in BOOLEAN
  BY <1>1 DEF Threads, UnpackerPlace
<1>3. CASE (writer.error # "none" \/ writer.current # <<>>) /\ SendSlot(TRUE, "await")
  BY <1>1, <1>2, <1>3, SendSlotEffect, SendingKeepsThreads
<1>4. CASE /\ writer' = [writer EXCEPT !.closing = TRUE] /\ drain' = drain
           /\ un' = [un EXCEPT !.at = "await"]
  <2>1. /\ un' \in UnType /\ un'.at = "await" /\ un'.file = un.file /\ un'.chunk = un.chunk
        /\ un'.error = un.error
    BY <1>1, <1>4, UnpackerMoved DEF UnPlaces
  <2>2. QED
    BY <1>1, <1>2, <1>4, <2>1, ClosingSet, SendingKeepsThreads
<1>5. CASE /\ writer' = [writer EXCEPT !.closing = TRUE] /\ drain' = drain
           /\ un' \in UnType /\ un'.at = "enqueue" /\ un'.then = "await" /\ un'.file = un.file
           /\ un'.chunk = un.chunk /\ un'.error = un.error
  BY <1>1, <1>2, <1>5, ClosingSet, SendingKeepsThreads
<1>6. QED
  BY <1>3, <1>4, <1>5, CloseWriterEffect

LEMMA AwaitDrainEffect ==
  ASSUME Types, Threads, AwaitDrain
  PROVE  \/ /\ \E e \in Errors \ {"none"} : /\ UnpackerThrows(e)
                                            /\ \/ sink.cancelled /\ e = "cancelled"
                                               \/ e = writer.error
                                               \/ "disk" \in scenario.fail /\ e = "own"
         \/ /\ un' \in UnType /\ un'.at = "restore" /\ un'.file = un.file /\ un'.chunk = un.chunk
            /\ un'.error = un.error
            /\ drain.at = "none" \/ (drain.at = "over" /\ writer.error = "none")
<1>1. un \in UnType /\ writer \in WriterType
  BY DEF Types
<1>2. ASSUME un' = [un EXCEPT !.at = "restore"]
      PROVE  /\ un' \in UnType /\ un'.at = "restore" /\ un'.file = un.file /\ un'.chunk = un.chunk
             /\ un'.error = un.error
  BY <1>1, <1>2, UnpackerMoved DEF UnPlaces
<1>3. CASE drain.at = "none" /\ sink.cancelled /\ UnpackerThrows("cancelled")
  BY <1>3 DEF Errors
<1>4. CASE drain.at = "none" /\ un' = [un EXCEPT !.at = "restore"]
  BY <1>2, <1>4
<1>5. CASE drain.at = "over" /\ writer.error # "none" /\ UnpackerThrows(writer.error)
  <2>1. writer.error \in Errors \ {"none"}
    BY <1>1, <1>5 DEF WriterType
  <2>2. QED
    BY <1>5, <2>1
<1>6. CASE drain.at = "over" /\ writer.error = "none" /\ un' = [un EXCEPT !.at = "restore"]
  BY <1>2, <1>6
<1>7. CASE drain.at = "none" /\ "disk" \in scenario.fail /\ UnpackerThrows("own")
  BY <1>7 DEF Errors
<1>8. QED
  BY <1>3, <1>4, <1>5, <1>6, <1>7 DEF AwaitDrain, Awaited

LEMMA AwaitDrainKeepsThreads ==
  ASSUME Types, Threads, AwaitDrain
  PROVE  Types' /\ Threads'
<1>1. /\ un \in UnType /\ un.at = "await" /\ writer \in WriterType
      /\ UNCHANGED <<source, queue, in, files, outcome, cancel>>
      /\ queue \in QueueType /\ Len(queue.items) <= Capacity
  BY DEF Types, AwaitDrain
<1>2. /\ un.error = "none" /\ main \in {"input", "unpacker"} /\ un.file \in Regular
  BY <1>1 DEF Threads, UnpackerPlace, Working, Writing
<1>3. Cancelled \/ /\ queue.status # "abandoned"
                   /\ writer.error \in {"none", "own", "closed"}
                   /\ ~sink.cancelled /\ ~writer.cancelled
                   /\ \A s \in Slots : sink.op[s] # "aborted"
  BY DEF Threads, Causes
<1>4. CASE \E e \in Errors \ {"none"} : /\ UnpackerThrows(e)
                                        /\ \/ sink.cancelled /\ e = "cancelled"
                                           \/ e = writer.error
                                           \/ "disk" \in scenario.fail /\ e = "own"
  <2>1. PICK e \in Errors \ {"none"} : /\ UnpackerThrows(e)
                                       /\ \/ sink.cancelled /\ e = "cancelled"
                                          \/ e = writer.error
                                          \/ "disk" \in scenario.fail /\ e = "own"
    BY <1>4
  <2>2. un' \in UnType /\ UnpackerPlace' /\ Records(un)' /\ un'.error = e
    BY <2>1, ThrownPlace
  <2>3. Cancelled \/ (queue'.status # "abandoned" /\ un'.error \in {"none", "own", "closed"})
    BY <1>1, <1>3, <2>1, <2>2
  <2>4. QED
    BY <1>1, <2>2, <2>3, UnpackerKeepsThreads
<1>5. CASE /\ un' \in UnType /\ un'.at = "restore" /\ un'.file = un.file /\ un'.chunk = un.chunk
           /\ un'.error = un.error
  <2>1. UnpackerPlace' /\ Records(un)'
    BY <1>1, <1>2, <1>5 DEF UnpackerPlace, Working, Writing, Regular, Records, outcome
  <2>2. QED
    BY <1>1, <1>2, <1>3, <1>5, <2>1, UnpackerKeepsThreads
<1>6. QED
  BY <1>4, <1>5, AwaitDrainEffect

LEMMA RestoreEffect ==
  ASSUME Types, Restore
  PROVE  \/ /\ un' \in UnType /\ un'.at = "check" /\ un'.file = 0 /\ un'.chunk = 0
            /\ un'.error = un.error /\ restored' = restored \cup {un.file}
         \/ /\ \/ Cancelled /\ UnpackerThrows("cancelled")
               \/ UnpackerThrows("own")
            /\ restored' \in {restored, restored \cup {un.file}}
<1>1. un \in UnType
  BY DEF Types
<1>2. ASSUME un' = [un EXCEPT !.at = "check", !.file = 0, !.chunk = 0]
      PROVE  /\ un' \in UnType /\ un'.at = "check" /\ un'.file = 0 /\ un'.chunk = 0
             /\ un'.error = un.error
  BY <1>1, <1>2 DEF UnType, UnPlaces
<1>3. QED
  BY <1>2 DEF Restore

LEMMA RestoreKeepsThreads ==
  ASSUME Types, Threads, Restore
  PROVE  Types' /\ Threads'
<1>1. /\ un \in UnType /\ un.at = "restore"
      /\ UNCHANGED <<source, queue, in, writer, drain, sink, disk, outcome, cancel>>
      /\ queue \in QueueType /\ Len(queue.items) <= Capacity /\ restored \subseteq Files
      /\ writer \in WriterType /\ drain \in DrainType /\ sink \in SinkType
  BY DEF Types, Restore
<1>2. un.error = "none" /\ main \in {"input", "unpacker"} /\ un.file \in Files /\ 0 \notin Directories
  BY <1>1, Parameters DEF Threads, UnpackerPlace, Working
<1>3. Cancelled \/ /\ queue.status # "abandoned"
                   /\ writer.error \in {"none", "own", "closed"}
                   /\ ~sink.cancelled /\ ~writer.cancelled
                   /\ \A s \in Slots : sink.op[s] # "aborted"
  BY DEF Threads, Causes
<1>4. restored' \subseteq Files
  BY <1>1, <1>2, RestoreEffect
<1>5. un' \in UnType /\ UnpackerPlace' /\ Records(un)' /\ (Cancelled \/ un'.error \in {"none", "own"})
  <2>1. CASE \/ Cancelled /\ UnpackerThrows("cancelled")
             \/ UnpackerThrows("own")
    <3>1. PICK e \in Errors \ {"none"} : UnpackerThrows(e) /\ (Cancelled \/ e = "own")
      BY <2>1 DEF Errors
    <3>2. QED
      BY <3>1, ThrownPlace
  <2>2. CASE /\ un' \in UnType /\ un'.at = "check" /\ un'.file = 0 /\ un'.chunk = 0
             /\ un'.error = un.error
    BY <1>1, <1>2, <2>2 DEF UnpackerPlace, Working, Writing, Regular, Records, outcome
  <2>3. QED
    BY <2>1, <2>2, RestoreEffect
<1>6. QED
  BY <1>1, <1>2, <1>3, <1>4, <1>5, UnpackerStepKeepsThreads DEF outcome

(***************************************************************************)
(* The capacities of the writer, and the ring of the sink's buffers: each  *)
(* of the MaxOps + 1 is active, available, or in flight, or was given up   *)
(* with the sink.                                                          *)
(***************************************************************************)
Ring ==
  /\ \A s \in Slots : sink.op[s] # "idle" <=> s \in Range(sink.flight)
  /\ Distinct(sink.flight) /\ Distinct(sink.available)
  /\ \A s \in Range(sink.flight) : s \notin Range(sink.available)
  /\ sink.active \notin Range(sink.flight) /\ sink.active \notin Range(sink.available)
  /\ Len(sink.available) + Len(sink.flight) <= MaxOps
  /\ drain.at # "over" => Len(sink.available) + Len(sink.flight) = MaxOps
  /\ drain.at = "issue" => Len(sink.flight) < MaxOps
  /\ drain.at = "reap" => sink.flight # <<>>

Buffers ==
  /\ \A s \in Slots : Len(sink.buffer[s]) <= BatchSize
  /\ drain.at \in {"none", "wait", "look", "fill"} => Len(sink.buffer[sink.active]) < BatchSize

WriterPlace ==
  /\ Len(writer.current) <= scenario.slot /\ Len(writer.pending) <= scenario.slots
  /\ un.at \in {"write", "close"} => Len(writer.current) < scenario.slot
  /\ drain.at \in {"submit", "reap", "issue"} => drain.then # "none"
  /\ writer.error # "none" => drain.at = "over"

Bounded == Ring /\ Buffers /\ WriterPlace

(* Arithmetic of the two ends of the ring.                                 *)
LEMMA SomeLeft == \A a, b, m \in Nat : (a + b = m /\ b < m) => a # 0
OBVIOUS
LEMMA OneMoves == \A a, b, m \in Nat : (a + b = m /\ a # 0) => (a - 1) + (b + 1) = m
OBVIOUS
LEMMA OneReturns == \A a, b \in Nat : (a + 1) + (b - 1) = a + b
OBVIOUS
LEMMA OneLost ==
  \A a, b, m \in Nat : (a + b = m /\ b # 0) => a + (b - 1) <= m /\ b - 1 < m
OBVIOUS
LEMMA OneLess == \A a, m \in Nat : (a <= m /\ a # 0) => a - 1 <= m
OBVIOUS

LEMMA OpsNumber == MaxOps \in Nat /\ MaxOps <= MaxOps
BY Parameters

(* submit_active_write always has a buffer to go on with.                  *)
LEMMA RingHasRoom ==
  ASSUME Kinds, Ring, drain.at = "issue"
  PROVE  sink.available # <<>> /\ Head(sink.available) # sink.active
         /\ Head(sink.available) \in Range(sink.available)
<1>1. sink.available \in Seq(Slots) /\ sink.flight \in Seq(Slots)
  BY DEF Kinds, SinkType
<1>2. Len(sink.available) \in Nat /\ Len(sink.flight) \in Nat
  BY <1>1
<1>3. Len(sink.available) + Len(sink.flight) = MaxOps /\ Len(sink.flight) < MaxOps
  BY DEF Ring
<1>4. Len(sink.available) # 0
  BY <1>2, <1>3, SomeLeft, OpsNumber
<1>5. sink.available # <<>>
  <2>1. Len(<<>>) = 0
    OBVIOUS
  <2>2. QED
    BY <1>4, <2>1
<1>6. Head(sink.available) \in Range(sink.available)
  BY <1>1, <1>5, TailDistinct DEF Ring
<1>7. QED
  BY <1>5, <1>6 DEF Ring

LEMMA DrainKeepsThreads ==
  ASSUME Types, Threads, Bounded, DrainStep
  PROVE  Types' /\ Threads'
<1>1. Kinds /\ Ring
  BY DEF Types, Kinds, Bounded
<1>2. /\ drain.at \in {"submit", "reap", "issue"} => drain.then # "none"
      /\ drain.at = "reap" => sink.flight # <<>>
  BY DEF Bounded, Ring, WriterPlace
<1>3. drain.at = "issue" => sink.available # <<>> /\ Head(sink.available) # sink.active
  BY <1>1, RingHasRoom
<1>4. QED
  BY <1>2, <1>3, DrainStepKeepsThreads

(* Steps that have nothing to do with the writer and the sink.             *)
LEMMA OthersKeepBounded ==
  ASSUME Bounded, UNCHANGED <<scenario, writer, drain, sink>>,
         un'.at \in {"write", "close"} => un.at \in {"write", "close"}
  PROVE  Bounded'
BY DEF Bounded, Ring, Buffers, WriterPlace

(* Steps that leave the ring alone.                                        *)
LEMMA RingStays ==
  ASSUME Ring, UNCHANGED <<sink.flight, sink.available, sink.active>>,
         \A s \in Slots : sink'.op[s] # "idle" <=> sink.op[s] # "idle",
         drain'.at = "over" \/ drain.at # "over",
         drain'.at = "issue" => Len(sink.flight) < MaxOps,
         drain'.at = "reap" => sink.flight # <<>>
  PROVE  Ring'
BY DEF Ring

LEMMA BuffersStay ==
  ASSUME Buffers, UNCHANGED <<sink.buffer, sink.active>>,
         drain'.at \in {"none", "wait", "look", "fill"} =>
           \/ drain.at \in {"none", "wait", "look", "fill"}
           \/ sink.buffer[sink.active] = <<>>
  PROVE  Buffers'
<1>1. Len(<<>>) = 0
  OBVIOUS
<1>2. QED
  BY <1>1, Parameters DEF Buffers

LEMMA CreateKeepsBounded ==
  ASSUME Types, Bounded, Create
  PROVE  Bounded'
<1>1. UNCHANGED scenario
  BY DEF Create, source
<1>2. CASE UnpackerThrows("own") /\ UNCHANGED files
  <2>1. un \in UnType /\ "own" \in Errors
    BY DEF Types, Errors
  <2>2. QED
    BY <1>1, <1>2, <2>1, UnpackerThrown, OthersKeepBounded DEF files
<1>3. CASE /\ writer'.current = <<>> /\ writer'.pending = <<>> /\ writer'.error = "none"
           /\ drain'.at = "none"
           /\ sink'.buffer = [s \in Slots |-> <<>>] /\ sink'.op = [s \in Slots |-> "idle"]
           /\ sink'.active = 0 /\ sink'.available = [i \in 1 .. MaxOps |-> i]
           /\ sink'.flight = <<>>
  <2>1. Len(<<>>) = 0 /\ DOMAIN <<>> = {}
    OBVIOUS
  <2>2. /\ Len(sink'.available) = MaxOps /\ DOMAIN sink'.available = 1 .. MaxOps
        /\ \A i \in 1 .. MaxOps : sink'.available[i] = i
    BY <1>3, Parameters
  <2>3. Range(sink'.flight) = {} /\ Distinct(sink'.flight) /\ Len(sink'.flight) = 0
    BY <1>3, <2>1 DEF Range, Distinct
  <2>4. Distinct(sink'.available) /\ 0 \notin Range(sink'.available)
    BY <2>2, Parameters DEF Range, Distinct
  <2>5. Ring'
    BY <1>3, <2>2, <2>3, <2>4, Parameters DEF Ring
  <2>6. Buffers'
    BY <1>3, <2>1, Parameters DEF Buffers
  <2>7. scenario.slot \in Nat \ {0} /\ scenario.slots \in Nat \ {0}
    BY Parameters DEF Types
  <2>8. WriterPlace'
    BY <1>1, <1>3, <2>1, <2>7 DEF WriterPlace
  <2>9. QED
    BY <2>5, <2>6, <2>8 DEF Bounded
<1>4. QED
  BY <1>2, <1>3, CreateEffect

LEMMA WriteChunkKeepsBounded ==
  ASSUME Types, Bounded, WriteChunk
  PROVE  Bounded'
<1>1. UNCHANGED <<scenario, drain, sink>> /\ un.at = "write" /\ un \in UnType
      /\ writer \in WriterType /\ scenario.slot \in Nat
  BY Parameters DEF WriteChunk, source, Types
<1>2. Ring' /\ Buffers'
  BY <1>1 DEF Bounded, Ring, Buffers
<1>3. CASE writer' = writer /\ (un'.at = "close" \/ un'.at = "handling")
  BY <1>1, <1>3, OthersKeepBounded
<1>4. CASE /\ writer'.current = Append(writer.current, un.chunk + 1)
           /\ writer'.pending = writer.pending /\ writer'.error = writer.error
           /\ un'.at = IF Len(writer.current) + 1 = scenario.slot THEN "enqueue" ELSE "write"
  <2>1. writer.current \in Seq(Nat) /\ un.chunk + 1 \in Nat
    BY <1>1 DEF WriterType, UnType
  <2>2. Len(writer'.current) = Len(writer.current) + 1 /\ Len(writer.current) \in Nat
    BY <1>4, <2>1, Appends
  <2>3. Len(writer.current) < scenario.slot
    BY <1>1 DEF Bounded, WriterPlace
  <2>4. WriterPlace'
    BY <1>1, <1>4, <2>2, <2>3 DEF Bounded, WriterPlace
  <2>5. QED
    BY <1>2, <2>4 DEF Bounded
<1>5. CASE writer' = writer /\ \E e \in Errors : UnpackerThrows(e)
  BY <1>1, <1>3, <1>5, UnpackerThrown
<1>6. QED
  <2>1. Cancelled /\ UnpackerThrows("cancelled") => \E e \in Errors : UnpackerThrows(e)
    BY DEF Errors
  <2>2. UnpackerThrows(writer.error) => \E e \in Errors : UnpackerThrows(e)
    BY <1>1 DEF WriterType
  <2>3. QED
    BY <1>3, <1>4, <1>5, <2>1, <2>2, WriteChunkEffect

LEMMA SendingKeepsBounded ==
  ASSUME Types, Bounded, UNCHANGED <<scenario, sink>>,
         NEW closing \in BOOLEAN, NEW then \in {"write", "await"}, SendSlot(closing, then)
  PROVE  Bounded'
<1>1. /\ un \in UnType /\ writer \in WriterType /\ drain \in DrainType
      /\ scenario.slot \in Nat \ {0} /\ scenario.slots \in Nat
  BY Parameters DEF Types
<1>2. CASE /\ drain' = drain
           /\ writer'.current = writer.current /\ writer'.pending = writer.pending
           /\ writer'.error = writer.error
           /\ \E e \in Errors : UnpackerThrows(e)
  <2>1. un'.at = "handling"
    BY <1>1, <1>2, UnpackerThrown
  <2>2. QED
    BY <1>2, <2>1 DEF Bounded, Ring, Buffers, WriterPlace
<1>3. CASE /\ writer.error = "none" /\ Len(writer.pending) < scenario.slots
           /\ writer'.current = <<>> /\ writer'.pending = Append(writer.pending, writer.current)
           /\ writer'.error = writer.error
           /\ drain'.slot = drain.slot /\ drain'.then = drain.then
           /\ drain'.at = IF drain.at = "none" THEN "wait" ELSE drain.at
  <2>1. writer.pending \in Seq(Seq(Nat)) /\ writer.current \in Seq(Nat) /\ Len(<<>>) = 0
    BY <1>1 DEF WriterType
  <2>2. Len(writer'.pending) = Len(writer.pending) + 1 /\ Len(writer.pending) \in Nat
    BY <1>3, <2>1, Appends
  <2>3. WriterPlace'
    BY <1>1, <1>3, <2>1, <2>2 DEF Bounded, WriterPlace
  <2>4. Ring' /\ Buffers'
    BY <1>3 DEF Bounded, Ring, Buffers
  <2>5. QED
    BY <2>3, <2>4 DEF Bounded
<1>4. QED
  <2>1. UnpackerThrows("cancelled") => \E e \in Errors : UnpackerThrows(e)
    BY DEF Errors
  <2>2. UnpackerThrows(writer.error) => \E e \in Errors : UnpackerThrows(e)
    BY <1>1 DEF WriterType
  <2>3. QED
    BY <1>2, <1>3, <2>1, <2>2, SendSlotEffect

LEMMA EnqueueKeepsBounded ==
  ASSUME Types, Threads, Bounded, Enqueue
  PROVE  Bounded'
<1>1. /\ un.at = "enqueue" /\ UNCHANGED <<scenario, sink>> /\ SendSlot(writer.closing, un.then)
  BY DEF Enqueue, source
<1>2. un.then \in {"write", "await"} /\ writer.closing \in BOOLEAN
  BY <1>1 DEF Types, Threads, UnpackerPlace, UnType, WriterType
<1>3. QED
  BY <1>1, <1>2, SendingKeepsBounded

LEMMA CloseWriterKeepsBounded ==
  ASSUME Types, Bounded, CloseWriter
  PROVE  Bounded'
<1>1. UNCHANGED <<scenario, sink>> /\ TRUE \in BOOLEAN /\ un \in UnType
  BY DEF CloseWriter, source, Types
<1>2. CASE (writer.error # "none" \/ writer.current # <<>>) /\ SendSlot(TRUE, "await")
  BY <1>1, <1>2, SendingKeepsBounded
<1>3. CASE /\ writer' = [writer EXCEPT !.closing = TRUE] /\ drain' = drain
           /\ un'.at \in {"await", "enqueue"}
  <2>1. /\ writer'.current = writer.current /\ writer'.pending = writer.pending
        /\ writer'.error = writer.error
    BY <1>1, <1>3, ClosingSet
  <2>2. QED
    BY <1>1, <1>3, <2>1 DEF Bounded, Ring, Buffers, WriterPlace
<1>4. un' = [un EXCEPT !.at = "await"] => un'.at = "await"
  BY <1>1, UnpackerMoved DEF UnPlaces
<1>5. QED
  BY <1>2, <1>3, <1>4, CloseWriterEffect

LEMMA IssueKeepsBounded ==
  ASSUME Types, Bounded, Issue
  PROVE  Bounded'
<1>1. Kinds /\ Ring /\ drain.at = "issue" /\ UNCHANGED <<scenario, un>>
  BY DEF Types, Kinds, Bounded, Issue, source
<1>2. /\ sink.available # <<>> /\ Head(sink.available) # sink.active
      /\ Head(sink.available) \in Range(sink.available) /\ drain.then # "none"
  BY <1>1, RingHasRoom DEF Bounded, WriterPlace
<1>3. /\ writer'.current = writer.current /\ writer'.pending = writer.pending
      /\ drain'.then = drain.then
      /\ \/ /\ drain'.at = drain.then /\ writer' = writer
            /\ sink'.op = [sink.op EXCEPT ![sink.active] = "pending"]
            /\ sink'.buffer = [sink.buffer EXCEPT ![Head(sink.available)] = <<>>]
            /\ sink'.flight = Append(sink.flight, sink.active)
            /\ sink'.active = Head(sink.available) /\ sink'.available = Tail(sink.available)
         \/ /\ drain'.at = "over" /\ sink' = sink
  BY <1>1, <1>2, IssueEffect
<1>4. CASE drain'.at = "over" /\ sink' = sink
  BY <1>1, <1>3, <1>4 DEF Bounded, Ring, Buffers, WriterPlace
<1>5. CASE /\ drain'.at = drain.then /\ writer' = writer
           /\ sink'.op = [sink.op EXCEPT ![sink.active] = "pending"]
           /\ sink'.buffer = [sink.buffer EXCEPT ![Head(sink.available)] = <<>>]
           /\ sink'.flight = Append(sink.flight, sink.active)
           /\ sink'.active = Head(sink.available) /\ sink'.available = Tail(sink.available)
  <2> DEFINE h == Head(sink.available)
  <2>1. /\ sink.available \in Seq(Slots) /\ sink.flight \in Seq(Slots) /\ sink.active \in Slots
        /\ sink.op \in [Slots -> Outcomes] /\ sink.buffer \in [Slots -> Seq(Nat)]
        /\ drain.then \in {"fill", "all"}
    BY <1>1, <1>2 DEF Kinds, SinkType, DrainType
  <2>2. /\ h \in Slots /\ Len(sink'.available) = Len(sink.available) - 1
        /\ Distinct(sink'.available) /\ Range(sink'.available) = Range(sink.available) \ {h}
    BY <1>1, <1>2, <1>5, <2>1, TailDistinct DEF Ring
  <2>3. /\ Len(sink'.flight) = Len(sink.flight) + 1 /\ Distinct(sink'.flight)
        /\ Range(sink'.flight) = Range(sink.flight) \cup {sink.active}
    BY <1>1, <1>5, <2>1, AppendDistinct DEF Ring
  <2> HIDE DEF h
  <2>4. /\ Len(sink.available) \in Nat \ {0} /\ Len(sink.flight) \in Nat
        /\ Len(sink.available) + Len(sink.flight) = MaxOps
    <3>1. Len(sink.available) + Len(sink.flight) = MaxOps
      BY <1>1 DEF Ring
    <3>2. Len(sink.available) \in Nat \ {0} /\ Len(sink.flight) \in Nat
      BY <1>2, <2>1, Heads
    <3>3. QED
      BY <3>1, <3>2
  <2>5. /\ Len(sink'.available) + Len(sink'.flight) = MaxOps
    <3>1. (Len(sink.available) - 1) + (Len(sink.flight) + 1) = MaxOps
      BY <2>4, OneMoves, OpsNumber
    <3>2. QED
      BY <2>2, <2>3, <3>1
  <2>6. \A s \in Slots : sink'.op[s] # "idle" <=> s \in Range(sink'.flight)
    BY <1>1, <1>5, <2>1, <2>3 DEF Ring
  <2>7. \A s \in Range(sink'.flight) : s \notin Range(sink'.available)
    BY <1>1, <2>2, <2>3 DEF Ring
  <2>8. sink'.active = h /\ h \in Range(sink.available) /\ h # sink.active
    BY <1>2, <1>5 DEF h
  <2>9. sink'.active \notin Range(sink'.flight) /\ sink'.active \notin Range(sink'.available)
    BY <1>1, <2>2, <2>3, <2>8 DEF Ring
  <2>10. Ring'
    BY <1>5, <2>1, <2>2, <2>3, <2>5, <2>6, <2>7, <2>9, OpsNumber DEF Ring
  <2>11. /\ sink'.buffer[sink'.active] = <<>> /\ Len(<<>>) = 0
         /\ \A s \in Slots : sink'.buffer[s] = sink.buffer[s] \/ sink'.buffer[s] = <<>>
    BY <1>5, <2>1, <2>2, <2>8 DEF h
  <2>12. Buffers'
    BY <2>11, Parameters DEF Bounded, Buffers
  <2>13. WriterPlace'
    BY <1>1, <1>2, <1>5, <2>1 DEF Bounded, WriterPlace
  <2>14. QED
    BY <2>10, <2>12, <2>13 DEF Bounded
<1>6. QED
  BY <1>3, <1>4, <1>5

LEMMA WaitKeepsBounded ==
  ASSUME Types, Bounded, UNCHANGED <<scenario, un>>, sink.flight # <<>>,
         NEW then \in {"issue", "all"}, WaitForOne(then), drain.at \in {"reap", "all"},
         then = "issue" => drain.at = "reap"
  PROVE  Bounded'
<1> DEFINE h == Head(sink.flight)
<1>1. Kinds /\ Ring
  BY DEF Types, Kinds, Bounded
<1>2. /\ sink.available \in Seq(Slots) /\ sink.flight \in Seq(Slots) /\ sink.active \in Slots
      /\ sink.op \in [Slots -> Outcomes]
  BY <1>1 DEF Kinds, SinkType
<1>3. /\ writer'.current = writer.current /\ writer'.pending = writer.pending
      /\ drain'.then = drain.then /\ sink'.buffer = sink.buffer /\ sink'.active = sink.active
      /\ sink'.flight = Tail(sink.flight) /\ sink'.op = [sink.op EXCEPT ![h] = "idle"]
      /\ \/ /\ writer' = writer /\ drain'.at = then
            /\ sink'.available = Append(sink.available, h)
         \/ sink'.available = sink.available /\ drain'.at = "over"
  BY <1>1, WaitForOneEffect
<1>4. /\ h \in Slots /\ h \in Range(sink.flight) /\ Len(sink'.flight) = Len(sink.flight) - 1
      /\ Distinct(sink'.flight) /\ Range(sink'.flight) = Range(sink.flight) \ {h}
  BY <1>1, <1>2, <1>3, TailDistinct DEF Ring
<1>5. /\ Len(sink.available) \in Nat /\ Len(sink.flight) \in Nat \ {0}
      /\ Len(sink.available) + Len(sink.flight) = MaxOps
  <2>1. Len(sink.available) + Len(sink.flight) = MaxOps
    BY <1>1 DEF Ring
  <2>2. Len(sink.flight) \in Nat \ {0}
    BY <1>2, Heads
  <2>3. Len(sink.available) \in Nat
    BY <1>2
  <2>4. QED
    BY <2>1, <2>2, <2>3
<1>6. \/ /\ drain'.at # "over" /\ Distinct(sink'.available)
         /\ Range(sink'.available) = Range(sink.available) \cup {h}
         /\ Len(sink'.available) = Len(sink.available) + 1
      \/ /\ drain'.at = "over" /\ sink'.available = sink.available
  <2>1. h \notin Range(sink.available)
    BY <1>1, <1>4 DEF Ring
  <2>2. Distinct(sink.available)
    BY <1>1 DEF Ring
  <2>3. /\ Len(Append(sink.available, h)) = Len(sink.available) + 1
        /\ Distinct(Append(sink.available, h))
        /\ Range(Append(sink.available, h)) = Range(sink.available) \cup {h}
    BY <1>2, <1>4, <2>1, <2>2, AppendDistinct
  <2>4. then # "over"
    OBVIOUS
  <2>5. QED
    BY <1>3, <2>3, <2>4
<1> HIDE DEF h
<1>7. /\ Len(sink'.available) + Len(sink'.flight) <= MaxOps
      /\ drain'.at # "over" => Len(sink'.available) + Len(sink'.flight) = MaxOps
      /\ Len(sink'.flight) < MaxOps
  <2>1. /\ (Len(sink.available) + 1) + (Len(sink.flight) - 1) = MaxOps
        /\ Len(sink.available) + (Len(sink.flight) - 1) <= MaxOps
        /\ Len(sink.flight) - 1 < MaxOps /\ MaxOps <= MaxOps
    <3>1. /\ Len(sink.available) \in Nat /\ Len(sink.flight) \in Nat /\ Len(sink.flight) # 0
          /\ Len(sink.available) + Len(sink.flight) = MaxOps
      BY <1>5
    <3>2. (Len(sink.available) + 1) + (Len(sink.flight) - 1) = MaxOps
      BY <3>1, OneReturns
    <3>3. Len(sink.available) + (Len(sink.flight) - 1) <= MaxOps /\ Len(sink.flight) - 1 < MaxOps
      BY <3>1, OneLost, OpsNumber
    <3>4. QED
      BY <3>2, <3>3, OpsNumber
  <2>2. QED
    BY <1>4, <1>6, <2>1
<1>8. \A s \in Slots : sink'.op[s] # "idle" <=> s \in Range(sink'.flight)
  BY <1>1, <1>2, <1>3, <1>4 DEF Ring
<1>9. Ring'
  <2>1. \A s \in Range(sink'.flight) : s \notin Range(sink'.available)
    BY <1>1, <1>4, <1>6 DEF Ring
  <2>2. sink'.active \notin Range(sink'.flight) /\ sink'.active \notin Range(sink'.available)
    BY <1>1, <1>3, <1>4, <1>6 DEF Ring
  <2>3. drain'.at # "reap" /\ Distinct(sink'.available)
    BY <1>1, <1>3, <1>6 DEF Ring
  <2>4. QED
    BY <1>4, <1>7, <1>8, <2>1, <2>2, <2>3 DEF Ring
<1>10. Buffers'
  BY <1>3 DEF Bounded, Buffers
<1>11. WriterPlace'
  BY <1>3 DEF Bounded, WriterPlace
<1>12. QED
  BY <1>9, <1>10, <1>11 DEF Bounded

LEMMA DrainKeepsBounded ==
  ASSUME Types, Bounded, DrainStep
  PROVE  Bounded'
<1>1. Kinds /\ UNCHANGED <<scenario, un>> /\ Ring /\ Buffers /\ WriterPlace
  BY DEF Types, Kinds, DrainStep, TakeSlot, Look, Fill, Submit, Issue, Reap, FinishSink, source,
         Bounded
<1>2. /\ sink.buffer \in [Slots -> Seq(Nat)] /\ sink.active \in Slots
      /\ drain.slot \in Seq(Nat) /\ writer.pending \in Seq(Seq(Nat))
      /\ sink.flight \in Seq(Slots)
  BY <1>1 DEF Kinds, SinkType, DrainType, WriterType
<1>3. CASE TakeSlot
  <2>1. sink' = sink /\ drain.at = "wait"
    BY <1>3 DEF TakeSlot
  <2>2. /\ writer'.current = writer.current /\ drain'.at \in {"look", "over"}
        /\ drain'.at = "look" => writer'.error = writer.error
        /\ \/ writer'.pending = writer.pending
           \/ writer.pending # <<>> /\ writer'.pending = Tail(writer.pending)
    BY <1>1, <1>3, TakeSlotEffect
  <2>3. scenario.slots \in Nat /\ Len(writer.pending) \in Nat
    BY <1>2, Parameters DEF Types
  <2>4. writer.pending # <<>> =>
          Len(Tail(writer.pending)) = Len(writer.pending) - 1 /\ Len(writer.pending) # 0
    BY <1>2, Heads
  <2>5. Len(writer'.pending) <= scenario.slots
    <3>1. Len(writer.pending) <= scenario.slots
      BY <1>1 DEF WriterPlace
    <3>2. Len(writer.pending) # 0 => Len(writer.pending) - 1 <= scenario.slots
      BY <2>3, <3>1, OneLess
    <3>3. QED
      BY <2>2, <2>4, <3>1, <3>2
  <2>6. Ring' /\ Buffers'
    BY <1>1, <2>1, <2>2 DEF Ring, Buffers
  <2>7. WriterPlace'
    BY <1>1, <2>1, <2>2, <2>5 DEF WriterPlace
  <2>8. QED
    BY <2>6, <2>7 DEF Bounded
<1>4. CASE Look
  <2>1. sink' = sink /\ drain.at = "look"
    BY <1>4 DEF Look
  <2>2. /\ writer'.current = writer.current /\ writer'.pending = writer.pending
        /\ \/ drain'.at = "over"
           \/ writer' = writer /\ drain'.at = "fill"
           \/ writer' = writer /\ drain'.at = "submit" /\ drain'.then = "all"
    BY <1>1, <1>4, LookEffect
  <2>3. QED
    BY <1>1, <2>1, <2>2 DEF Bounded, Ring, Buffers, WriterPlace
<1>5. CASE Fill
  <2>1. writer' = writer /\ drain.at = "fill"
    BY <1>5 DEF Fill
  <2>2. /\ sink'.op = sink.op /\ sink'.active = sink.active
        /\ sink'.available = sink.available /\ sink'.flight = sink.flight
        /\ \/ drain'.at = "wait" /\ sink' = sink
           \/ drain'.at = "submit" /\ drain'.then = "fill" /\ sink' = sink
           \/ /\ drain.slot # <<>> /\ drain'.then = "fill"
              /\ sink'.buffer[sink.active] = Append(sink.buffer[sink.active], Head(drain.slot))
              /\ \A s \in Slots : s # sink.active => sink'.buffer[s] = sink.buffer[s]
              /\ drain'.at = IF Len(sink.buffer[sink.active]) + 1 = BatchSize
                             THEN "submit" ELSE "fill"
    BY <1>1, <1>5, FillEffect
  <2>3. Ring'
    BY <1>1, <2>1, <2>2, RingStays
  <2>4. WriterPlace'
    BY <1>1, <2>1, <2>2 DEF WriterPlace
  <2>5. CASE sink' = sink /\ drain'.at \in {"wait", "submit"}
    BY <1>1, <2>1, <2>3, <2>4, <2>5 DEF Bounded, Buffers
  <2>6. CASE /\ drain.slot # <<>>
             /\ sink'.buffer[sink.active] = Append(sink.buffer[sink.active], Head(drain.slot))
             /\ \A s \in Slots : s # sink.active => sink'.buffer[s] = sink.buffer[s]
             /\ drain'.at = IF Len(sink.buffer[sink.active]) + 1 = BatchSize
                            THEN "submit" ELSE "fill"
    <3>1. Head(drain.slot) \in Nat /\ sink.buffer[sink.active] \in Seq(Nat)
      BY <1>2, <2>6, Heads
    <3>2. /\ Len(sink'.buffer[sink.active]) = Len(sink.buffer[sink.active]) + 1
          /\ Len(sink.buffer[sink.active]) \in Nat
      BY <2>6, <3>1, Appends
    <3>3. Len(sink.buffer[sink.active]) < BatchSize
      BY <1>1, <2>1 DEF Buffers
    <3>4. Len(sink'.buffer[sink.active]) <= BatchSize
      BY <3>2, <3>3, Parameters
    <3>5. drain'.at = "fill" => Len(sink'.buffer[sink.active]) < BatchSize
      BY <2>6, <3>2, <3>3, <3>4, Parameters
    <3>6. Buffers'
      BY <1>1, <2>2, <2>6, <3>4, <3>5 DEF Buffers
    <3>7. QED
      BY <2>3, <2>4, <3>6 DEF Bounded
  <2>7. QED
    BY <2>2, <2>5, <2>6
<1>6. CASE Submit
  <2>1. sink' = sink /\ drain.at = "submit" /\ drain.then # "none"
    BY <1>1, <1>6 DEF Submit, WriterPlace
  <2>2. /\ writer'.current = writer.current /\ writer'.pending = writer.pending
        /\ drain'.then = drain.then
        /\ \/ drain'.at = "over"
           \/ /\ writer' = writer
              /\ drain'.at = IF sink.buffer[sink.active] = <<>> THEN drain.then
                             ELSE IF Len(sink.flight) >= MaxOps THEN "reap" ELSE "issue"
    BY <1>1, <1>6, <2>1, SubmitEffect
  <2>3. drain.then \in {"fill", "all"}
    BY <1>1, <2>1 DEF Kinds, DrainType
  <2>4. Len(sink.flight) \in Nat /\ Len(<<>>) = 0
    BY <1>2
  <2>5. drain'.at = "issue" => Len(sink.flight) < MaxOps
    BY <2>2, <2>3, <2>4, Parameters
  <2>6. drain'.at = "reap" => sink.flight # <<>>
    BY <2>2, <2>3, <2>4, Parameters
  <2>7. Ring'
    BY <1>1, <2>1, <2>5, <2>6, RingStays
  <2>8. Buffers'
    BY <1>1, <2>1, <2>2, BuffersStay
  <2>9. WriterPlace'
    BY <1>1, <2>1, <2>2, <2>3 DEF WriterPlace
  <2>10. QED
    BY <2>7, <2>8, <2>9 DEF Bounded
<1>7. CASE Issue
  BY <1>7, IssueKeepsBounded
<1>8. CASE Reap
  <2>1. drain.at = "reap" /\ WaitForOne("issue") /\ sink.flight # <<>>
    BY <1>1, <1>8 DEF Reap, Ring
  <2>2. QED
    BY <1>1, <2>1, WaitKeepsBounded
<1>9. CASE FinishSink
  <2>1. drain.at = "all"
    BY <1>9 DEF FinishSink
  <2>2. CASE sink.flight # <<>> /\ WaitForOne("all")
    BY <1>1, <2>1, <2>2, WaitKeepsBounded
  <2>3. CASE sink' = sink /\ writer' = writer /\ drain' = [drain EXCEPT !.at = "over"]
    <3>1. drain'.at = "over"
      BY <1>1, <2>3, DrainMoved DEF DrainPlaces
    <3>2. QED
      BY <1>1, <2>3, <3>1 DEF Bounded, Ring, Buffers, WriterPlace
  <2>4. CASE sink' = sink /\ DrainFails("own")
    <3>1. /\ drain'.at = "over" /\ writer'.current = writer.current
          /\ writer'.pending = writer.pending
      BY <1>1, <2>4, DrainFailed DEF Errors
    <3>2. QED
      BY <1>1, <2>4, <3>1 DEF Bounded, Ring, Buffers, WriterPlace
  <2>5. QED
    BY <1>9, <2>2, <2>3, <2>4 DEF FinishSink
<1>10. QED
  BY <1>3, <1>4, <1>5, <1>6, <1>7, <1>8, <1>9 DEF DrainStep

LEMMA CompleteKeepsBounded ==
  ASSUME Types, Bounded, NEW s \in Slots, Complete(s)
  PROVE  Bounded'
<1>1. Kinds /\ UNCHANGED <<scenario, un, writer, drain>>
  BY DEF Types, Kinds, Complete, source
<1>2. /\ sink.op[s] = "pending" /\ sink'.buffer = sink.buffer
      /\ sink'.active = sink.active /\ sink'.available = sink.available
      /\ sink'.flight = sink.flight
      /\ \E o \in {"written", "failed"} : sink'.op = [sink.op EXCEPT ![s] = o]
  BY <1>1, CompleteEffect
<1>3. \A r \in Slots : sink'.op[r] # "idle" <=> sink.op[r] # "idle"
  <2>1. sink.op \in [Slots -> Outcomes]
    BY <1>1 DEF Kinds, SinkType
  <2>2. QED
    BY <1>2, <2>1
<1>4. Ring'
  BY <1>1, <1>2, <1>3, RingStays DEF Bounded, Ring
<1>5. QED
  BY <1>1, <1>2, <1>4 DEF Bounded, Buffers, WriterPlace

LEMMA CancelSlotKeepsBounded ==
  ASSUME Types, Bounded, CancelSlot
  PROVE  Bounded'
<1>1. Kinds /\ UNCHANGED <<scenario, un, drain>>
  BY DEF Types, Kinds, CancelSlot
<1>2. /\ writer'.current = writer.current /\ writer'.pending = writer.pending
      /\ writer'.error = writer.error
      /\ sink'.buffer = sink.buffer
      /\ sink'.active = sink.active /\ sink'.available = sink.available
      /\ sink'.flight = sink.flight
      /\ \A s \in Slots : \/ sink'.op[s] = sink.op[s]
                          \/ sink.op[s] = "pending" /\ sink'.op[s] = "aborted"
  BY <1>1, CancelSlotEffect
<1>3. Ring'
  BY <1>1, <1>2, RingStays DEF Bounded, Ring
<1>4. QED
  BY <1>1, <1>2, <1>3 DEF Bounded, Buffers, WriterPlace

(***************************************************************************)
(* The content of the file that is being written. What the sink has given  *)
(* to the system is on the disk in its place, or in a buffer of an         *)
(* operation that is not known to be done; the rest is on its way.         *)
(***************************************************************************)
Chain ==
  Chained(writer.pending, writer.current, drain.slot, sink.buffer[sink.active], sink.size, un.chunk)

DrainedWell == drain.at = "over" /\ writer.error = "none"
Finishing ==
  \/ drain.at = "look" /\ drain.slot = <<>>
  \/ drain.at \in {"submit", "reap", "issue"} /\ drain.then = "all"
  \/ drain.at = "all"
  \/ DrainedWell

(* The drain loop ends the file only when the writer is closed and empty.  *)
Ending ==
  /\ writer.closing <=> un.at = "await"
  /\ un.at = "await" => writer.current = <<>>
  /\ un.at = "enqueue" => writer.current # <<>>
  /\ Finishing => writer.closing /\ writer.pending = <<>> /\ drain.slot = <<>>
  /\ drain.at = "all" \/ DrainedWell => sink.buffer[sink.active] = <<>>
  /\ DrainedWell => sink.flight = <<>>
  /\ drain.at = "wait" => drain.slot = <<>>
  /\ drain.at = "none" => /\ drain.slot = <<>> /\ writer.pending = <<>>
                          /\ sink.buffer[sink.active] = <<>> /\ sink.flight = <<>>

Holds(s, i) == i \in Nat /\ sink.place[s] < i /\ i <= sink.place[s] + Len(sink.buffer[s])
Placed ==
  \A s \in Range(sink.flight) :
    Run(sink.buffer[s], sink.place[s]) /\ sink.place[s] + Len(sink.buffer[s]) <= sink.size
Ordered == \A d \in disk : d[1] = un.file => \E i \in 1 .. sink.size : d = <<un.file, i, i>>
Accounted ==
  writer.error = "none" =>
    \A i \in 1 .. sink.size :
      \/ <<un.file, i, i>> \in disk
      \/ \E s \in Range(sink.flight) : sink.op[s] # "written" /\ Holds(s, i)

(* Its times are set last.                                                *)
Untimed == un.file \notin restored

Content == Writing => Chain /\ Ending /\ Placed /\ Ordered /\ Accounted /\ Untimed

(* While anything can still be written the unpacker is at that file, or    *)
(* has failed with it, and the file has not got its times.                 *)
Busy == drain.at \notin {"none", "over"} \/ \E s \in Slots : sink.op[s] = "pending"
Quiet ==
  Busy => /\ Writing \/ un.at = "handling" \/ (un.at = "done" /\ un.error # "none")
          /\ un.file \in Regular /\ un.file \notin restored

Restoring == un.at = "restore" => {d \in disk : d[1] = un.file} = WholeFile(un.file)
RegularOnly == \A d \in disk : d[1] \in Regular

FilesRight == Content /\ Quiet /\ Restoring /\ RegularOnly /\ RestoredIsWritten

(* close() of the writer never has to wait for a place for its last slot:  *)
(* see CloseWriter.                                                        *)
NoWaitInClose == ~ (un.at = "enqueue" /\ un.then = "await")

LEMMA OthersKeepFiles ==
  ASSUME FilesRight, UNCHANGED <<un, files>>
  PROVE  FilesRight'
BY DEF FilesRight, Content, Chain, Ending, Finishing, DrainedWell, Holds, Placed, Ordered, Accounted,
       Untimed, Writing, Busy, Quiet, Restoring, RegularOnly, RestoredIsWritten, files

(* The unpacker turns to something else.                                   *)
LEMMA LeavingKeepsFiles ==
  ASSUME FilesRight, UNCHANGED <<drain, sink, disk, restored>>,
         un'.at \notin {"write", "enqueue", "close", "await"},
         Busy => /\ un'.at = "handling" \/ (un'.at = "done" /\ un'.error # "none")
                 /\ un'.file = un.file,
         un'.at = "restore" => {d \in disk : d[1] = un'.file} = WholeFile(un'.file)
  PROVE  FilesRight'
<1>1. Content'
  BY DEF Content, Writing
<1>2. Busy' <=> Busy
  BY DEF Busy
<1>3. Quiet'
  BY <1>2 DEF FilesRight, Quiet
<1>4. Restoring' /\ RegularOnly' /\ RestoredIsWritten'
  BY DEF FilesRight, Restoring, RegularOnly, RestoredIsWritten
<1>5. QED
  BY <1>1, <1>3, <1>4 DEF FilesRight

LEMMA ThrowingKeepsFiles ==
  ASSUME Types, FilesRight, UNCHANGED <<drain, sink, disk, restored>>,
         NEW e \in Errors, UnpackerThrows(e)
  PROVE  FilesRight'
<1>1. un \in UnType
  BY DEF Types
<1>2. un'.at = "handling" /\ un'.file = un.file
  BY <1>1, UnpackerThrown
<1>3. QED
  BY <1>2, LeavingKeepsFiles

LEMMA UnpackerChecksKeepsFiles ==
  ASSUME Types, FilesRight, UnpackerChecks
  PROVE  FilesRight'
<1>1. un \in UnType /\ un.at = "check" /\ UNCHANGED files
  BY DEF Types, UnpackerChecks
<1>2. ~Busy
  BY <1>1 DEF FilesRight, Quiet, Writing
<1>3. un'.at \in {"handling", "create", "pop"}
  <2>1. CASE Cancelled
    BY <1>1, <2>1, UnpackerThrown DEF UnpackerChecks, Errors
  <2>2. CASE ~Cancelled /\ Collected
    BY <1>1, <2>2, UnpackerMoved DEF UnpackerChecks, UnPlaces
  <2>3. CASE ~Cancelled /\ ~Collected
    BY <1>1, <2>3, UnpackerMoved DEF UnpackerChecks, UnPlaces
  <2>4. QED
    BY <2>1, <2>2, <2>3
<1>4. QED
  BY <1>1, <1>2, <1>3, LeavingKeepsFiles DEF files

LEMMA PopTarKeepsFiles ==
  ASSUME Types, Threads, FilesRight, PopTar
  PROVE  FilesRight'
<1>1. un \in UnType /\ un.at = "pop" /\ UNCHANGED files
  BY DEF Types, PopTar
<1>2. ~Busy
  BY <1>1 DEF FilesRight, Quiet, Writing
<1>3. /\ un'.at \in {"handling", "done", "check", "restore"}
      /\ un'.at = "restore" => un'.file \in Directories
  <2>1. CASE queue.items # <<>>
    BY <1>1, <2>1 DEF PopTar, UnType
  <2>2. CASE queue.items = <<>> /\ un' = [un EXCEPT !.at = "done"]
    BY <1>1, <2>2, UnpackerMoved DEF UnPlaces
  <2>3. CASE \E e \in Errors : UnpackerThrows(e)
    BY <1>1, <2>3, UnpackerThrown
  <2>4. QED
    BY <2>1, <2>2, <2>3 DEF PopTar, Errors
<1>4. \A f \in Directories : {d \in disk : d[1] = f} = {} /\ WholeFile(f) = {}
  <2>1. \A f \in Directories : Sizes[f] = 0 /\ f \notin Regular
    BY Parameters DEF Regular
  <2>2. \A f \in Directories : {d \in disk : d[1] = f} = {}
    BY <2>1 DEF FilesRight, RegularOnly
  <2>3. \A f \in Directories : WholeFile(f) = {}
    BY <2>1 DEF WholeFile, Chunks
  <2>4. QED
    BY <2>2, <2>3
<1>5. QED
  BY <1>1, <1>2, <1>3, <1>4, LeavingKeepsFiles DEF files

LEMMA UnpackerHandlesKeepsFiles ==
  ASSUME Types, Threads, FilesRight, UnpackerHandles
  PROVE  FilesRight'
<1>1. /\ un \in UnType /\ un.at = "handling" /\ UNCHANGED files
      /\ un.todo # <<>> /\ un.error # "none"
  BY DEF Types, UnpackerHandles, Handle, Threads, UnpackerPlace
<1>2. un'.error = un.error /\ un'.file = un.file /\ un'.at \in {"handling", "done"}
  BY <1>1, UnpackerHandled DEF UnpackerHandles
<1>3. QED
  BY <1>1, <1>2, LeavingKeepsFiles DEF files

(* The main thread starts the next transport only after a good one.        *)
LEMMA AwaitTransportKeepsFiles ==
  ASSUME Types, Threads, FilesRight, AwaitTransport
  PROVE  FilesRight'
<1>1. main = "await" /\ UNCHANGED files
  BY DEF AwaitTransport
<1>2. CASE un' = un
  BY <1>1, <1>2, OthersKeepFiles
<1>3. CASE un' = NewUnpacker
  <2>1. un.at = "done" /\ un.error = "none"
    BY <1>1 DEF Threads, MainPlace
  <2>2. ~Busy
    BY <2>1 DEF FilesRight, Quiet, Writing
  <2>3. un'.at = "check"
    BY <1>3 DEF NewUnpacker
  <2>4. QED
    BY <1>1, <2>2, <2>3, LeavingKeepsFiles DEF files
<1>4. QED
  BY <1>2, <1>3 DEF AwaitTransport, Start

LEMMA CreateKeepsFiles ==
  ASSUME Types, Threads, FilesRight, Create
  PROVE  FilesRight'
<1>1. un \in UnType /\ un.at = "create" /\ un.file \in Regular
  BY DEF Types, Create, Threads, UnpackerPlace
<1>2. CASE UnpackerThrows("own") /\ UNCHANGED files
  BY <1>2, ThrowingKeepsFiles DEF files, Errors
<1>3. CASE /\ writer'.current = <<>> /\ writer'.pending = <<>> /\ ~writer'.closing
           /\ writer'.error = "none"
           /\ drain'.at = "none" /\ drain'.slot = <<>>
           /\ sink'.buffer = [s \in Slots |-> <<>>] /\ sink'.op = [s \in Slots |-> "idle"]
           /\ sink'.active = 0
           /\ sink'.flight = <<>> /\ sink'.size = 0
           /\ disk' = {d \in disk : d[1] # un.file} /\ restored' = restored \ {un.file}
           /\ un'.at = "write" /\ un'.chunk = 0 /\ un'.file = un.file
  <2>1. sink'.buffer[sink'.active] = <<>>
    BY <1>3, Parameters
  <2>2. Chain'
    BY <1>3, <2>1, ChainStart DEF Chain
  <2>3. Ending'
    BY <1>3, <2>1 DEF Ending, Finishing, DrainedWell
  <2>4. Range(sink'.flight) = {}
    <3>1. DOMAIN <<>> = {}
      OBVIOUS
    <3>2. QED
      BY <1>3, <3>1 DEF Range
  <2>5. \A i \in 1 .. sink'.size : FALSE
    BY <1>3
  <2>6. Placed' /\ Ordered' /\ Accounted'
    BY <1>3, <2>4, <2>5 DEF Placed, Ordered, Accounted
  <2>7. ~Busy' /\ Untimed'
    BY <1>3 DEF Busy, Untimed
  <2>8. RestoredIsWritten'
    <3>1. ASSUME NEW f \in restored'
          PROVE  {d \in disk' : d[1] = f} = WholeFile(f)
      <4>1. f \in restored /\ f # un.file
        BY <1>3
      <4>2. {d \in disk' : d[1] = f} = {d \in disk : d[1] = f}
        BY <1>3, <4>1
      <4>3. QED
        BY <4>1, <4>2 DEF FilesRight, RestoredIsWritten
    <3>2. QED
      BY <3>1 DEF RestoredIsWritten, WholeFile, Chunks
  <2>9. RegularOnly' /\ Restoring'
    BY <1>3 DEF FilesRight, RegularOnly, Restoring
  <2>10. QED
    BY <2>2, <2>3, <2>6, <2>7, <2>8, <2>9 DEF FilesRight, Content, Quiet
<1>4. QED
  BY <1>2, <1>3, CreateEffect

LEMMA WriteChunkKeepsFiles ==
  ASSUME Types, Threads, Bounded, FilesRight, WriteChunk
  PROVE  FilesRight'
<1>1. /\ un \in UnType /\ un.at = "write" /\ writer \in WriterType /\ drain \in DrainType
      /\ sink \in SinkType
      /\ UNCHANGED <<drain, sink, disk, restored>>
  BY DEF Types, WriteChunk
<1>2. /\ Chain /\ Ending /\ Placed /\ Ordered /\ Accounted /\ Untimed
      /\ RegularOnly /\ RestoredIsWritten /\ Quiet
  BY <1>1 DEF FilesRight, Content, Writing
<1>3. CASE \/ Cancelled /\ UnpackerThrows("cancelled")
           \/ writer.error # "none" /\ UnpackerThrows(writer.error)
  BY <1>1, <1>3, ThrowingKeepsFiles DEF WriterType, Errors
<1>4. ASSUME un'.file = un.file, un'.at \in {"write", "enqueue", "close"},
             writer'.error = writer.error, Chain', Ending'
      PROVE  FilesRight'
  <2>1. Placed' /\ Ordered' /\ Accounted' /\ Untimed'
    BY <1>1, <1>2, <1>4 DEF Placed, Ordered, Accounted, Holds, Untimed
  <2>2. Busy' <=> Busy
    BY <1>1 DEF Busy
  <2>3. Quiet'
    BY <1>1, <1>2, <1>4, <2>2 DEF Quiet, Writing
  <2>4. QED
    BY <1>1, <1>2, <1>4, <2>1, <2>3 DEF FilesRight, Content, Restoring, RegularOnly,
                                       RestoredIsWritten
<1>5. CASE /\ writer' = writer /\ un'.at = "close" /\ un'.file = un.file /\ un'.chunk = un.chunk
  <2>1. Chain' /\ Ending'
    BY <1>1, <1>2, <1>5 DEF Chain, Ending, Finishing, DrainedWell
  <2>2. QED
    BY <1>4, <1>5, <2>1
<1>6. CASE /\ writer'.current = Append(writer.current, un.chunk + 1)
           /\ writer'.pending = writer.pending /\ writer'.closing = writer.closing
           /\ writer'.error = writer.error
           /\ un'.file = un.file /\ un'.chunk = un.chunk + 1
           /\ un'.at \in {"enqueue", "write"}
  <2>1. /\ writer.current \in Seq(Nat) /\ writer.pending \in Seq(Seq(Nat)) /\ un.chunk \in Nat
        /\ drain.slot \in Seq(Nat) /\ sink.buffer[sink.active] \in Seq(Nat) /\ sink.size \in Nat
    BY <1>1 DEF WriterType, UnType, DrainType, SinkType
  <2>2. Chain'
    BY <1>1, <1>2, <1>6, <2>1, ChainWrite DEF Chain
  <2>3. writer'.current # <<>>
    <3>1. un.chunk + 1 \in Nat
      BY <2>1
    <3>2. QED
      BY <1>6, <2>1, <3>1, Appends
  <2>4. Ending'
    BY <1>1, <1>2, <1>6, <2>3 DEF Ending, Finishing, DrainedWell
  <2>5. QED
    BY <1>4, <1>6, <2>2, <2>4
<1>7. QED
  BY <1>3, <1>5, <1>6, WriteChunkEffect

LEMMA SendingKeepsFiles ==
  ASSUME Types, Threads, Bounded, FilesRight, UNCHANGED <<sink, disk, restored>>,
         un.at \in {"enqueue", "close"},
         NEW closing \in BOOLEAN, NEW then \in {"write", "await"}, SendSlot(closing, then),
         closing <=> then = "await",
         writer.error = "none" => writer.current # <<>>
  PROVE  FilesRight'
<1>1. /\ un \in UnType /\ writer \in WriterType /\ drain \in DrainType /\ sink \in SinkType
  BY DEF Types
<1>2. /\ Chain /\ Ending /\ Placed /\ Ordered /\ Accounted /\ Untimed
      /\ RegularOnly /\ RestoredIsWritten /\ Quiet
  BY DEF FilesRight, Content, Writing
<1>3. CASE /\ drain' = drain
           /\ \/ writer.cancelled /\ UnpackerThrows("cancelled")
              \/ writer.error # "none" /\ UnpackerThrows(writer.error)
  BY <1>1, <1>3, ThrowingKeepsFiles DEF WriterType, Errors
<1>4. CASE /\ writer.error = "none" /\ writer'.closing = closing
           /\ writer'.current = <<>> /\ writer'.pending = Append(writer.pending, writer.current)
           /\ writer'.error = writer.error
           /\ drain'.slot = drain.slot /\ drain'.then = drain.then
           /\ drain'.at = IF drain.at = "none" THEN "wait" ELSE drain.at
           /\ un'.at = then /\ un'.file = un.file /\ un'.chunk = un.chunk
  <2>1. /\ writer.current \in Seq(Nat) /\ writer.pending \in Seq(Seq(Nat)) /\ un.chunk \in Nat
        /\ drain.slot \in Seq(Nat) /\ sink.buffer[sink.active] \in Seq(Nat) /\ sink.size \in Nat
        /\ writer.current # <<>>
    BY <1>1, <1>4 DEF WriterType, UnType, DrainType, SinkType
  <2>2. Chain'
    BY <1>2, <1>4, <2>1, ChainSend DEF Chain
  <2>3. ~Finishing /\ ~Finishing'
    <3>1. ~writer.closing
      BY <1>2 DEF Ending
    <3>2. ~Finishing
      BY <1>2, <3>1 DEF Ending
    <3>3. QED
      BY <1>4, <3>2 DEF Finishing, DrainedWell
  <2>4. Ending'
    BY <1>2, <1>4, <2>3 DEF Ending, Finishing, DrainedWell
  <2>5. Placed' /\ Ordered' /\ Accounted' /\ Untimed'
    BY <1>2, <1>4 DEF Placed, Ordered, Accounted, Holds, Untimed
  <2>6. Quiet'
    <3>1. un.file \in Regular
      BY DEF Threads, UnpackerPlace, Writing
    <3>2. QED
      BY <1>2, <1>4, <3>1 DEF Quiet, Writing, Untimed
  <2>7. QED
    BY <1>2, <1>4, <2>2, <2>4, <2>5, <2>6 DEF FilesRight, Content, Restoring, RegularOnly,
                                             RestoredIsWritten
<1>5. QED
  BY <1>3, <1>4, SendSlotEffect

LEMMA EnqueueKeepsFiles ==
  ASSUME Types, Threads, Bounded, FilesRight, NoWaitInClose, Enqueue
  PROVE  FilesRight'
<1>1. /\ un \in UnType /\ un.at = "enqueue" /\ writer \in WriterType
      /\ UNCHANGED <<sink, disk, restored>> /\ SendSlot(writer.closing, un.then)
  BY DEF Types, Enqueue
<1>2. Writing
  BY <1>1 DEF Writing
<1>3. writer.closing = FALSE /\ writer.current # <<>>
  BY <1>1, <1>2 DEF FilesRight, Content, Ending, WriterType
<1>4. un.then = "write"
  BY <1>1 DEF Threads, UnpackerPlace, NoWaitInClose, UnType
<1>5. SendSlot(FALSE, "write")
  BY <1>1, <1>3, <1>4
<1>6. QED
  BY <1>1, <1>3, <1>5, SendingKeepsFiles

LEMMA CloseWriterKeepsFiles ==
  ASSUME Types, Threads, Bounded, FilesRight, NoWaitInClose', CloseWriter
  PROVE  FilesRight'
<1>1. /\ un \in UnType /\ un.at = "close" /\ writer \in WriterType
      /\ UNCHANGED <<sink, disk, restored>>
  BY DEF Types, CloseWriter
<1>2. Writing
  BY <1>1 DEF Writing
<1>3. CASE /\ writer.error = "none" /\ writer.current = <<>> /\ drain' = drain
           /\ writer' = [writer EXCEPT !.closing = TRUE] /\ un' = [un EXCEPT !.at = "await"]
  <2>1. /\ un'.at = "await" /\ un'.file = un.file /\ un'.chunk = un.chunk
        /\ writer'.current = writer.current /\ writer'.pending = writer.pending
        /\ writer'.error = writer.error /\ writer'.closing
    BY <1>1, <1>3 DEF UnType, WriterType
  <2>2. Chain /\ Ending /\ Placed /\ Ordered /\ Accounted /\ Untimed
    BY <1>2 DEF FilesRight, Content
  <2>3. ~writer.closing
    BY <1>1, <2>2 DEF Ending
  <2>4. ~Finishing
    BY <2>2, <2>3 DEF Ending
  <2>5. ~Finishing'
    BY <1>3, <2>1, <2>4 DEF Finishing, DrainedWell
  <2>6. Ending'
    BY <1>1, <1>3, <2>1, <2>2, <2>4, <2>5 DEF Ending, Finishing, DrainedWell
  <2>7. Chain' /\ Placed' /\ Ordered' /\ Accounted' /\ Untimed'
    BY <1>1, <1>3, <2>1, <2>2 DEF Chain, Placed, Ordered, Accounted, Holds, Untimed
  <2>8. Quiet'
    BY <1>1, <1>2, <1>3, <2>1 DEF FilesRight, Quiet, Busy, Writing
  <2>9. QED
    BY <1>1, <2>1, <2>6, <2>7, <2>8
      DEF FilesRight, Content, Restoring, RegularOnly, RestoredIsWritten
<1>4. CASE (writer.error # "none" \/ writer.current # <<>>) /\ SendSlot(TRUE, "await")
  BY <1>1, <1>4, SendingKeepsFiles
<1>5. ~ (un'.at = "enqueue" /\ un'.then = "await")
  BY DEF NoWaitInClose
<1>6. QED
  BY <1>3, <1>4, <1>5, CloseWriterEffect

(* When the writer is done everything it was given is on the disk.         *)
LEMMA DoneIsWhole ==
  ASSUME Types, Threads, Bounded, FilesRight, un.at = "await",
         drain.at = "none" \/ (drain.at = "over" /\ writer.error = "none")
  PROVE  ~Busy /\ {d \in disk : d[1] = un.file} = WholeFile(un.file)
<1>1. /\ un \in UnType /\ sink \in SinkType /\ un.file \in Files /\ un.chunk = Sizes[un.file]
  BY DEF Types, Threads, UnpackerPlace, Writing, Regular
<1>2. Chain /\ Ending /\ Ordered /\ Accounted
  BY DEF FilesRight, Content, Writing
<1>3. writer.error = "none"
  BY DEF Bounded, WriterPlace
<1>4. /\ writer.current = <<>> /\ writer.pending = <<>> /\ drain.slot = <<>>
      /\ sink.buffer[sink.active] = <<>> /\ sink.flight = <<>>
  <2>1. CASE drain.at = "none"
    BY <1>2, <2>1 DEF Ending
  <2>2. CASE DrainedWell
    BY <1>2, <2>2 DEF Ending, Finishing
  <2>3. QED
    BY <1>3, <2>1, <2>2 DEF DrainedWell
<1>5. sink.size = Sizes[un.file] /\ sink.size \in Nat
  <2>1. sink.size \in Nat /\ un.chunk \in Nat
    BY <1>1 DEF SinkType, UnType
  <2>2. QED
    BY <1>1, <1>2, <1>4, <2>1, ChainEmpty DEF Chain
<1>6. Range(sink.flight) = {}
  <2>1. DOMAIN <<>> = {}
    OBVIOUS
  <2>2. QED
    BY <1>4, <2>1 DEF Range
<1>7. ~Busy
  <2>1. \A s \in Slots : sink.op[s] = "idle"
    BY <1>6 DEF Bounded, Ring
  <2>2. QED
    BY <2>1 DEF Busy
<1>8. \A i \in 1 .. sink.size : <<un.file, i, i>> \in disk
  BY <1>2, <1>3, <1>6 DEF Accounted
<1>9. WholeFile(un.file) = {<<un.file, i, i>> : i \in 1 .. sink.size}
  BY <1>5 DEF WholeFile, Chunks
<1>10. \A d \in disk : d[1] = un.file => d \in WholeFile(un.file)
  BY <1>2, <1>9 DEF Ordered
<1>11. \A d \in WholeFile(un.file) : d \in disk /\ d[1] = un.file
  BY <1>8, <1>9
<1>12. QED
  BY <1>7, <1>10, <1>11

LEMMA AwaitDrainKeepsFiles ==
  ASSUME Types, Threads, Bounded, FilesRight, AwaitDrain
  PROVE  FilesRight'
<1>1. un.at = "await" /\ UNCHANGED files
  BY DEF AwaitDrain
<1>2. CASE \E e \in Errors : UnpackerThrows(e)
  BY <1>1, <1>2, ThrowingKeepsFiles DEF files
<1>3. CASE /\ un'.at = "restore" /\ un'.file = un.file
           /\ drain.at = "none" \/ (drain.at = "over" /\ writer.error = "none")
  <2>1. ~Busy /\ {d \in disk : d[1] = un.file} = WholeFile(un.file)
    BY <1>1, <1>3, DoneIsWhole
  <2>2. QED
    BY <1>1, <1>3, <2>1, LeavingKeepsFiles DEF files
<1>4. QED
  BY <1>2, <1>3, AwaitDrainEffect

LEMMA RestoreKeepsFiles ==
  ASSUME Types, FilesRight, Restore
  PROVE  FilesRight'
<1>1. un \in UnType /\ un.at = "restore" /\ UNCHANGED <<writer, drain, sink, disk>>
  BY DEF Types, Restore
<1>2. un'.at \in {"check", "handling"} /\ restored' \subseteq restored \cup {un.file}
  BY <1>1, RestoreEffect, UnpackerThrown DEF Errors
<1>3. ~Busy
  BY <1>1 DEF FilesRight, Quiet, Writing
<1>4. ~Busy'
  BY <1>1, <1>3 DEF Busy
<1>5. RestoredIsWritten'
  <2>1. \A f \in restored \cup {un.file} : {d \in disk : d[1] = f} = WholeFile(f)
    BY <1>1 DEF FilesRight, RestoredIsWritten, Restoring
  <2>2. QED
    BY <1>1, <1>2, <2>1 DEF RestoredIsWritten, WholeFile, Chunks
<1>6. QED
  BY <1>1, <1>2, <1>4, <1>5 DEF FilesRight, Content, Writing, Quiet, Restoring, RegularOnly

(***************************************************************************)
(* The drain loop.                                                         *)
(***************************************************************************)
LEMMA DrainingKeepsFiles ==
  ASSUME FilesRight, Busy, UNCHANGED <<un, disk, restored>>,
         Writing => Chain' /\ Ending' /\ Placed' /\ Ordered' /\ Accounted'
  PROVE  FilesRight'
<1>1. Content'
  BY DEF FilesRight, Content, Writing, Untimed
<1>2. Quiet'
  BY DEF FilesRight, Quiet, Writing
<1>3. QED
  BY <1>1, <1>2 DEF FilesRight, Restoring, RegularOnly, RestoredIsWritten

(* When the loop fails only the order on the disk is left to keep.         *)
LEMMA FailingKeepsFiles ==
  ASSUME FilesRight, Busy, UNCHANGED <<un, disk, restored>>,
         writer'.error # "none", drain'.at = "over", drain'.slot = drain.slot,
         writer'.current = writer.current, writer'.pending = writer.pending,
         writer'.closing = writer.closing,
         sink'.size = sink.size, sink'.active = sink.active, sink'.buffer = sink.buffer,
         sink'.place = sink.place, Range(sink'.flight) \subseteq Range(sink.flight)
  PROVE  FilesRight'
<1>1. SUFFICES ASSUME Writing
               PROVE  Chain' /\ Ending' /\ Placed' /\ Ordered' /\ Accounted'
  BY DrainingKeepsFiles
<1>2. Chain /\ Ending /\ Placed /\ Ordered /\ Accounted
  BY <1>1 DEF FilesRight, Content
<1>3. Chain' /\ Placed' /\ Ordered' /\ Accounted'
  BY <1>2 DEF Chain, Placed, Ordered, Accounted
<1>4. ~Finishing' /\ ~DrainedWell'
  BY DEF Finishing, DrainedWell
<1>5. QED
  BY <1>2, <1>3, <1>4 DEF Ending

(* When the sink is left alone its part of the content is kept.            *)
LEMMA SinkKept ==
  ASSUME Placed, Ordered, Accounted, UNCHANGED <<un, sink, disk>>, writer'.error = writer.error
  PROVE  Placed' /\ Ordered' /\ Accounted'
BY DEF Placed, Ordered, Accounted, Holds

LEMMA TakeSlotKeepsFiles ==
  ASSUME Types, Threads, Bounded, FilesRight, TakeSlot
  PROVE  FilesRight'
<1>1. /\ Kinds /\ un \in UnType /\ drain.at = "wait" /\ UNCHANGED <<un, sink, disk, restored>>
      /\ Busy
  BY DEF Types, Kinds, TakeSlot, Busy
<1>2. writer.error = "none"
  BY <1>1 DEF Bounded, WriterPlace
<1>3. CASE writer'.error = "cancelled" /\ drain'.at = "over" /\ drain'.slot = drain.slot
           /\ writer'.pending = writer.pending
  BY <1>1, <1>3, TakeSlotEffect, FailingKeepsFiles
<1>4. ASSUME writer'.error = writer.error, Writing, Chain', Ending'
      PROVE  FilesRight'
  <2>1. Placed' /\ Ordered' /\ Accounted'
    BY <1>1, <1>4, SinkKept DEF FilesRight, Content
  <2>2. QED
    BY <1>1, <1>4, <2>1, DrainingKeepsFiles
<1>5. CASE ~Writing
  BY <1>1, <1>5, DrainingKeepsFiles
<1>6. ASSUME Writing, writer.pending # <<>>, writer'.pending = Tail(writer.pending),
             writer'.error = writer.error, drain'.at = "look",
             drain'.slot = Head(writer.pending)
      PROVE  FilesRight'
  <2>1. Chain /\ Ending
    BY <1>6 DEF FilesRight, Content
  <2>2. /\ writer.current \in Seq(Nat) /\ writer.pending \in Seq(Seq(Nat)) /\ un.chunk \in Nat
        /\ sink.buffer[sink.active] \in Seq(Nat) /\ sink.size \in Nat
        /\ drain.slot = <<>>
    BY <1>1, <2>1 DEF Kinds, WriterType, UnType, DrainType, SinkType, Ending
  <2>3. writer'.current = writer.current /\ writer'.closing = writer.closing
    BY <1>1, TakeSlotEffect
  <2>4. Chain' /\ drain'.slot # <<>>
    BY <1>1, <1>6, <2>1, <2>2, <2>3, ChainTake DEF Chain
  <2>5. ~Finishing'
    BY <1>6, <2>4 DEF Finishing, DrainedWell
  <2>6. Ending'
    BY <1>1, <1>6, <2>1, <2>3, <2>5 DEF Ending, DrainedWell
  <2>7. QED
    BY <1>4, <1>6, <2>4, <2>6
<1>7. ASSUME Writing, writer.pending = <<>>, writer.closing, writer' = writer,
             drain'.at = "look", drain'.slot = drain.slot
      PROVE  FilesRight'
  <2>1. Chain /\ Ending
    BY <1>7 DEF FilesRight, Content
  <2>2. drain.slot = <<>>
    BY <1>1, <2>1 DEF Ending
  <2>3. Chain'
    BY <1>1, <1>7, <2>1 DEF Chain
  <2>4. Ending'
    BY <1>1, <1>7, <2>1, <2>2 DEF Ending, DrainedWell
  <2>5. QED
    BY <1>4, <1>7, <2>3, <2>4
<1>8. QED
  BY <1>1, <1>3, <1>5, <1>6, <1>7, TakeSlotEffect

LEMMA LookKeepsFiles ==
  ASSUME Types, Threads, Bounded, FilesRight, Look
  PROVE  FilesRight'
<1>1. Kinds /\ drain.at = "look" /\ UNCHANGED <<un, sink, disk, restored>> /\ Busy
  BY DEF Types, Kinds, Look, Busy
<1>2. CASE writer'.error = "cancelled" /\ drain'.at = "over"
  BY <1>1, <1>2, LookEffect, FailingKeepsFiles
<1>3. CASE ~Writing
  BY <1>1, <1>3, DrainingKeepsFiles
<1>4. CASE /\ Writing /\ writer' = writer /\ drain'.slot = drain.slot
           /\ \/ drain.slot # <<>> /\ drain'.at = "fill"
              \/ drain.slot = <<>> /\ drain'.at = "submit" /\ drain'.then = "all"
  <2>1. Chain /\ Ending /\ Placed /\ Ordered /\ Accounted
    BY <1>4 DEF FilesRight, Content
  <2>2. Chain' /\ Placed' /\ Ordered' /\ Accounted'
    BY <1>1, <1>4, <2>1, SinkKept DEF Chain
  <2>3. Finishing' => Finishing
    BY <1>1, <1>4 DEF Finishing, DrainedWell
  <2>4. Ending'
    BY <1>1, <1>4, <2>1, <2>3 DEF Ending, DrainedWell
  <2>5. QED
    BY <1>1, <2>2, <2>4, DrainingKeepsFiles
<1>5. QED
  BY <1>1, <1>2, <1>3, <1>4, LookEffect

LEMMA FillKeepsFiles ==
  ASSUME Types, Threads, Bounded, FilesRight, Fill
  PROVE  FilesRight'
<1>1. /\ Kinds /\ un \in UnType /\ drain.at = "fill" /\ UNCHANGED <<un, writer, disk, restored>>
      /\ Busy
  BY DEF Types, Kinds, Fill, Busy
<1>2. CASE ~Writing
  BY <1>1, <1>2, DrainingKeepsFiles
<1>3. CASE Writing
  <2>1. Chain /\ Ending /\ Placed /\ Ordered /\ Accounted
    BY <1>3 DEF FilesRight, Content
  <2>2. CASE drain.slot = <<>> /\ drain'.at = "wait" /\ drain'.slot = drain.slot /\ sink' = sink
    <3>1. Chain' /\ Placed' /\ Ordered' /\ Accounted'
      BY <1>1, <2>1, <2>2, SinkKept DEF Chain
    <3>2. ~Finishing'
      BY <2>2 DEF Finishing, DrainedWell
    <3>3. Ending'
      BY <1>1, <2>1, <2>2, <3>2 DEF Ending, DrainedWell
    <3>4. QED
      BY <1>1, <3>1, <3>3, DrainingKeepsFiles
  <2>3. CASE /\ sink' = sink /\ drain'.at = "submit" /\ drain'.then = "fill"
             /\ drain'.slot = drain.slot
    <3>1. Chain' /\ Placed' /\ Ordered' /\ Accounted'
      BY <1>1, <2>1, <2>3, SinkKept DEF Chain
    <3>2. ~Finishing'
      BY <2>3 DEF Finishing, DrainedWell
    <3>3. Ending'
      BY <1>1, <2>1, <2>3, <3>2 DEF Ending, DrainedWell
    <3>4. QED
      BY <1>1, <3>1, <3>3, DrainingKeepsFiles
  <2>4. CASE /\ drain.slot # <<>> /\ drain'.slot = Tail(drain.slot) /\ drain'.then = "fill"
             /\ drain'.at \in {"submit", "fill"}
             /\ sink'.buffer[sink.active] = Append(sink.buffer[sink.active], Head(drain.slot))
             /\ \A s \in Slots : s # sink.active => sink'.buffer[s] = sink.buffer[s]
             /\ sink'.place = sink.place /\ sink'.op = sink.op /\ sink'.active = sink.active
             /\ sink'.flight = sink.flight /\ sink'.size = sink.size
    <3>1. /\ writer.current \in Seq(Nat) /\ writer.pending \in Seq(Seq(Nat)) /\ un.chunk \in Nat
          /\ sink.buffer[sink.active] \in Seq(Nat) /\ sink.size \in Nat /\ drain.slot \in Seq(Nat)
      BY <1>1 DEF Kinds, WriterType, UnType, DrainType, SinkType
    <3>2. Chain'
      <4>1. Chained(writer.pending, writer.current, Tail(drain.slot),
                    Append(sink.buffer[sink.active], Head(drain.slot)), sink.size, un.chunk)
        BY <2>1, <2>4, <3>1, ChainFill DEF Chain
      <4>2. QED
        BY <1>1, <2>4, <4>1 DEF Chain
    <3>3. ~Finishing'
      BY <2>4 DEF Finishing, DrainedWell
    <3>4. Ending'
      BY <1>1, <2>1, <2>4, <3>3 DEF Ending, DrainedWell
    <3>5. \A s \in Range(sink.flight) : sink'.buffer[s] = sink.buffer[s]
      <4>1. sink.active \notin Range(sink.flight) /\ sink.flight \in Seq(Slots)
        BY <1>1 DEF Bounded, Ring, Kinds, SinkType
      <4>2. Range(sink.flight) \subseteq Slots
        BY <4>1 DEF Range
      <4>3. QED
        BY <2>4, <4>1, <4>2
    <3>6. Placed' /\ Ordered' /\ Accounted'
      BY <1>1, <2>1, <2>4, <3>5 DEF Placed, Ordered, Accounted, Holds
    <3>7. QED
      BY <1>1, <3>2, <3>4, <3>6, DrainingKeepsFiles
  <2>5. QED
    BY <1>1, <2>2, <2>3, <2>4, FillEffect
<1>4. QED
  BY <1>2, <1>3

LEMMA SubmitKeepsFiles ==
  ASSUME Types, Threads, Bounded, FilesRight, Submit
  PROVE  FilesRight'
<1>1. /\ Kinds /\ drain.at = "submit" /\ UNCHANGED <<un, sink, disk, restored>> /\ Busy
      /\ drain.then # "none"
  BY DEF Types, Kinds, Submit, Busy, Bounded, WriterPlace
<1>2. CASE writer'.error = "cancelled" /\ drain'.at = "over"
  BY <1>1, <1>2, SubmitEffect, FailingKeepsFiles
<1>3. CASE ~Writing
  BY <1>1, <1>3, DrainingKeepsFiles
<1>4. CASE /\ Writing /\ writer' = writer /\ drain'.slot = drain.slot /\ drain'.then = drain.then
           /\ drain'.at = IF sink.buffer[sink.active] = <<>> THEN drain.then
                          ELSE IF Len(sink.flight) >= MaxOps THEN "reap" ELSE "issue"
  <2>1. Chain /\ Ending /\ Placed /\ Ordered /\ Accounted /\ drain.then \in {"fill", "all"}
    BY <1>1, <1>4 DEF FilesRight, Content, Kinds, DrainType
  <2>2. Chain' /\ Placed' /\ Ordered' /\ Accounted'
    BY <1>1, <1>4, <2>1, SinkKept DEF Chain
  <2>3. Finishing' => Finishing
    BY <1>1, <1>4, <2>1 DEF Finishing, DrainedWell
  <2>4. Ending'
    BY <1>1, <1>4, <2>1, <2>3 DEF Ending, DrainedWell
  <2>5. QED
    BY <1>1, <2>2, <2>4, DrainingKeepsFiles
<1>5. QED
  BY <1>1, <1>2, <1>3, <1>4, SubmitEffect

LEMMA IssueKeepsFiles ==
  ASSUME Types, Threads, Bounded, FilesRight, Issue
  PROVE  FilesRight'
<1>1. /\ Kinds /\ un \in UnType /\ drain.at = "issue" /\ UNCHANGED <<un, disk, restored>>
      /\ Busy /\ drain.then # "none" /\ Ring
  BY DEF Types, Kinds, Issue, Busy, Bounded, WriterPlace
<1>2. /\ sink.available # <<>> /\ Head(sink.available) # sink.active
      /\ Head(sink.available) \in Range(sink.available)
  BY <1>1, RingHasRoom
<1>3. CASE sink' = sink /\ drain'.at = "over" /\ writer'.error \in {"own", "cancelled"}
  BY <1>1, <1>2, <1>3, IssueEffect, FailingKeepsFiles
<1>4. CASE ~Writing
  BY <1>1, <1>4, DrainingKeepsFiles
<1>5. CASE /\ Writing /\ drain'.at = drain.then /\ writer' = writer
           /\ drain'.slot = drain.slot /\ drain'.then = drain.then
           /\ sink'.place = [sink.place EXCEPT ![sink.active] = sink.size]
           /\ sink'.op = [sink.op EXCEPT ![sink.active] = "pending"]
           /\ sink'.buffer = [sink.buffer EXCEPT ![Head(sink.available)] = <<>>]
           /\ sink'.size = sink.size + Len(sink.buffer[sink.active])
           /\ sink'.flight = Append(sink.flight, sink.active)
           /\ sink'.active = Head(sink.available)
  <2>0. PICK a \in Slots : a = sink.active
    BY <1>1 DEF Kinds, SinkType
  <2> DEFINE h == Head(sink.available)
             q == sink.buffer[a]
  <2>1. Chain /\ Ending /\ Placed /\ Ordered /\ Accounted
    BY <1>5 DEF FilesRight, Content
  <2>2. /\ a \in Slots /\ h \in Slots /\ h # a
        /\ sink.flight \in Seq(Slots) /\ Distinct(sink.flight) /\ a \notin Range(sink.flight)
        /\ sink.place \in [Slots -> Nat] /\ sink.op \in [Slots -> Outcomes]
        /\ sink.buffer \in [Slots -> Seq(Nat)] /\ sink.size \in Nat
    <3>1. sink.available \in Seq(Slots)
      BY <1>1 DEF Kinds, SinkType
    <3>2. QED
      BY <1>1, <1>2, <2>0, <3>1 DEF Kinds, SinkType, Ring
  <2>3. q \in Seq(Nat) /\ Len(q) \in Nat
    BY <2>2
  <2>4. /\ sink'.place[a] = sink.size /\ sink'.buffer[a] = q /\ sink'.op[a] = "pending"
        /\ sink'.buffer[sink'.active] = <<>> /\ sink'.size = sink.size + Len(q)
    BY <1>5, <2>0, <2>2
  <2>5. /\ Range(sink'.flight) = Range(sink.flight) \cup {a} /\ Range(sink.flight) \subseteq Slots
    <3>1. Range(sink'.flight) = Range(sink.flight) \cup {a}
      BY <1>5, <2>0, <2>2, AppendDistinct
    <3>2. Range(sink.flight) \subseteq Slots
      BY <2>2 DEF Range
    <3>3. QED
      BY <3>1, <3>2
  <2>6. \A s \in Range(sink.flight) : /\ s \in Slots /\ sink'.place[s] = sink.place[s]
                                      /\ sink'.op[s] = sink.op[s] /\ sink'.buffer[s] = sink.buffer[s]
    <3>1. h \notin Range(sink.flight)
      BY <1>1, <1>2 DEF Ring
    <3>2. QED
      BY <1>5, <2>0, <2>2, <2>5, <3>1
  <2>7. Chain' /\ Run(q, sink.size)
    <3>1. /\ writer.current \in Seq(Nat) /\ writer.pending \in Seq(Seq(Nat)) /\ un.chunk \in Nat
          /\ drain.slot \in Seq(Nat)
      BY <1>1 DEF Kinds, WriterType, UnType, DrainType
    <3>2. /\ Chained(writer.pending, writer.current, drain.slot, <<>>, sink.size + Len(q), un.chunk)
          /\ Run(q, sink.size)
      BY <2>0, <2>1, <2>2, <2>3, <3>1, ChainIssue DEF Chain
    <3>3. QED
      BY <1>1, <1>5, <2>4, <3>2 DEF Chain
  <2>8. Ending'
    <3>1. drain.then \in {"fill", "all"}
      BY <1>1 DEF Kinds, DrainType
    <3>2. Finishing' => Finishing
      BY <1>1, <1>5, <3>1 DEF Finishing, DrainedWell
    <3>3. QED
      BY <1>1, <1>5, <2>1, <2>4, <3>1, <3>2 DEF Ending, DrainedWell
  <2> HIDE DEF q, h
  <2>9. \A s \in Range(sink.flight) : Len(sink.buffer[s]) \in Nat /\ sink.place[s] \in Nat
    BY <2>2, <2>6
  <2>10. Placed'
    <3>1. ASSUME NEW s \in Range(sink.flight)
          PROVE  Run(sink'.buffer[s], sink'.place[s])
                 /\ sink'.place[s] + Len(sink'.buffer[s]) <= sink'.size
      <4>1. sink.place[s] + Len(sink.buffer[s]) <= sink.size /\ Run(sink.buffer[s], sink.place[s])
        BY <2>1 DEF Placed
      <4>2. QED
        BY <2>2, <2>3, <2>4, <2>6, <2>9, <4>1
    <3>2. Run(sink'.buffer[a], sink'.place[a]) /\ sink'.place[a] + Len(sink'.buffer[a]) <= sink'.size
      BY <2>2, <2>3, <2>4, <2>7
    <3>3. QED
      BY <2>5, <3>1, <3>2 DEF Placed
  <2>11. Ordered'
    <3>1. 1 .. sink.size \subseteq 1 .. sink'.size
      BY <2>2, <2>3, <2>4
    <3>2. QED
      BY <1>1, <2>1, <3>1 DEF Ordered
  <2>12. Accounted'
    <3>1. SUFFICES ASSUME writer.error = "none", NEW i \in 1 .. sink'.size
                   PROVE  \/ <<un.file, i, i>> \in disk
                          \/ \E s \in Range(sink'.flight) : sink'.op[s] # "written" /\ Holds(s, i)'
      BY <1>1, <1>5 DEF Accounted
    <3>2. CASE i \in 1 .. sink.size
      <4>1. CASE <<un.file, i, i>> \in disk
        BY <4>1
      <4>2. CASE \E s \in Range(sink.flight) : sink.op[s] # "written" /\ Holds(s, i)
        <5>1. PICK s \in Range(sink.flight) : sink.op[s] # "written" /\ Holds(s, i)
          BY <4>2
        <5>2. sink'.op[s] # "written" /\ Holds(s, i)'
          BY <2>6, <5>1 DEF Holds
        <5>3. QED
          BY <2>5, <5>1, <5>2
      <4>3. QED
        BY <2>1, <3>1, <3>2, <4>1, <4>2 DEF Accounted
    <3>3. CASE i \notin 1 .. sink.size
      <4>1. i \in Nat /\ sink.size < i /\ i <= sink.size + Len(q)
        BY <2>2, <2>3, <2>4, <3>3
      <4>2. Holds(a, i)'
        BY <2>4, <4>1 DEF Holds
      <4>3. QED
        BY <2>4, <2>5, <4>2
    <3>4. QED
      BY <3>2, <3>3
  <2>13. QED
    BY <1>1, <2>7, <2>8, <2>10, <2>11, <2>12, DrainingKeepsFiles
<1>6. QED
  BY <1>1, <1>2, <1>3, <1>4, <1>5, IssueEffect

LEMMA WaitKeepsFiles ==
  ASSUME Types, Threads, Bounded, FilesRight, UNCHANGED <<un, disk, restored>>,
         NEW then \in {"issue", "all"}, WaitForOne(then), sink.flight # <<>>,
         \/ drain.at = "reap" /\ then = "issue"
         \/ drain.at = "all" /\ then = "all"
  PROVE  FilesRight'
<1>1. Kinds /\ un \in UnType /\ Busy /\ Ring
  BY DEF Types, Kinds, Busy, Bounded
<1> DEFINE h == Head(sink.flight)
<1>2. /\ sink.flight \in Seq(Slots) /\ Distinct(sink.flight)
      /\ sink.op \in [Slots -> Outcomes] /\ writer.error = "none"
  BY <1>1 DEF Kinds, SinkType, Ring, Bounded, WriterPlace
<1>3. h \in Slots /\ Range(Tail(sink.flight)) = Range(sink.flight) \ {h}
  BY <1>2, TailDistinct
<1>4. /\ writer'.current = writer.current /\ writer'.closing = writer.closing
      /\ writer'.pending = writer.pending /\ drain'.slot = drain.slot /\ drain'.then = drain.then
      /\ sink'.buffer = sink.buffer /\ sink'.place = sink.place /\ sink'.size = sink.size
      /\ sink'.active = sink.active /\ sink'.flight = Tail(sink.flight)
      /\ sink'.op = [sink.op EXCEPT ![h] = "idle"]
      /\ \/ sink.op[h] = "written" /\ writer' = writer /\ drain'.at = then
         \/ drain'.at = "over" /\ writer'.error \in {"own", "cancelled"}
  BY <1>1, WaitForOneEffect
<1>5. CASE drain'.at = "over" /\ writer'.error \in {"own", "cancelled"}
  BY <1>1, <1>3, <1>4, <1>5, FailingKeepsFiles
<1>6. CASE ~Writing
  BY <1>1, <1>6, DrainingKeepsFiles
<1>7. CASE Writing /\ sink.op[h] = "written" /\ writer' = writer /\ drain'.at = then
  <2>1. Chain /\ Ending /\ Placed /\ Ordered /\ Accounted
    BY <1>7 DEF FilesRight, Content
  <2>2. Chain'
    BY <1>4, <2>1 DEF Chain
  <2>3. Finishing' => Finishing
    BY <1>4, <1>7 DEF Finishing, DrainedWell
  <2>4. Ending'
    BY <1>4, <1>7, <2>1, <2>3 DEF Ending, DrainedWell
  <2>5. Range(sink'.flight) = Range(sink.flight) \ {h}
    BY <1>3, <1>4
  <2>6. \A s \in Slots : s # h => sink'.op[s] = sink.op[s]
    BY <1>2, <1>3, <1>4
  <2>7. Range(sink.flight) \subseteq Slots
    BY <1>2 DEF Range
  <2> HIDE DEF h
  <2>8. Placed' /\ Ordered'
    BY <1>4, <2>1, <2>5 DEF Placed, Ordered
  <2>9. Accounted'
    <3>1. ASSUME NEW i \in 1 .. sink.size
          PROVE  \/ <<un.file, i, i>> \in disk
                 \/ \E s \in Range(sink'.flight) : sink'.op[s] # "written" /\ Holds(s, i)'
      <4>1. CASE <<un.file, i, i>> \in disk
        BY <4>1
      <4>2. CASE \E s \in Range(sink.flight) : sink.op[s] # "written" /\ Holds(s, i)
        <5>1. PICK s \in Range(sink.flight) : sink.op[s] # "written" /\ Holds(s, i)
          BY <4>2
        <5>2. s # h
          BY <1>7, <5>1
        <5>3. sink'.op[s] # "written" /\ Holds(s, i)'
          BY <1>4, <2>6, <2>7, <5>1, <5>2 DEF Holds
        <5>4. QED
          BY <2>5, <5>1, <5>2, <5>3
      <4>3. QED
        BY <1>2, <2>1, <4>1, <4>2 DEF Accounted
    <3>2. QED
      BY <1>4, <3>1 DEF Accounted
  <2>10. QED
    BY <1>1, <2>2, <2>4, <2>8, <2>9, DrainingKeepsFiles
<1>8. QED
  BY <1>4, <1>5, <1>6, <1>7

LEMMA FinishSinkKeepsFiles ==
  ASSUME Types, Threads, Bounded, FilesRight, FinishSink
  PROVE  FilesRight'
<1>1. /\ Kinds /\ drain.at = "all" /\ UNCHANGED <<un, disk, restored>> /\ Busy
      /\ writer.error = "none"
  BY DEF Types, Kinds, FinishSink, Busy, Bounded, WriterPlace
<1>2. CASE sink.flight # <<>> /\ WaitForOne("all")
  BY <1>1, <1>2, WaitKeepsFiles
<1>3. CASE sink.flight = <<>> /\ DrainFails("own") /\ sink' = sink
  BY <1>1, <1>3, DrainFailed, FailingKeepsFiles DEF Errors
<1>4. CASE sink.flight = <<>> /\ drain' = [drain EXCEPT !.at = "over"] /\ writer' = writer
           /\ sink' = sink
  <2>1. drain'.at = "over" /\ drain'.slot = drain.slot /\ drain'.then = drain.then
    BY <1>1, <1>4, DrainMoved DEF DrainPlaces
  <2>2. CASE ~Writing
    BY <1>1, <2>2, DrainingKeepsFiles
  <2>3. CASE Writing
    <3>1. Chain /\ Ending /\ Placed /\ Ordered /\ Accounted /\ Finishing
      BY <1>1, <2>3 DEF FilesRight, Content, Finishing
    <3>2. Chain' /\ Placed' /\ Ordered' /\ Accounted'
      BY <1>1, <1>4, <2>1, <3>1, SinkKept DEF Chain
    <3>3. Ending'
      BY <1>1, <1>4, <2>1, <3>1 DEF Ending
    <3>4. QED
      BY <1>1, <3>2, <3>3, DrainingKeepsFiles
  <2>4. QED
    BY <2>2, <2>3
<1>5. QED
  BY <1>2, <1>3, <1>4 DEF FinishSink

LEMMA DrainStepKeepsFiles ==
  ASSUME Types, Threads, Bounded, FilesRight, DrainStep
  PROVE  FilesRight'
<1>1. CASE Reap
  <2>1. drain.at = "reap" /\ WaitForOne("issue") /\ UNCHANGED <<un, disk, restored>>
    BY <1>1 DEF Reap
  <2>2. sink.flight # <<>>
    BY <2>1 DEF Bounded, Ring
  <2>3. QED
    BY <2>1, <2>2, WaitKeepsFiles
<1>2. QED
  BY <1>1, TakeSlotKeepsFiles, LookKeepsFiles, FillKeepsFiles, SubmitKeepsFiles, IssueKeepsFiles,
     FinishSinkKeepsFiles DEF DrainStep

(***************************************************************************)
(* The system completes an operation; the cancellation comes to the sink   *)
(* and to the writer.                                                      *)
(***************************************************************************)
LEMMA CompleteKeepsFiles ==
  ASSUME Types, Threads, Bounded, FilesRight, NEW s \in Slots, Complete(s)
  PROVE  FilesRight'
<1>1. /\ Kinds /\ un \in UnType /\ UNCHANGED <<un, writer, drain, restored>> /\ Ring
      /\ sink.op[s] = "pending" /\ Busy
  BY DEF Types, Kinds, Complete, Busy, Bounded
<1>2. /\ sink'.buffer = sink.buffer /\ sink'.place = sink.place /\ sink'.size = sink.size
      /\ sink'.active = sink.active /\ sink'.flight = sink.flight
  BY <1>1, CompleteEffect
<1>3. /\ sink.op \in [Slots -> Outcomes] /\ sink.flight \in Seq(Slots) /\ sink.size \in Nat
      /\ sink.buffer[s] \in Seq(Nat) /\ sink.place[s] \in Nat
      /\ s \in Range(sink.flight)
  BY <1>1 DEF Kinds, SinkType, Ring
<1>4. /\ Quiet /\ RegularOnly /\ RestoredIsWritten /\ un.file \in Regular
      /\ un.file \notin restored /\ un.at # "restore"
  BY <1>1 DEF FilesRight, Quiet, Writing
<1>5. \A r \in Range(sink.flight) : r # s => sink'.op[r] = sink.op[r]
  <2>1. Range(sink.flight) \subseteq Slots
    BY <1>3 DEF Range
  <2>2. QED
    BY <1>1, <1>3, <2>1, CompleteEffect
<1>6. ASSUME disk \subseteq disk', \A d \in disk' \ disk : d[1] = un.file,
             Writing => Ordered' /\ Accounted'
      PROVE  FilesRight'
  <2>1. ASSUME Writing
        PROVE  Chain' /\ Ending' /\ Placed' /\ Untimed'
    <3>1. Chain /\ Ending /\ Placed /\ Untimed
      BY <2>1 DEF FilesRight, Content
    <3>2. QED
      BY <1>1, <1>2, <3>1 DEF Chain, Ending, Finishing, DrainedWell, Placed, Untimed
  <2>2. Content'
    BY <1>1, <1>6, <2>1 DEF Content, Writing
  <2>3. Quiet' /\ Restoring'
    BY <1>1, <1>4 DEF Quiet, Writing, Restoring
  <2>4. RegularOnly'
    BY <1>4, <1>6 DEF RegularOnly
  <2>5. RestoredIsWritten'
    <3>1. ASSUME NEW f \in restored
          PROVE  {d \in disk' : d[1] = f} = WholeFile(f)
      <4>1. f # un.file
        BY <1>4
      <4>2. {d \in disk' : d[1] = f} = {d \in disk : d[1] = f}
        BY <1>6, <4>1
      <4>3. QED
        BY <1>4, <4>2 DEF RestoredIsWritten
    <3>2. QED
      BY <1>1, <3>1 DEF RestoredIsWritten, WholeFile, Chunks
  <2>6. QED
    BY <2>2, <2>3, <2>4, <2>5 DEF FilesRight
<1>7. CASE sink'.op = [sink.op EXCEPT ![s] = "failed"] /\ disk' = disk
  <2>1. ASSUME Writing
        PROVE  Ordered' /\ Accounted'
    <3>1. Ordered /\ Accounted
      BY <2>1 DEF FilesRight, Content
    <3>2. \A r \in Range(sink.flight) : sink.op[r] # "written" => sink'.op[r] # "written"
      BY <1>3, <1>5, <1>7
    <3>3. QED
      BY <1>1, <1>2, <1>7, <3>1, <3>2 DEF Ordered, Accounted, Holds
  <2>2. QED
    BY <1>6, <1>7, <2>1
<1>8. CASE disk' = disk \cup {<<un.file, sink.place[s] + i, sink.buffer[s][i]>> :
                                i \in DOMAIN sink.buffer[s]}
  <2> DEFINE q == sink.buffer[s]
             n == sink.place[s]
             new == {<<un.file, n + i, q[i]>> : i \in DOMAIN q}
  <2>1. disk' = disk \cup new
    BY <1>8
  <2>2. \A d \in new : d[1] = un.file
    OBVIOUS
  <2>3. ASSUME Writing
        PROVE  Ordered' /\ Accounted'
    <3>1. Placed /\ Ordered /\ Accounted
      BY <2>3 DEF FilesRight, Content
    <3>2. Run(q, n) /\ n + Len(q) <= sink.size /\ Len(q) \in Nat /\ DOMAIN q = 1 .. Len(q)
      BY <1>3, <3>1 DEF Placed
    <3>3. \A d \in new : \E i \in 1 .. sink.size : d = <<un.file, i, i>>
      <4>1. ASSUME NEW i \in DOMAIN q
            PROVE  \E j \in 1 .. sink.size : <<un.file, n + i, q[i]>> = <<un.file, j, j>>
        <5>1. /\ q[i] = n + i /\ i \in Nat \ {0} /\ i <= Len(q) /\ Len(q) \in Nat
              /\ n \in Nat /\ n + Len(q) <= sink.size /\ sink.size \in Nat
          BY <1>3, <3>2 DEF Run
        <5>2. n + i \in 1 .. sink.size
          BY ONLY <5>1
        <5>3. QED
          BY <5>1, <5>2
      <4>2. QED
        BY <4>1
    <3>4. Ordered'
      BY <1>1, <1>2, <2>1, <3>1, <3>3 DEF Ordered
    <3>5. ASSUME writer.error = "none", NEW i \in 1 .. sink.size
          PROVE  \/ <<un.file, i, i>> \in disk'
                 \/ \E r \in Range(sink.flight) : sink'.op[r] # "written" /\ Holds(r, i)
      <4>1. CASE <<un.file, i, i>> \in disk
        BY <2>1, <4>1
      <4>2. CASE \E r \in Range(sink.flight) : sink.op[r] # "written" /\ Holds(r, i)
        <5>1. PICK r \in Range(sink.flight) : sink.op[r] # "written" /\ Holds(r, i)
          BY <4>2
        <5>2. CASE r # s
          BY <1>5, <5>1, <5>2
        <5>3. CASE r = s
          <6>1. i \in Nat /\ n < i /\ i <= n + Len(q)
            BY <5>1, <5>3 DEF Holds
          <6>2. i - n \in DOMAIN q /\ n + (i - n) = i
            BY <1>3, <3>2, <6>1
          <6>3. q[i - n] = i
            BY <3>2, <6>2 DEF Run
          <6>4. <<un.file, i, i>> \in new
            BY <6>2, <6>3
          <6>5. QED
            BY <2>1, <6>4
        <5>4. QED
          BY <5>2, <5>3
      <4>3. QED
        BY <3>1, <3>5, <4>1, <4>2 DEF Accounted
    <3>6. Accounted'
      BY <1>1, <1>2, <3>5 DEF Accounted, Holds
    <3>7. QED
      BY <3>4, <3>6
  <2> HIDE DEF new
  <2>4. QED
    BY <1>6, <2>1, <2>2, <2>3
<1>9. QED
  BY <1>1, <1>7, <1>8, CompleteEffect

LEMMA CancelSlotKeepsFiles ==
  ASSUME Types, FilesRight, CancelSlot
  PROVE  FilesRight'
<1>1. /\ Kinds /\ UNCHANGED <<un, drain, disk, restored>>
  BY DEF Types, Kinds, CancelSlot
<1>2. /\ writer'.current = writer.current /\ writer'.pending = writer.pending
      /\ writer'.closing = writer.closing /\ writer'.error = writer.error
      /\ sink'.buffer = sink.buffer /\ sink'.place = sink.place /\ sink'.size = sink.size
      /\ sink'.active = sink.active /\ sink'.flight = sink.flight
      /\ \A s \in Slots : \/ sink'.op[s] = sink.op[s]
                          \/ sink.op[s] = "pending" /\ sink'.op[s] = "aborted"
  BY <1>1, CancelSlotEffect
<1>3. Range(sink.flight) \subseteq Slots
  <2>1. sink.flight \in Seq(Slots)
    BY <1>1 DEF Kinds, SinkType
  <2>2. QED
    BY <2>1 DEF Range
<1>4. ASSUME Writing
      PROVE  Chain' /\ Ending' /\ Placed' /\ Ordered' /\ Accounted' /\ Untimed'
  <2>1. Chain /\ Ending /\ Placed /\ Ordered /\ Accounted /\ Untimed
    BY <1>4 DEF FilesRight, Content
  <2>2. \A s \in Range(sink.flight) : sink.op[s] # "written" => sink'.op[s] # "written"
    BY <1>2, <1>3
  <2>3. Accounted'
    BY <1>1, <1>2, <2>1, <2>2 DEF Accounted, Holds
  <2>4. QED
    BY <1>1, <1>2, <2>1, <2>3 DEF Chain, Ending, Finishing, DrainedWell, Placed, Ordered, Untimed
<1>5. Content'
  BY <1>1, <1>4 DEF Content, Writing
<1>6. Busy' => Busy
  BY <1>1, <1>2 DEF Busy
<1>7. Quiet'
  BY <1>1, <1>6 DEF FilesRight, Quiet, Writing
<1>8. QED
  BY <1>1, <1>5, <1>7 DEF FilesRight, Restoring, RegularOnly, RestoredIsWritten

(***************************************************************************)
(* The inductive invariant.                                                *)
(***************************************************************************)
Base == Types /\ Threads /\ Bounded

LEMMA InitBase ==
  ASSUME Init
  PROVE  Base /\ FilesRight
<1>1. /\ un = [at |-> "done", file |-> 0, chunk |-> 0, then |-> "none", error |-> "none",
               todo |-> <<>>]
      /\ in = [at |-> "done", item |-> 0, error |-> "none", todo |-> <<>>]
  BY DEF Init, Off, NewInput, NewUnpacker
<1>2. Cancelled = FALSE /\ cancel = 0
  BY DEF Init, Cancelled
<1>3. /\ writer = [current |-> <<>>, pending |-> <<>>, closing |-> FALSE, cancelled |-> FALSE,
                   error |-> "none"]
      /\ sink = [buffer |-> [s \in Slots |-> <<>>], place |-> [s \in Slots |-> 0],
                 op |-> [s \in Slots |-> "idle"], active |-> 0,
                 available |-> [i \in 1 .. MaxOps |-> i],
                 flight |-> <<>>, size |-> 0, cancelled |-> FALSE]
      /\ drain = [at |-> "none", slot |-> <<>>, then |-> "none"]
  BY <1>2 DEF Init, NewWriter, NewSink, NoDrain
<1>4. /\ Len(Stream) \in Nat
  BY StreamTyped
<1>5. Types
  <2>1. un \in UnType /\ in \in InType
    BY <1>1, <1>4 DEF UnType, InType, UnPlaces, InPlaces, Errors, Handlings
  <2>2. queue \in QueueType /\ Len(queue.items) = 0
    BY DEF Init, NewQueue, QueueType
  <2>3. writer \in WriterType /\ drain \in DrainType
    BY <1>3 DEF WriterType, DrainType, DrainPlaces, Errors
  <2>4. sink \in SinkType
    <3>1. [i \in 1 .. MaxOps |-> i] \in Seq(Slots)
      <4>1. /\ MaxOps \in Nat /\ \A i \in 1 .. MaxOps : i \in Slots
        BY Parameters
      <4>2. QED
        BY <4>1
    <3>2. 0 \in Slots /\ <<>> \in Seq(Slots) /\ <<>> \in Seq(Nat)
      BY Parameters
    <3>3. QED
      BY <1>3, <3>1, <3>2 DEF SinkType, Outcomes
  <2>5. QED
    BY <1>2, <1>4, <2>1, <2>2, <2>3, <2>4, Parameters DEF Init, Types, Errors, EmitDone
<1>6. Threads
  <2>1. InputPlace /\ UnpackerPlace /\ Records(in) /\ Records(un)
    BY <1>1 DEF InputPlace, UnpackerPlace, Records, Working, Writing
  <2>2. MainPlace
    BY <1>1, Parameters DEF Init, MainPlace
  <2>3. Causes
    BY <1>1, <1>3 DEF Init, NewQueue, Causes
  <2>4. QED
    BY <2>1, <2>2, <2>3 DEF Threads
<1>7. Range(sink.flight) = {}
  <2>1. DOMAIN <<>> = {}
    OBVIOUS
  <2>2. QED
    BY <1>3, <2>1 DEF Range
<1>8. Bounded
  <2> DEFINE av == [i \in 1 .. MaxOps |-> i]
  <2>1. MaxOps \in Nat
    BY Parameters
  <2>2. DOMAIN av = 1 .. MaxOps /\ Len(av) = MaxOps /\ \A i \in 1 .. MaxOps : av[i] = i
    BY <2>1
  <2> HIDE DEF av
  <2>3. Distinct(av) /\ 0 \notin Range(av)
    BY <2>1, <2>2 DEF Distinct, Range
  <2>4. Len(<<>>) = 0 /\ DOMAIN <<>> = {} /\ MaxOps + 0 = MaxOps /\ MaxOps <= MaxOps
    BY <2>1
  <2>5. Distinct(<<>>)
    BY <2>4 DEF Distinct
  <2>6. sink.available = av /\ sink.flight = <<>>
    BY <1>3 DEF av
  <2>7. Len(sink.available) + Len(sink.flight) = MaxOps
    BY <2>2, <2>4, <2>6
  <2>8. Ring
    BY <1>3, <1>7, <2>3, <2>4, <2>5, <2>6, <2>7 DEF Ring
  <2>9. Buffers
    <3>1. \A s \in Slots : sink.buffer[s] = <<>>
      BY <1>3
    <3>2. sink.active \in Slots /\ 0 < BatchSize /\ 0 <= BatchSize
      BY <1>3, Parameters
    <3>3. QED
      BY <2>4, <3>1, <3>2 DEF Buffers
  <2>10. WriterPlace
    <3>1. 0 <= scenario.slot /\ 0 <= scenario.slots
      BY Parameters DEF Init
    <3>2. QED
      BY <1>1, <1>3, <2>4, <3>1 DEF WriterPlace
  <2>11. QED
    BY <2>8, <2>9, <2>10 DEF Bounded
<1>9. FilesRight
  <2>1. ~Writing /\ ~Busy /\ un.at # "restore"
    BY <1>1, <1>3 DEF Writing, Busy
  <2>2. disk = {} /\ restored = {}
    BY DEF Init
  <2>3. QED
    BY <2>1, <2>2 DEF FilesRight, Content, Quiet, Restoring, RegularOnly, RestoredIsWritten
<1>10. QED
  BY <1>5, <1>6, <1>8, <1>9 DEF Base

(* The steps of the unpacker that leave the writer as it is.               *)
LEMMA UnpackerKeepsBounded ==
  ASSUME Types, Threads, Bounded, UnpackerStep
  PROVE  Bounded'
<1>1. un \in UnType /\ UNCHANGED scenario
  BY DEF Types, UnpackerStep, UnpackerChecks, PopTar, Create, WriteChunk, Enqueue, CloseWriter,
         AwaitDrain, Restore, UnpackerHandles, source
<1>2. ASSUME NEW e \in Errors, UnpackerThrows(e)
      PROVE  un'.at = "handling"
  BY <1>1, <1>2, UnpackerThrown
<1>3. CASE UnpackerChecks
  <2>1. un'.at \in {"handling", "create", "pop"}
    <3>1. CASE Cancelled
      BY <1>2, <1>3, <3>1 DEF UnpackerChecks, Errors
    <3>2. CASE ~Cancelled
      BY <1>1, <1>3, <3>2 DEF UnpackerChecks, UnType
    <3>3. QED
      BY <3>1, <3>2
  <2>2. QED
    BY <1>1, <1>3, <2>1, OthersKeepBounded DEF UnpackerChecks, files
<1>4. CASE PopTar
  <2>1. un'.at \in {"handling", "done", "check", "restore"}
    <3>1. CASE queue.items # <<>>
      BY <1>1, <1>4, <3>1 DEF PopTar, UnType
    <3>2. CASE un' = [un EXCEPT !.at = "done"]
      BY <1>1, <3>2 DEF UnType
    <3>3. CASE \E e \in Errors : UnpackerThrows(e)
      BY <1>2, <3>3
    <3>4. QED
      BY <1>4, <3>1, <3>2, <3>3 DEF PopTar, Errors
  <2>2. QED
    BY <1>1, <1>4, <2>1, OthersKeepBounded DEF PopTar, files
<1>5. CASE AwaitDrain
  <2>1. un'.at \in {"handling", "restore"}
    BY <1>2, <1>5, AwaitDrainEffect
  <2>2. QED
    BY <1>1, <1>5, <2>1, OthersKeepBounded DEF AwaitDrain, files
<1>6. CASE Restore
  <2>1. un'.at \in {"handling", "check"}
    BY <1>2, <1>6, RestoreEffect DEF Errors
  <2>2. QED
    BY <1>1, <1>6, <2>1, OthersKeepBounded DEF Restore
<1>7. CASE UnpackerHandles
  <2>1. un.at = "handling" /\ un.todo # <<>> /\ UNCHANGED <<writer, drain, sink>>
    BY <1>7 DEF UnpackerHandles, Handle, Threads, UnpackerPlace, files
  <2>2. un'.at \in {"handling", "done"}
    BY <1>1, <1>7, <2>1, UnpackerHandled DEF UnpackerHandles
  <2>3. QED
    BY <1>1, <2>1, <2>2, OthersKeepBounded
<1>8. QED
  BY <1>3, <1>4, <1>5, <1>6, <1>7, CreateKeepsBounded, WriteChunkKeepsBounded, EnqueueKeepsBounded,
     CloseWriterKeepsBounded DEF UnpackerStep

LEMMA UnpackerKeepsBase ==
  ASSUME Base, UnpackerStep
  PROVE  Base'
BY UnpackerKeepsBounded, UnpackerChecksKeepsThreads, PopTarKeepsThreads, CreateKeepsThreads,
   WriteChunkKeepsThreads, EnqueueKeepsThreads, CloseWriterKeepsThreads, AwaitDrainKeepsThreads,
   RestoreKeepsThreads, UnpackerHandlesKeepsThreads DEF Base, UnpackerStep

LEMMA InputKeepsBase ==
  ASSUME Base, InputStep \/ SourceFails \/ Cancel
  PROVE  Base' /\ UNCHANGED <<un, files>>
<1>1. UNCHANGED <<scenario, un, files>>
  BY DEF InputStep, InputChecks, Read, PushTar, InputHandles, SourceFails, Cancel, source
<1>2. Bounded'
  BY <1>1, OthersKeepBounded DEF Base, files
<1>3. QED
  BY <1>1, <1>2, InputChecksKeepsThreads, ReadKeepsThreads, PushTarKeepsThreads,
     InputHandlesKeepsThreads, SourceFailsKeepsThreads, CancelKeepsThreads DEF Base, InputStep

LEMMA MainKeepsBase ==
  ASSUME Base, MainStep
  PROVE  Base' /\ UNCHANGED files
<1>1. UNCHANGED <<scenario, files>>
  BY DEF MainStep, AwaitTransport, Join, Judge, source
<1>2. un' = un \/ un'.at = "check"
  BY DEF MainStep, AwaitTransport, Start, Join, Judge, NewUnpacker
<1>3. Bounded'
  BY <1>1, <1>2, OthersKeepBounded DEF Base, files
<1>4. QED
  BY <1>1, <1>3, AwaitTransportKeepsThreads, JoinKeepsThreads, JudgeKeepsThreads DEF Base, MainStep

LEMMA StutterKeepsBase ==
  ASSUME Base, UNCHANGED vars
  PROVE  Base' /\ UNCHANGED <<un, files>>
<1>1. UNCHANGED <<scenario, line, got, queue, in, un, writer, drain, sink, disk, restored, main,
                  received, state, report, cancel>>
  BY DEF vars, source, files, outcome
<1>2. Types'
  BY <1>1 DEF Base, Types
<1>3. InputPlace' /\ UnpackerPlace' /\ MainPlace'
  BY <1>1 DEF Base, Threads, InputPlace, UnpackerPlace, Working, Writing, MainPlace
<1>4. Records(in)' /\ Records(un)'
  BY <1>1 DEF Base, Threads, Records, Recorded, Local
<1>5. Causes'
  BY <1>1 DEF Base, Threads, Causes, Cancelled
<1>6. Bounded'
  BY <1>1, OthersKeepBounded DEF Base
<1>7. QED
  BY <1>1, <1>2, <1>3, <1>4, <1>5, <1>6 DEF Base, Threads, files

LEMMA NextKeepsBase ==
  ASSUME Base, [Next]_vars
  PROVE  Base'
<1>1. CASE DrainStep
  BY <1>1, DrainKeepsThreads, DrainKeepsBounded DEF Base
<1>2. CASE \E s \in Slots : Complete(s)
  BY <1>2, CompleteKeepsThreads, CompleteKeepsBounded DEF Base
<1>3. CASE CancelSlot
  BY <1>3, CancelSlotKeepsThreads, CancelSlotKeepsBounded DEF Base
<1>4. CASE Finished \/ UNCHANGED vars
  BY <1>4, StutterKeepsBase DEF Finished
<1>5. QED
  BY <1>1, <1>2, <1>3, <1>4, UnpackerKeepsBase, InputKeepsBase, MainKeepsBase DEF Next

LEMMA NextKeepsFiles ==
  ASSUME Base, FilesRight, NoWaitInClose, NoWaitInClose', [Next]_vars
  PROVE  FilesRight'
<1>1. Types /\ Threads /\ Bounded
  BY DEF Base
<1>2. CASE UnpackerStep
  BY <1>1, <1>2, UnpackerChecksKeepsFiles, PopTarKeepsFiles, CreateKeepsFiles,
     WriteChunkKeepsFiles, EnqueueKeepsFiles, CloseWriterKeepsFiles, AwaitDrainKeepsFiles,
     RestoreKeepsFiles, UnpackerHandlesKeepsFiles DEF UnpackerStep
<1>3. CASE InputStep \/ SourceFails \/ Cancel
  BY <1>3, InputKeepsBase, OthersKeepFiles
<1>4. CASE MainStep
  <2>1. CASE AwaitTransport
    BY <1>1, <2>1, AwaitTransportKeepsFiles
  <2>2. CASE Join \/ Judge
    BY <2>2, OthersKeepFiles DEF Join, Judge
  <2>3. QED
    BY <1>4, <2>1, <2>2 DEF MainStep
<1>5. CASE \E s \in Slots : Complete(s)
  BY <1>1, <1>5, CompleteKeepsFiles
<1>6. CASE Finished \/ UNCHANGED vars
  BY <1>6, StutterKeepsBase, OthersKeepFiles DEF Finished
<1>7. QED
  BY <1>1, <1>2, <1>3, <1>4, <1>5, <1>6, DrainStepKeepsFiles, CancelSlotKeepsFiles DEF Next

(***************************************************************************)
(* Theorems.                                                               *)
(***************************************************************************)

(* The types, the places of the threads and the bounds together are an     *)
(* inductive invariant of the receiving pipeline.                          *)
THEOREM Invariance == Spec => []Base
<1>1. Init => Base
  BY InitBase
<1>2. Base /\ [Next]_vars => Base'
  BY NextKeepsBase
<1>3. QED
  BY <1>1, <1>2, PTL DEF Spec

(* Every variable has its type, and the queue, the slots, the buffers and  *)
(* the operations keep to their bounds, for any sizes of them.             *)
THEOREM TypeCorrect == Spec => []TypeOK
<1>1. Base => TypeOK
  <2>1. SUFFICES ASSUME Base PROVE TypeOK
    OBVIOUS
  <2>2. /\ queue \in QueueType /\ in \in InType /\ un \in UnType /\ writer \in WriterType
        /\ drain \in DrainType /\ sink \in SinkType /\ Types /\ Ring /\ Buffers /\ WriterPlace
    BY <2>1 DEF Base, Types, Bounded
  <2>3. Len(sink.flight) <= MaxOps
    <3>1. Len(sink.available) \in Nat /\ Len(sink.flight) \in Nat /\ MaxOps \in Nat
      BY <2>2, Parameters DEF SinkType
    <3>2. Len(sink.available) + Len(sink.flight) <= MaxOps
      BY <2>2 DEF Ring
    <3>3. \A a, b, m \in Nat : a + b <= m => b <= m
      OBVIOUS
    <3>4. QED
      BY <3>1, <3>2, <3>3
  <2>4. QED
    BY <2>2, <2>3 DEF TypeOK, Types, QueueType, InType, UnType, WriterType, DrainType, SinkType,
                     InPlaces, UnPlaces, DrainPlaces, Outcomes, Buffers, WriterPlace
<1>2. QED
  BY <1>1, Invariance, PTL

(* submit_active_write never fails its two runtime checks: it never fills  *)
(* or gives to the system a buffer that the system still writes, and there *)
(* is always another buffer to go on with.                                 *)
THEOREM SlotsSafe == Spec => []SlotsAreSafe
<1>1. Base => SlotsAreSafe
  <2>1. SUFFICES ASSUME Base PROVE SlotsAreSafe
    OBVIOUS
  <2>2. Kinds /\ Ring /\ sink.active \in Slots
    BY <2>1 DEF Base, Types, Kinds, Bounded, SinkType
  <2>3. sink.op[sink.active] = "idle"
    BY <2>2 DEF Ring
  <2>4. QED
    BY <2>2, <2>3, RingHasRoom DEF SlotsAreSafe
<1>2. QED
  BY <1>1, Invariance, PTL

(***************************************************************************)
(* When close() never has to wait. The writer sends only full slots before *)
(* it is closed, so a file that ends with a full slot, or one that has no  *)
(* more chunks than the slots can take, always finds a place for the rest. *)
(***************************************************************************)
Fits ==
  \A s \in Scenarios, f \in Files :
    \/ \E k \in 0 .. Sizes[f] : Sizes[f] = k * s.slot
    \/ Sizes[f] < s.slot * s.slots

(* Of so many chunks the writer has so many in its current slot, and so    *)
(* many of its full slots wait.                                            *)
Packed(chunks, slot, current, waiting) ==
  \E k \in Nat : chunks = k * slot + current /\ waiting <= k

LEMMA PackedNothing == \A slot \in Nat : Packed(0, slot, 0, 0)
<1>1. \A slot \in Nat : 0 = 0 * slot + 0
  OBVIOUS
<1>2. 0 \in Nat /\ 0 <= 0
  OBVIOUS
<1>3. QED
  BY <1>1, <1>2 DEF Packed

LEMMA PackedOneMore ==
  ASSUME NEW t \in Nat, NEW slot \in Nat, NEW c \in Nat, NEW w \in Nat, Packed(t, slot, c, w)
  PROVE  Packed(t + 1, slot, c + 1, w)
<1>1. PICK k \in Nat : t = k * slot + c /\ w <= k
  BY DEF Packed
<1>2. \A m \in Nat : t = m + c => t + 1 = m + (c + 1)
  OBVIOUS
<1>3. k * slot \in Nat
  OBVIOUS
<1>4. t + 1 = k * slot + (c + 1)
  BY <1>1, <1>2, <1>3
<1>5. QED
  BY <1>1, <1>4 DEF Packed

LEMMA PackedSent ==
  ASSUME NEW t \in Nat, NEW slot \in Nat, NEW w \in Nat, Packed(t, slot, slot, w)
  PROVE  Packed(t, slot, 0, w + 1)
<1>1. PICK k \in Nat : t = k * slot + slot /\ w <= k
  BY DEF Packed
<1>2. (k + 1) * slot = k * slot + slot /\ k * slot \in Nat
  OBVIOUS
<1>3. t = (k + 1) * slot + 0 /\ w + 1 <= k + 1 /\ k + 1 \in Nat
  BY <1>1, <1>2
<1>4. QED
  BY <1>3 DEF Packed

LEMMA PackedTaken ==
  ASSUME NEW t, NEW slot, NEW c, NEW w \in Nat, NEW v \in Nat, v <= w, Packed(t, slot, c, w)
  PROVE  Packed(t, slot, c, v)
<1>1. PICK k \in Nat : t = k * slot + c /\ w <= k
  BY DEF Packed
<1>2. v <= k
  BY <1>1
<1>3. QED
  BY <1>1, <1>2 DEF Packed

(* A part of a slot is left, and all slots wait: the file does not fit.    *)
LEMMA PackedTooMuch ==
  ASSUME NEW t \in Nat, NEW slot \in Nat \ {0}, NEW c \in Nat, NEW w \in Nat, NEW n \in Nat,
         Packed(t, slot, c, w), 0 < c, c < slot, n <= w
  PROVE  /\ \A j \in Nat : t # j * slot
         /\ slot * n <= t
<1>1. PICK k \in Nat : t = k * slot + c /\ w <= k
  BY DEF Packed
<1>2. k * slot \in Nat /\ (k + 1) * slot = k * slot + slot
  OBVIOUS
<1>3. k * slot < t /\ t < (k + 1) * slot
  BY <1>1, <1>2
<1>4. \A a, d \in Nat : (a + d) * slot = a * slot + d * slot /\ a * slot \in Nat /\ d * slot \in Nat
  OBVIOUS
<1>5. \A a, b \in Nat : a <= b => a * slot <= b * slot
  <2>1. SUFFICES ASSUME NEW a \in Nat, NEW b \in Nat, a <= b PROVE a * slot <= b * slot
    OBVIOUS
  <2>2. b - a \in Nat /\ b = a + (b - a)
    BY <2>1
  <2>3. b * slot = a * slot + (b - a) * slot /\ (b - a) * slot \in Nat /\ a * slot \in Nat
    BY <1>4, <2>2
  <2>4. \A x, y \in Nat : x <= x + y
    OBVIOUS
  <2>5. QED
    BY <2>3, <2>4
<1>6. ASSUME NEW j \in Nat, t = j * slot
      PROVE  FALSE
  <2>1. CASE j <= k
    <3>1. j * slot <= k * slot
      BY <1>5, <2>1
    <3>2. QED
      BY <1>2, <1>3, <1>6, <3>1
  <2>2. CASE ~ (j <= k)
    <3>1. k + 1 <= j /\ k + 1 \in Nat
      BY <2>2
    <3>2. (k + 1) * slot <= j * slot /\ (k + 1) * slot \in Nat
      BY <1>4, <1>5, <3>1
    <3>3. QED
      BY <1>3, <1>6, <3>2
  <2>3. QED
    BY <2>1, <2>2
<1>7. slot * n <= t
  <2>1. n <= k
    BY <1>1
  <2>2. n * slot <= k * slot /\ n * slot = slot * n
    BY <1>5, <2>1
  <2>3. n * slot \in Nat
    OBVIOUS
  <2>4. QED
    BY <1>2, <1>3, <2>2, <2>3
<1>8. QED
  BY <1>6, <1>7

Filling ==
  un.at \in {"write", "enqueue", "close"} =>
    /\ Packed(un.chunk, scenario.slot, Len(writer.current), Len(writer.pending))
    /\ un.at = "enqueue" => un.then = "write" /\ Len(writer.current) = scenario.slot

LEMMA Lengths ==
  ASSUME writer \in WriterType, un \in UnType
  PROVE  /\ writer.current \in Seq(Nat) /\ writer.pending \in Seq(Seq(Nat)) /\ un.chunk \in Nat
         /\ Len(writer.current) \in Nat /\ Len(writer.pending) \in Nat
BY DEF WriterType, UnType

LEMMA OthersKeepFilling ==
  ASSUME Types, Filling, UNCHANGED <<scenario, un>>, writer'.current = writer.current,
         \/ writer'.pending = writer.pending
         \/ writer.pending # <<>> /\ writer'.pending = Tail(writer.pending)
  PROVE  Filling'
<1>1. CASE writer'.pending = writer.pending
  BY <1>1 DEF Filling
<1>2. CASE writer.pending # <<>> /\ writer'.pending = Tail(writer.pending)
  <2>1. /\ writer.current \in Seq(Nat) /\ writer.pending \in Seq(Seq(Nat)) /\ un.chunk \in Nat
        /\ Len(writer.current) \in Nat /\ Len(writer.pending) \in Nat
    BY Lengths DEF Types
  <2>2. Len(writer'.pending) = Len(writer.pending) - 1 /\ Len(writer.pending) \in Nat \ {0}
    BY <1>2, <2>1, Heads
  <2>3. \A m \in Nat \ {0} : m - 1 \in Nat /\ m - 1 <= m
    OBVIOUS
  <2>4. Len(writer'.pending) \in Nat /\ Len(writer'.pending) <= Len(writer.pending)
    BY <2>2, <2>3
  <2>5. QED
    BY <2>1, <2>4, PackedTaken DEF Filling
<1>3. QED
  BY <1>1, <1>2

LEMMA SendingKeepsFilling ==
  ASSUME Types, Filling, un.at \in {"enqueue", "close"}, UNCHANGED scenario,
         NEW closing \in BOOLEAN, NEW then \in {"write", "await"}, SendSlot(closing, then),
         then = "write" => un.at = "enqueue"
  PROVE  Filling'
<1>1. un \in UnType /\ writer \in WriterType
  BY DEF Types
<1>2. CASE \E e \in Errors : UnpackerThrows(e)
  BY <1>1, <1>2, UnpackerThrown DEF Filling
<1>3. CASE un'.at = "await"
  BY <1>3 DEF Filling
<1>4. CASE /\ un'.at = "write" /\ un'.chunk = un.chunk /\ un.at = "enqueue"
           /\ writer'.current = <<>> /\ writer'.pending = Append(writer.pending, writer.current)
  <2>1. /\ writer.current \in Seq(Nat) /\ writer.pending \in Seq(Seq(Nat)) /\ un.chunk \in Nat
        /\ Len(writer.current) \in Nat /\ Len(writer.pending) \in Nat
    BY <1>1, Lengths
  <2>2. Len(writer'.pending) = Len(writer.pending) + 1
    BY <1>4, <2>1, Appends
  <2>3. Len(writer'.current) = 0
    BY <1>4
  <2>4. Packed(un.chunk, scenario.slot, scenario.slot, Len(writer.pending))
    BY <1>4 DEF Filling
  <2>5. scenario.slot \in Nat
    BY Parameters DEF Types
  <2>6. Packed(un.chunk, scenario.slot, 0, Len(writer.pending) + 1)
    BY <2>1, <2>4, <2>5, PackedSent
  <2>7. QED
    BY <1>4, <2>2, <2>3, <2>6 DEF Filling
<1>5. QED
  <2>1. UnpackerThrows(writer.error) => \E e \in Errors : UnpackerThrows(e)
    BY <1>1 DEF WriterType
  <2>2. UnpackerThrows("cancelled") => \E e \in Errors : UnpackerThrows(e)
    BY DEF Errors
  <2>3. QED
    BY <1>2, <1>3, <1>4, <2>1, <2>2, SendSlotEffect

LEMMA CreateKeepsFilling ==
  ASSUME Types, Create
  PROVE  Filling'
<1>1. un \in UnType /\ scenario.slot \in Nat /\ UNCHANGED scenario
  BY Parameters DEF Types, Create, source
<1>2. CASE UnpackerThrows("own")
  <2>1. un'.at = "handling"
    BY <1>1, <1>2, UnpackerThrown DEF Errors
  <2>2. QED
    BY <2>1 DEF Filling
<1>3. CASE /\ writer'.current = <<>> /\ writer'.pending = <<>>
           /\ un'.at = "write" /\ un'.chunk = 0
  <2>1. Len(writer'.current) = 0 /\ Len(writer'.pending) = 0
    BY <1>3
  <2>2. QED
    BY <1>1, <1>3, <2>1, PackedNothing DEF Filling
<1>4. QED
  BY <1>2, <1>3, CreateEffect

LEMMA WriteChunkKeepsFilling ==
  ASSUME Types, Filling, WriteChunk
  PROVE  Filling'
<1>1. /\ un \in UnType /\ writer \in WriterType /\ scenario.slot \in Nat /\ UNCHANGED scenario
      /\ un.at = "write"
  BY Parameters DEF Types, WriteChunk, source
<1>2. CASE \E e \in Errors : UnpackerThrows(e)
  BY <1>1, <1>2, UnpackerThrown DEF Filling
<1>3. CASE writer' = writer /\ un'.at = "close" /\ un'.chunk = un.chunk
  BY <1>1, <1>3 DEF Filling
<1>4. CASE /\ writer'.current = Append(writer.current, un.chunk + 1)
           /\ writer'.pending = writer.pending /\ un'.chunk = un.chunk + 1 /\ un'.then = "write"
           /\ un'.at = IF Len(writer.current) + 1 = scenario.slot THEN "enqueue" ELSE "write"
  <2>1. /\ writer.current \in Seq(Nat) /\ writer.pending \in Seq(Seq(Nat)) /\ un.chunk \in Nat
        /\ Len(writer.current) \in Nat /\ Len(writer.pending) \in Nat
    BY <1>1, Lengths
  <2>2. un.chunk + 1 \in Nat
    BY <2>1
  <2>3. Len(writer'.current) = Len(writer.current) + 1
    BY <1>4, <2>1, <2>2, Appends
  <2>4. Packed(un.chunk, scenario.slot, Len(writer.current), Len(writer.pending))
    BY <1>1 DEF Filling
  <2>5. Packed(un.chunk + 1, scenario.slot, Len(writer.current) + 1, Len(writer.pending))
    BY <1>1, <2>1, <2>4, PackedOneMore
  <2>6. QED
    BY <1>1, <1>4, <2>3, <2>5 DEF Filling
<1>5. QED
  <2>1. UnpackerThrows(writer.error) => \E e \in Errors : UnpackerThrows(e)
    BY <1>1 DEF WriterType
  <2>2. UnpackerThrows("cancelled") => \E e \in Errors : UnpackerThrows(e)
    BY DEF Errors
  <2>3. QED
    BY <1>2, <1>3, <1>4, <2>1, <2>2, WriteChunkEffect

LEMMA CloseWriterKeepsFilling ==
  ASSUME Types, Threads, Bounded, Filling, Fits, CloseWriter
  PROVE  Filling'
<1>1. /\ un \in UnType /\ writer \in WriterType /\ scenario \in Scenarios /\ UNCHANGED scenario
      /\ un.at = "close" /\ un.chunk = Sizes[un.file] /\ un.file \in Files
  BY DEF Types, CloseWriter, source, Threads, UnpackerPlace, Writing, Regular
<1>2. /\ Len(writer.current) < scenario.slot
  BY <1>1 DEF Bounded, WriterPlace
<1>3. CASE un' = [un EXCEPT !.at = "await"]
  <2>1. un'.at = "await"
    BY <1>1, <1>3 DEF UnType
  <2>2. QED
    BY <2>1 DEF Filling
<1>4. CASE SendSlot(TRUE, "await")
  BY <1>1, <1>4, SendingKeepsFilling
<1>5. ASSUME writer.current # <<>>, ~ (Len(writer.pending) < scenario.slots)
      PROVE  FALSE
  <2>1. /\ writer.current \in Seq(Nat) /\ writer.pending \in Seq(Seq(Nat)) /\ un.chunk \in Nat
        /\ Len(writer.current) \in Nat /\ Len(writer.pending) \in Nat
    BY <1>1, Lengths
  <2>2. 0 < Len(writer.current)
    BY <1>5, <2>1
  <2>3. scenario.slot \in Nat \ {0} /\ scenario.slots \in Nat
    BY <1>1, Parameters
  <2>4. scenario.slots <= Len(writer.pending)
    BY <1>5, <2>1, <2>3
  <2>5. Packed(un.chunk, scenario.slot, Len(writer.current), Len(writer.pending))
    BY <1>1 DEF Filling
  <2>6. /\ \A j \in Nat : un.chunk # j * scenario.slot
        /\ scenario.slot * scenario.slots <= un.chunk
    BY <1>2, <2>1, <2>2, <2>3, <2>4, <2>5, PackedTooMuch
  <2>7. \/ \E k \in 0 .. Sizes[un.file] : Sizes[un.file] = k * scenario.slot
        \/ Sizes[un.file] < scenario.slot * scenario.slots
    BY <1>1 DEF Fits
  <2>8. \A k \in 0 .. Sizes[un.file] : k \in Nat
    BY <1>1, <2>1
  <2>9. \A a, b \in Nat : a <= b => ~ (b < a)
    OBVIOUS
  <2>10. scenario.slot * scenario.slots \in Nat
    BY <2>3
  <2>11. QED
    BY <1>1, <2>1, <2>6, <2>7, <2>8, <2>9, <2>10
<1>6. QED
  BY <1>3, <1>4, <1>5, CloseWriterEffect

LEMMA NextKeepsFilling ==
  ASSUME Base, Fits, Filling, [Next]_vars
  PROVE  Filling'
<1>1. Types /\ Threads /\ Bounded /\ Kinds /\ un \in UnType
  BY DEF Base, Types, Kinds
<1>2. CASE DrainStep
  <2>1. UNCHANGED <<scenario, un>>
    BY <1>2 DEF DrainStep, TakeSlot, Look, Fill, Submit, Issue, Reap, FinishSink, source
  <2>2. ASSUME NEW e \in Errors, DrainFails(e)
        PROVE  writer'.current = writer.current /\ writer'.pending = writer.pending
    BY <1>1, <2>2, DrainFailed
  <2>3. CASE TakeSlot
    BY <1>1, <2>1, <2>3, TakeSlotEffect, OthersKeepFilling
  <2>4. CASE ~TakeSlot
    <3>1. writer' = writer \/ \E e \in Errors : DrainFails(e)
      BY <1>2, <2>4 DEF DrainStep, Look, Fill, Submit, Issue, Reap, FinishSink, WaitForOne, Errors
    <3>2. QED
      BY <1>1, <2>1, <2>2, <3>1, OthersKeepFilling
  <2>5. QED
    BY <2>3, <2>4
<1>3. CASE UnpackerStep
  <2>1. CASE Enqueue
    <3>1. /\ un.at = "enqueue" /\ UNCHANGED scenario /\ SendSlot(writer.closing, un.then)
          /\ un.then = "write" /\ writer.closing \in BOOLEAN
      BY <1>1, <2>1 DEF Enqueue, source, Filling, Kinds, WriterType
    <3>2. QED
      BY <1>1, <3>1, SendingKeepsFilling
  <2>2. ASSUME NEW e \in Errors, UnpackerThrows(e)
        PROVE  un'.at = "handling"
    BY <1>1, <2>2, UnpackerThrown
  <2>3. CASE UnpackerChecks \/ PopTar \/ AwaitDrain \/ Restore \/ UnpackerHandles
    <3>1. un'.at \notin {"write", "enqueue", "close"}
      <4>1. CASE UnpackerChecks
        <5>1. CASE Cancelled
          BY <2>2, <4>1, <5>1 DEF UnpackerChecks, Errors
        <5>2. CASE ~Cancelled
          BY <1>1, <4>1, <5>2 DEF UnpackerChecks, UnType
        <5>3. QED
          BY <5>1, <5>2
      <4>2. CASE PopTar
        <5>1. CASE queue.items # <<>>
          BY <1>1, <4>2, <5>1 DEF PopTar, UnType
        <5>2. CASE un' = [un EXCEPT !.at = "done"]
          BY <1>1, <5>2 DEF UnType
        <5>3. CASE \E e \in Errors : UnpackerThrows(e)
          BY <2>2, <5>3
        <5>4. QED
          BY <4>2, <5>1, <5>2, <5>3 DEF PopTar, Errors
      <4>3. CASE AwaitDrain
        BY <1>1, <2>2, <4>3, AwaitDrainEffect
      <4>4. CASE Restore
        BY <1>1, <2>2, <4>4, RestoreEffect DEF Errors
      <4>5. CASE UnpackerHandles
        <5>1. un.at = "handling" /\ un.todo # <<>>
          BY <1>1, <4>5 DEF UnpackerHandles, Handle, Threads, UnpackerPlace
        <5>2. un'.at \in {"handling", "done"}
          BY <1>1, <4>5, <5>1, UnpackerHandled DEF UnpackerHandles
        <5>3. QED
          BY <5>2
      <4>6. QED
        BY <2>3, <4>1, <4>2, <4>3, <4>4, <4>5
    <3>2. QED
      BY <3>1 DEF Filling
  <2>4. QED
    BY <1>1, <1>3, <2>1, <2>3, CreateKeepsFilling, WriteChunkKeepsFilling, CloseWriterKeepsFilling
      DEF UnpackerStep
<1>4. CASE InputStep \/ SourceFails \/ Cancel
  <2>1. UNCHANGED <<scenario, un, writer>>
    BY <1>4 DEF InputStep, InputChecks, Read, PushTar, InputHandles, SourceFails, Cancel, source, files
  <2>2. QED
    BY <1>1, <2>1, OthersKeepFilling
<1>5. CASE MainStep
  <2>1. UNCHANGED <<scenario, writer>> /\ (un' = un \/ un'.at = "check")
    BY <1>5 DEF MainStep, AwaitTransport, Start, Join, Judge, NewUnpacker, source, files
  <2>2. QED
    BY <1>1, <2>1, OthersKeepFilling DEF Filling
<1>6. CASE (\E s \in Slots : Complete(s)) \/ Finished \/ UNCHANGED vars
  <2>1. UNCHANGED <<scenario, un, writer>>
    BY <1>6 DEF Complete, Finished, vars, source, files
  <2>2. QED
    BY <1>1, <2>1, OthersKeepFilling
<1>7. CASE CancelSlot
  <2>1. UNCHANGED <<scenario, un>>
    BY <1>7 DEF CancelSlot
  <2>2. writer'.current = writer.current /\ writer'.pending = writer.pending
    BY <1>1, <1>7, CancelSlotEffect
  <2>3. QED
    BY <1>1, <2>1, <2>2, OthersKeepFilling
<1>8. QED
  BY <1>2, <1>3, <1>4, <1>5, <1>6, <1>7 DEF Next

(***************************************************************************)
(* The order of the items, and what became of them. So many items, p, the  *)
(* unpacker has taken in this transport; of those only the file it is at   *)
(* can be missing.                                                         *)
(***************************************************************************)
Delivered(p) ==
  /\ queue.status = "abandoned" => queue.items = <<>>
  /\ queue.status # "abandoned" =>
       /\ \A i \in 1 .. Len(queue.items) : queue.items[i] = p + i
       /\ in.error = "none" =>
            p + Len(queue.items) = IF in.at = "push" THEN got - 1 ELSE got

(* The queue is closed at the end of the stream, or because of an error.   *)
WhyClosed ==
  queue.status = "closed" =>
    in.error # "none" \/ un.error # "none" \/ (in.at = "done" /\ got = Len(Stream))

LastOf(k) == k < MarkAt /\ Stream[k][2] = Sizes[Stream[k][1]]
InProcess(f) ==
  /\ un.file = f
  /\ \/ un.at \in {"create", "write", "enqueue", "close", "await", "restore"}
     \/ un.at = "check" /\ un.chunk = Sizes[f]
Done(f) == f \in restored \/ InProcess(f)
Treated(p) == un.error = "none" => \A k \in 1 .. p : LastOf(k) => Done(Stream[k][1])

(* An unpacker that is done without an error has seen the mark, unless the *)
(* input thread had an error.                                              *)
Ended(p) ==
  main \in {"input", "unpacker", "pool", "judge"} /\ un.at = "done" /\ un.error = "none" =>
    MarkAt <= p \/ in.error # "none"

Order == WhyClosed /\ \E p \in Nat : Delivered(p) /\ Treated(p) /\ Ended(p)

LEMMA InitOrder ==
  ASSUME Init
  PROVE  Order
<1>1. queue.items = <<>> /\ queue.status = "open" /\ in.at = "done" /\ got = 0 /\ main = "await"
  BY DEF Init, NewQueue, Off, NewInput
<1>2. Len(<<>>) = 0 /\ 0 \in Nat /\ 0 + 0 = 0 /\ \A k \in 1 .. 0 : FALSE
  OBVIOUS
<1>3. WhyClosed
  BY <1>1 DEF WhyClosed
<1>4. Delivered(0) /\ Treated(0) /\ Ended(0)
  BY <1>1, <1>2 DEF Delivered, Treated, Ended
<1>5. QED
  BY <1>2, <1>3, <1>4 DEF Order

(* Nothing that counts changes.                                            *)
LEMMA OthersKeepOrder ==
  ASSUME Order, UNCHANGED <<got, queue, in, un, restored>>,
         main' \in {"input", "unpacker", "pool", "judge"} =>
           main \in {"input", "unpacker", "pool", "judge"}
  PROVE  Order'
<1>1. PICK p \in Nat : Delivered(p) /\ Treated(p) /\ Ended(p)
  BY DEF Order
<1>2. Delivered(p)' /\ Treated(p)' /\ Ended(p)'
  BY <1>1 DEF Delivered, Treated, Ended, LastOf, Done, InProcess
<1>3. WhyClosed'
  BY DEF Order, WhyClosed
<1>4. QED
  BY <1>2, <1>3 DEF Order

(***************************************************************************)
(* The input thread puts the items into the queue one after the other.     *)
(***************************************************************************)
LEMMA InputKeepsOrder ==
  ASSUME Order, UNCHANGED <<un, restored, main>>, WhyClosed',
         in.error # "none" => in'.error # "none",
         \A p \in Nat : Delivered(p) => Delivered(p)'
  PROVE  Order'
<1>1. PICK p \in Nat : Delivered(p) /\ Treated(p) /\ Ended(p)
  BY DEF Order
<1>2. Treated(p)' /\ Ended(p)'
  BY <1>1 DEF Treated, Ended, LastOf, Done, InProcess
<1>3. QED
  BY <1>1, <1>2 DEF Order

LEMMA InputThrowKeepsOrder ==
  ASSUME Types, Order, UNCHANGED <<got, queue, un, restored, main>>,
         NEW e \in Errors \ {"none"}, InputThrows(e)
  PROVE  Order'
<1>1. in'.error # "none"
  BY InputThrown DEF Types
<1>2. WhyClosed'
  BY <1>1 DEF WhyClosed
<1>3. \A p \in Nat : Delivered(p) => Delivered(p)'
  BY <1>1 DEF Delivered
<1>4. QED
  BY <1>1, <1>2, <1>3, InputKeepsOrder

LEMMA InputChecksKeepsOrder ==
  ASSUME Types, Threads, Order, InputChecks
  PROVE  Order'
<1>1. in \in InType /\ in.at = "check" /\ UNCHANGED <<got, queue, un, restored, main>>
  BY DEF Types, InputChecks, source, files, outcome
<1>2. CASE InputThrows("cancelled")
  BY <1>1, <1>2, InputThrowKeepsOrder DEF Errors
<1>3. CASE in' = [in EXCEPT !.at = "read"]
  <2>1. in'.at = "read" /\ in'.error = in.error
    BY <1>1, <1>3 DEF InType
  <2>2. WhyClosed'
    BY <1>1, <2>1 DEF Order, WhyClosed
  <2>3. \A p \in Nat : Delivered(p) => Delivered(p)'
    BY <1>1, <2>1 DEF Delivered
  <2>4. QED
    BY <1>1, <2>1, <2>2, <2>3, InputKeepsOrder
<1>4. QED
  BY <1>2, <1>3 DEF InputChecks

LEMMA ReadKeepsOrder ==
  ASSUME Types, Threads, Order, Read
  PROVE  Order'
<1>1. /\ in \in InType /\ in.at = "read" /\ UNCHANGED <<un, restored, main>>
      /\ got \in Nat /\ queue \in QueueType
  <2>1. Len(Stream) \in Nat
    BY StreamTyped
  <2>2. QED
    BY <2>1 DEF Types, Read, files, outcome
<1>2. CASE InputThrows(IF line = "lost" THEN "own" ELSE "cancelled") /\ UNCHANGED <<queue, got>>
  BY <1>1, <1>2, InputThrowKeepsOrder DEF Errors
<1>3. CASE /\ got' = got + 1 /\ in' = [in EXCEPT !.at = "push", !.item = got + 1]
           /\ got < Len(Stream) /\ UNCHANGED queue
  <2>1. in'.at = "push" /\ in'.error = in.error /\ got' - 1 = got
    BY <1>1, <1>3 DEF InType
  <2>2. WhyClosed'
    BY <1>1, <1>3, <2>1 DEF Order, WhyClosed
  <2>3. \A p \in Nat : Delivered(p) => Delivered(p)'
    BY <1>1, <1>3, <2>1 DEF Delivered
  <2>4. QED
    BY <1>1, <2>1, <2>2, <2>3, InputKeepsOrder
<1>4. CASE /\ got = Len(Stream) /\ in' = [in EXCEPT !.at = "done"] /\ CloseQueue /\ UNCHANGED got
  <2>1. in'.at = "done" /\ in'.error = in.error
    BY <1>1, <1>4 DEF InType
  <2>2. /\ queue'.items = queue.items
        /\ queue'.status = IF queue.status = "open" THEN "closed" ELSE queue.status
    BY <1>1, <1>4, QueueClosed
  <2>3. WhyClosed'
    BY <1>4, <2>1 DEF WhyClosed
  <2>4. \A p \in Nat : Delivered(p) => Delivered(p)'
    BY <1>1, <1>4, <2>1, <2>2 DEF Delivered
  <2>5. QED
    BY <1>1, <2>1, <2>3, <2>4, InputKeepsOrder
<1>5. QED
  BY <1>2, <1>3, <1>4 DEF Read

LEMMA PushTarKeepsOrder ==
  ASSUME Types, Threads, Order, PushTar
  PROVE  Order'
<1>1. /\ in \in InType /\ in.at = "push" /\ UNCHANGED <<got, un, restored, main>>
      /\ got \in Nat /\ queue \in QueueType /\ in.item = got /\ in.error = "none"
  <2>1. Len(Stream) \in Nat
    BY StreamTyped
  <2>2. QED
    BY <2>1 DEF Types, PushTar, source, files, outcome, Threads, InputPlace
<1>2. CASE /\ queue.status # "open" /\ UNCHANGED queue
           /\ InputThrows(IF queue.status = "closed" THEN "closed" ELSE "cancelled")
  BY <1>1, <1>2, InputThrowKeepsOrder DEF Errors
<1>3. CASE /\ queue.status = "open" /\ queue' = [queue EXCEPT !.items = Append(@, in.item)]
           /\ in' = [in EXCEPT !.at = "check"]
  <2> DEFINE q == queue.items
  <2>1. in'.at = "check" /\ in'.error = in.error
    BY <1>1, <1>3 DEF InType
  <2>2. /\ queue'.items = Append(q, got) /\ queue'.status = queue.status
        /\ q \in Seq(Nat)
    <3>1. q \in Seq(1 .. Len(Stream))
      BY <1>1 DEF QueueType
    <3>2. 1 .. Len(Stream) \subseteq Nat
      BY StreamTyped
    <3>3. QED
      BY <1>1, <1>3, <3>1, <3>2 DEF QueueType
  <2> HIDE DEF q
  <2>3. /\ Len(q) \in Nat /\ Len(queue'.items) = Len(q) + 1
        /\ queue'.items[Len(q) + 1] = got /\ \A i \in 1 .. Len(q) : queue'.items[i] = q[i]
    BY <1>1, <2>2
  <2>4. WhyClosed'
    BY <1>3, <2>2 DEF WhyClosed
  <2>5. ASSUME NEW p \in Nat, Delivered(p)
        PROVE  Delivered(p)'
    <3>1. /\ \A i \in 1 .. Len(q) : q[i] = p + i
          /\ p + Len(q) = got - 1
      BY <1>1, <1>3, <2>5 DEF Delivered, q
    <3>2. \A i \in 1 .. Len(q) + 1 : i \in 1 .. Len(q) \/ i = Len(q) + 1
      BY <2>3
    <3>3. p + (Len(q) + 1) = got
      BY <1>1, <2>3, <3>1
    <3>4. \A i \in 1 .. Len(queue'.items) : queue'.items[i] = p + i
      BY <2>3, <3>1, <3>2, <3>3
    <3>5. QED
      BY <1>1, <1>3, <2>1, <2>2, <2>3, <3>3, <3>4 DEF Delivered
  <2>6. QED
    BY <1>1, <2>1, <2>4, <2>5, InputKeepsOrder
<1>4. QED
  BY <1>2, <1>3 DEF PushTar

LEMMA InputHandlesKeepsOrder ==
  ASSUME Types, Threads, Order, InputHandles
  PROVE  Order'
<1>1. /\ in \in InType /\ in.at = "handling" /\ UNCHANGED <<got, un, restored, main>>
      /\ queue \in QueueType /\ in.error # "none" /\ in.todo # <<>>
  BY DEF Types, InputHandles, Handle, source, files, Threads, InputPlace
<1>2. in'.error = in.error
  BY <1>1, InputHandled DEF InputHandles
<1>3. /\ queue'.items = queue.items
      /\ queue'.status # queue.status => queue.status = "open" /\ queue'.status = "closed"
  <2>1. UNCHANGED queue \/ CloseQueue
    BY DEF InputHandles, Handle
  <2>2. QED
    BY <1>1, <2>1, QueueClosed
<1>4. WhyClosed'
  BY <1>1, <1>2 DEF WhyClosed
<1>5. \A p \in Nat : Delivered(p) => Delivered(p)'
  BY <1>1, <1>2, <1>3 DEF Delivered
<1>6. QED
  BY <1>1, <1>2, <1>4, <1>5, InputKeepsOrder

(***************************************************************************)
(* The unpacker takes them in this order, and turns to the next item only  *)
(* when the file is restored.                                              *)
(***************************************************************************)
LEMMA FailingKeepsOrder ==
  ASSUME Types, Order, UNCHANGED <<got, queue, in, main>>, un'.error # "none"
  PROVE  Order'
<1>1. PICK p \in Nat : Delivered(p)
  BY DEF Order
<1>2. Delivered(p)' /\ Treated(p)' /\ Ended(p)' /\ WhyClosed'
  BY <1>1 DEF Delivered, Treated, Ended, WhyClosed
<1>3. QED
  BY <1>2 DEF Order

LEMMA GoingOnKeepsOrder ==
  ASSUME Order, UNCHANGED <<got, queue, in, main>>, un'.error = un.error, un'.at # "done",
         \A f \in Files : Done(f) => Done(f)'
  PROVE  Order'
<1>1. PICK p \in Nat : Delivered(p) /\ Treated(p) /\ Ended(p)
  BY DEF Order
<1>2. \A k \in 1 .. p : LastOf(k) => Stream[k][1] \in Files
  <2>1. ASSUME NEW k \in 1 .. p, LastOf(k)
        PROVE  Stream[k][1] \in Files
    <3>1. k < MarkAt
      BY <2>1 DEF LastOf
    <3>2. k \in 1 .. Len(Stream)
      BY <3>1, StreamTyped
    <3>3. QED
      BY <3>1, <3>2, StreamTyped
  <2>2. QED
    BY <2>1
<1>3. Treated(p)'
  BY <1>1, <1>2 DEF Treated, LastOf
<1>4. Delivered(p)' /\ Ended(p)' /\ WhyClosed'
  BY <1>1 DEF Delivered, Ended, WhyClosed, Order
<1>5. QED
  BY <1>3, <1>4 DEF Order

LEMMA UnpackerChecksKeepsOrder ==
  ASSUME Types, Threads, Order, UnpackerChecks
  PROVE  Order'
<1>1. un \in UnType /\ un.at = "check" /\ UNCHANGED <<got, queue, in, main, restored>>
  BY DEF Types, UnpackerChecks, source, files, outcome
<1>2. CASE Cancelled
  <2>1. un'.error = "cancelled"
    BY <1>1, <1>2, UnpackerThrown DEF UnpackerChecks, Errors
  <2>2. QED
    BY <1>1, <2>1, FailingKeepsOrder
<1>3. CASE ~Cancelled
  <2>1. /\ un'.at = IF Collected THEN "create" ELSE "pop"
        /\ un'.error = un.error /\ un'.file = un.file
    BY <1>1, <1>3 DEF UnpackerChecks, UnType
  <2>2. ASSUME NEW f \in Files, Done(f)
        PROVE  Done(f)'
    <3>1. CASE f \in restored
      BY <1>1, <3>1 DEF Done
    <3>2. CASE f \notin restored
      <4>1. un.file = f /\ un.chunk = Sizes[f] /\ f # 0
        BY <1>1, <2>2, <3>2, Parameters DEF Done, InProcess
      <4>2. QED
        BY <2>1, <4>1 DEF Collected, Done, InProcess
    <3>3. QED
      BY <3>1, <3>2
  <2>3. QED
    BY <1>1, <2>1, <2>2, GoingOnKeepsOrder
<1>4. QED
  BY <1>2, <1>3

LEMMA PopTarKeepsOrder ==
  ASSUME Types, Threads, Order, PopTar
  PROVE  Order'
<1>1. /\ un \in UnType /\ un.at = "pop" /\ un.error = "none"
      /\ UNCHANGED <<got, in, main, restored>> /\ in \in InType /\ queue \in QueueType
      /\ got \in Nat
  <2>1. Len(Stream) \in Nat
    BY StreamTyped
  <2>2. QED
    BY <2>1 DEF Types, PopTar, source, files, outcome, Threads, UnpackerPlace, Working
<1>2. PICK p \in Nat : Delivered(p) /\ Treated(p) /\ Ended(p)
  BY DEF Order
<1>3. \A f : Done(f) <=> f \in restored
  BY <1>1 DEF Done, InProcess
<1>4. ASSUME queue.items # <<>>,
             queue' = [queue EXCEPT !.items = Tail(@)],
             un' = IF Stream[Head(queue.items)] = Mark THEN [un EXCEPT !.at = "done"]
                   ELSE [un EXCEPT !.at = IF Stream[Head(queue.items)][1] \in Directories
                                          THEN "restore" ELSE "check",
                                   !.file = Stream[Head(queue.items)][1],
                                   !.chunk = Stream[Head(queue.items)][2]]
      PROVE  Order'
  <2> DEFINE q == queue.items
             t == Tail(q)
  <2>1. q \in Seq(1 .. Len(Stream)) /\ queue.status # "abandoned"
    BY <1>1, <1>2, <1>4 DEF QueueType, Delivered
  <2>2. /\ Len(q) \in Nat \ {0} /\ Head(q) = q[1] /\ Len(t) = Len(q) - 1
        /\ \A i \in 1 .. Len(t) : t[i] = q[i + 1]
        /\ Head(q) \in 1 .. Len(Stream)
    BY <1>4, <2>1
  <2>3. queue'.items = t /\ queue'.status = queue.status
    BY <1>1, <1>4 DEF QueueType
  <2> HIDE DEF t
  <2>4. /\ \A i \in 1 .. Len(q) : q[i] = p + i
        /\ in.error = "none" => p + Len(q) = IF in.at = "push" THEN got - 1 ELSE got
    BY <1>2, <2>1 DEF Delivered
  <2>5. Head(q) = p + 1 /\ p + 1 \in Nat
    BY <2>2, <2>4
  <2> HIDE DEF q
  <2>6. \A i \in 1 .. Len(t) : t[i] = (p + 1) + i
    <3>1. \A i \in 1 .. Len(t) : i + 1 \in 1 .. Len(q) /\ p + (i + 1) = (p + 1) + i
      BY <2>2
    <3>2. QED
      BY <2>2, <2>4, <3>1
  <2>7. (p + 1) + Len(t) = p + Len(q)
    BY <2>2
  <2>8. Delivered(p + 1)'
    BY <1>1, <2>1, <2>3, <2>4, <2>6, <2>7 DEF Delivered
  <2>9. WhyClosed'
    <3>1. un'.error = un.error
      BY <1>1, <1>4 DEF UnType
    <3>2. QED
      BY <1>1, <2>3, <3>1 DEF Order, WhyClosed
  <2>10. \A k \in 1 .. p : LastOf(k) => Stream[k][1] \in restored
    BY <1>1, <1>2, <1>3 DEF Treated
  <2>11. \A k \in 1 .. p + 1 : k \in 1 .. p \/ k = p + 1
    OBVIOUS
  <2>12. CASE Stream[Head(q)] = Mark
    <3>1. p + 1 = MarkAt
      BY <2>2, <2>5, <2>12, StreamTyped
    <3>2. ~LastOf(p + 1)
      BY <2>5, <3>1 DEF LastOf
    <3>3. Treated(p + 1)'
      BY <1>1, <2>10, <2>11, <3>2 DEF Treated, LastOf, Done
    <3>4. Ended(p + 1)'
      BY <2>5, <3>1 DEF Ended
    <3>5. QED
      BY <2>5, <2>8, <2>9, <3>3, <3>4 DEF Order
  <2>13. CASE Stream[Head(q)] # Mark
    <3>1. /\ un'.at \in {"restore", "check"}
          /\ un'.file = Stream[p + 1][1] /\ un'.chunk = Stream[p + 1][2]
      BY <1>1, <1>4, <2>5, <2>13 DEF UnType, q
    <3>2. LastOf(p + 1) => InProcess(Stream[p + 1][1])'
      BY <3>1 DEF LastOf, InProcess
    <3>3. Treated(p + 1)'
      BY <1>1, <2>10, <2>11, <3>2 DEF Treated, LastOf, Done
    <3>4. Ended(p + 1)'
      BY <3>1 DEF Ended
    <3>5. QED
      BY <2>5, <2>8, <2>9, <3>3, <3>4 DEF Order
  <2>14. QED
    BY <2>12, <2>13
<1>5. CASE /\ queue.items = <<>> /\ queue.status = "closed" /\ UNCHANGED queue
           /\ un' = [un EXCEPT !.at = "done"]
  <2>1. un'.at = "done" /\ un'.error = un.error
    BY <1>1, <1>5 DEF UnType
  <2>2. in.error # "none" \/ (in.at = "done" /\ got = Len(Stream))
    BY <1>1, <1>5 DEF Order, WhyClosed
  <2>3. MarkAt <= p \/ in.error # "none"
    <3>1. CASE in.error = "none"
      <4>1. p + Len(queue.items) = got /\ got = Len(Stream) /\ Len(queue.items) = 0
        BY <1>2, <1>5, <2>2, <3>1 DEF Delivered
      <4>2. p = Len(Stream)
        BY <4>1
      <4>3. QED
        BY <4>2, StreamTyped
    <3>2. QED
      BY <3>1
  <2>4. Delivered(p)' /\ Ended(p)' /\ WhyClosed'
    BY <1>1, <1>2, <1>5, <2>1, <2>3 DEF Delivered, Ended, WhyClosed, Order
  <2>5. Treated(p)'
    BY <1>1, <1>2, <1>3, <2>1 DEF Treated, LastOf, Done
  <2>6. QED
    BY <2>4, <2>5 DEF Order
<1>6. CASE UNCHANGED queue /\ \E e \in {"own", "cancelled"} : UnpackerThrows(e)
  <2>1. un'.error # "none"
    BY <1>1, <1>6, UnpackerThrown DEF Errors
  <2>2. QED
    BY <1>1, <1>6, <2>1, FailingKeepsOrder
<1>7. QED
  BY <1>4, <1>5, <1>6 DEF PopTar

LEMMA UnpackerHandlesKeepsOrder ==
  ASSUME Types, Threads, Order, UnpackerHandles
  PROVE  Order'
<1>1. /\ un \in UnType /\ un.at = "handling" /\ UNCHANGED <<got, in, main, restored>>
      /\ queue \in QueueType /\ un.error # "none" /\ un.todo # <<>>
  BY DEF Types, UnpackerHandles, Handle, source, files, Threads, UnpackerPlace
<1>2. un'.error = un.error
  BY <1>1, UnpackerHandled DEF UnpackerHandles
<1>3. /\ queue'.items = queue.items
      /\ queue'.status # queue.status => queue.status = "open" /\ queue'.status = "closed"
  <2>1. UNCHANGED queue \/ CloseQueue
    BY DEF UnpackerHandles, Handle
  <2>2. QED
    BY <1>1, <2>1, QueueClosed
<1>4. PICK p \in Nat : Delivered(p)
  BY DEF Order
<1>5. Delivered(p)' /\ Treated(p)' /\ Ended(p)' /\ WhyClosed'
  BY <1>1, <1>2, <1>3, <1>4 DEF Delivered, Treated, Ended, WhyClosed
<1>6. QED
  BY <1>5 DEF Order

LEMMA WriterStepsKeepOrder ==
  ASSUME Types, Threads, Order, Create \/ WriteChunk \/ Enqueue \/ CloseWriter \/ AwaitDrain
  PROVE  Order'
<1>1. /\ un \in UnType /\ writer \in WriterType /\ UNCHANGED <<got, queue, in, main>>
      /\ un.at \in {"create", "write", "enqueue", "close", "await"}
  BY DEF Types, Create, WriteChunk, Enqueue, CloseWriter, AwaitDrain, source, outcome
<1>2. ASSUME NEW e \in Errors \ {"none"}, UnpackerThrows(e)
      PROVE  Order'
  <2>1. un'.error # "none"
    BY <1>1, <1>2, UnpackerThrown
  <2>2. QED
    BY <1>1, <2>1, FailingKeepsOrder
<1>3. writer.error # "none" => writer.error \in Errors \ {"none"}
  BY <1>1 DEF WriterType
<1>4. {"own", "cancelled"} \subseteq Errors \ {"none"}
  BY DEF Errors
<1>5. ASSUME un'.file = un.file, un'.error = un.error,
             un'.at \in {"write", "enqueue", "close", "await", "restore"},
             \A f \in restored : f # un.file => f \in restored'
      PROVE  Order'
  <2>1. ASSUME NEW f \in Files, Done(f)
        PROVE  Done(f)'
    <3>1. CASE f = un.file
      BY <1>5, <3>1 DEF Done, InProcess
    <3>2. CASE f # un.file
      BY <1>5, <2>1, <3>2 DEF Done, InProcess
    <3>3. QED
      BY <3>1, <3>2
  <2>2. QED
    BY <1>1, <1>5, <2>1, GoingOnKeepsOrder
<1>6. CASE Create
  BY <1>2, <1>4, <1>5, <1>6, CreateEffect
<1>7. CASE WriteChunk
  <2>1. UNCHANGED restored
    BY <1>7 DEF WriteChunk
  <2>2. QED
    BY <1>2, <1>3, <1>4, <1>5, <1>7, <2>1, WriteChunkEffect
<1>8. ASSUME UNCHANGED restored, NEW closing \in BOOLEAN, NEW then \in {"write", "await"},
             SendSlot(closing, then)
      PROVE  Order'
  BY <1>2, <1>3, <1>4, <1>5, <1>8, SendSlotEffect
<1>9. CASE Enqueue
  <2>1. /\ UNCHANGED restored /\ SendSlot(writer.closing, un.then) /\ un.at = "enqueue"
        /\ un.then \in {"write", "await"} /\ writer.closing \in BOOLEAN
    BY <1>1, <1>9 DEF Enqueue, Threads, UnpackerPlace, UnType, WriterType
  <2>2. QED
    BY <1>8, <2>1
<1>10. CASE CloseWriter
  <2>1. UNCHANGED restored
    BY <1>10 DEF CloseWriter
  <2>2. ASSUME un' = [un EXCEPT !.at = "await"]
        PROVE  un'.at = "await" /\ un'.file = un.file /\ un'.error = un.error
    BY <1>1, <2>2 DEF UnType
  <2>3. QED
    BY <1>5, <1>8, <1>10, <2>1, <2>2, CloseWriterEffect
<1>11. CASE AwaitDrain
  <2>1. UNCHANGED restored
    BY <1>11 DEF AwaitDrain, files
  <2>2. QED
    BY <1>2, <1>5, <1>11, <2>1, AwaitDrainEffect
<1>12. QED
  BY <1>6, <1>7, <1>9, <1>10, <1>11

LEMMA RestoreKeepsOrder ==
  ASSUME Types, Threads, Order, Restore
  PROVE  Order'
<1>1. un \in UnType /\ un.at = "restore" /\ UNCHANGED <<got, queue, in, main>>
  BY DEF Types, Restore, source, outcome
<1>2. CASE UnpackerThrows("cancelled") \/ UnpackerThrows("own")
  <2>1. un'.error # "none"
    BY <1>1, <1>2, UnpackerThrown DEF Errors
  <2>2. QED
    BY <1>1, <2>1, FailingKeepsOrder
<1>3. CASE /\ un'.at = "check" /\ un'.error = un.error /\ restored' = restored \cup {un.file}
  <2>1. \A f \in Files : Done(f) => Done(f)'
    BY <1>1, <1>3 DEF Done, InProcess
  <2>2. QED
    BY <1>1, <1>3, <2>1, GoingOnKeepsOrder
<1>4. QED
  BY <1>2, <1>3, RestoreEffect

(***************************************************************************)
(* Every transport begins anew.                                            *)
(***************************************************************************)
LEMMA AwaitTransportKeepsOrder ==
  ASSUME Order, AwaitTransport
  PROVE  Order'
<1>1. CASE Start
  <2>1. /\ got' = 0 /\ queue'.items = <<>> /\ queue'.status # "closed"
        /\ in'.at = "check" /\ un'.at = "check"
    BY <1>1 DEF Start, NewQueue, NewInput, NewUnpacker
  <2>2. Len(<<>>) = 0 /\ 0 \in Nat /\ 0 + 0 = 0 /\ \A k \in 1 .. 0 : FALSE
    OBVIOUS
  <2>3. Delivered(0)' /\ Treated(0)' /\ Ended(0)' /\ WhyClosed'
    BY <2>1, <2>2 DEF Delivered, Treated, Ended, WhyClosed
  <2>4. QED
    BY <2>2, <2>3 DEF Order
<1>2. CASE main' = "over" /\ UNCHANGED <<got, queue, in, un, restored>>
  BY <1>2, OthersKeepOrder
<1>3. UNCHANGED restored
  BY DEF AwaitTransport, files
<1>4. QED
  BY <1>1, <1>2, <1>3 DEF AwaitTransport

LEMMA CancelSlotKeepsOrder ==
  ASSUME Types, Order, CancelSlot
  PROVE  Order'
<1>1. UNCHANGED <<got, in, un, restored, main>> /\ queue \in QueueType
  BY DEF Types, CancelSlot, outcome
<1>2. CASE queue' = queue
  BY <1>1, <1>2, OthersKeepOrder
<1>3. CASE queue' = [items |-> <<>>, status |-> "abandoned"]
  <2>1. queue'.items = <<>> /\ queue'.status = "abandoned"
    BY <1>3
  <2>2. WhyClosed' /\ \A p \in Nat : Delivered(p)'
    BY <2>1 DEF WhyClosed, Delivered
  <2>3. QED
    BY <1>1, <2>2, InputKeepsOrder
<1>4. QED
  BY <1>2, <1>3 DEF CancelSlot

LEMMA NextKeepsOrder ==
  ASSUME Base, Order, [Next]_vars
  PROVE  Order'
<1>1. Types /\ Threads /\ Bounded
  BY DEF Base
<1>2. CASE InputStep
  BY <1>1, <1>2, InputChecksKeepsOrder, ReadKeepsOrder, PushTarKeepsOrder, InputHandlesKeepsOrder
    DEF InputStep
<1>3. CASE UnpackerStep
  BY <1>1, <1>3, UnpackerChecksKeepsOrder, PopTarKeepsOrder, WriterStepsKeepOrder,
     RestoreKeepsOrder, UnpackerHandlesKeepsOrder DEF UnpackerStep
<1>4. CASE DrainStep
  <2>1. UNCHANGED <<got, queue, in, un, restored, main>>
    BY <1>4 DEF DrainStep, TakeSlot, Look, Fill, Submit, Issue, Reap, FinishSink, source, outcome
  <2>2. QED
    BY <2>1, OthersKeepOrder
<1>5. CASE SourceFails \/ Cancel \/ Join \/ Judge
  <2>1. /\ UNCHANGED <<got, queue, in, un, restored>>
        /\ main' \in {"input", "unpacker", "pool", "judge"} =>
             main \in {"input", "unpacker", "pool", "judge"}
    BY <1>5 DEF SourceFails, Cancel, Join, Judge, source, files, outcome
  <2>2. QED
    BY <2>1, OthersKeepOrder
<1>6. CASE (\E s \in Slots : Complete(s)) \/ Finished \/ UNCHANGED vars
  <2>1. UNCHANGED <<got, queue, in, un, restored, main>>
    BY <1>6 DEF Complete, Finished, vars, source, files, outcome
  <2>2. QED
    BY <2>1, OthersKeepOrder
<1>7. QED
  BY <1>1, <1>2, <1>3, <1>4, <1>5, <1>6, AwaitTransportKeepsOrder, CancelSlotKeepsOrder
    DEF Next, MainStep

(***************************************************************************)
(* What is reported complete.                                              *)
(***************************************************************************)
Reported == report = "completed" => restored = Files /\ main \in {"await", "over"}

(* The main thread finds no error: every entry has been restored.          *)
LEMMA JudgedIsRestored ==
  ASSUME Base, Order, main = "judge", state = "none", ~ (Local /\ Cancelled)
  PROVE  restored = Files
<1>1. /\ in.at = "done" /\ un.at = "done" /\ restored \subseteq Files
      /\ in \in InType /\ un \in UnType
  BY DEF Base, Threads, MainPlace, Types
<1>2. in.error = "none" /\ un.error = "none"
  <2>1. in.error = "none" \/ (Local /\ in.error = "cancelled")
    BY <1>1 DEF Base, Threads, Records, Recorded
  <2>2. un.error = "none" \/ (Local /\ un.error = "cancelled")
    BY <1>1 DEF Base, Threads, Records, Recorded
  <2>3. Cancelled \/ {in.error, un.error} \subseteq {"none", "own", "closed"}
    BY DEF Base, Threads, Causes
  <2>4. QED
    BY <2>1, <2>2, <2>3
<1>3. PICK p \in Nat : Treated(p) /\ Ended(p)
  BY DEF Order
<1>4. MarkAt <= p
  BY <1>1, <1>2, <1>3 DEF Ended
<1>5. ASSUME NEW f \in Files
      PROVE  f \in restored
  <2>1. PICK k \in 1 .. Len(Stream) : k < MarkAt /\ Stream[k][1] = f /\ Stream[k][2] = Sizes[f]
    BY StreamTyped
  <2>2. k \in 1 .. p
    BY <1>3, <1>4, <2>1, StreamTyped
  <2>3. Done(f)
    BY <1>2, <1>3, <2>1, <2>2 DEF Treated, LastOf
  <2>4. QED
    BY <1>1, <2>3 DEF Done, InProcess
<1>6. QED
  BY <1>1, <1>5

LEMMA NextKeepsReported ==
  ASSUME Base, Order, Reported, [Next]_vars
  PROVE  Reported'
<1>1. CASE UNCHANGED <<restored, main, report>>
  BY <1>1 DEF Reported
<1>2. CASE InputStep \/ SourceFails \/ Cancel \/ DrainStep \/ (\E s \in Slots : Complete(s))
           \/ CancelSlot \/ Finished \/ UNCHANGED vars
  <2>1. UNCHANGED <<restored, main, report>>
    BY <1>2 DEF InputStep, InputChecks, Read, PushTar, InputHandles, SourceFails, Cancel,
                DrainStep, TakeSlot, Look, Fill, Submit, Issue, Reap, FinishSink, Complete,
                CancelSlot, Finished, vars, files, outcome
  <2>2. QED
    BY <1>1, <2>1
<1>3. CASE UnpackerStep
  <2>1. CASE UnpackerHandles
    BY <1>1, <2>1 DEF UnpackerHandles, files
  <2>2. CASE ~UnpackerHandles
    <3>1. UNCHANGED <<main, report>> /\ Working
      BY <1>3, <2>2 DEF UnpackerStep, UnpackerChecks, PopTar, Create, WriteChunk, Enqueue,
                        CloseWriter, AwaitDrain, Restore, outcome, Working
    <3>2. main \in {"input", "unpacker"}
      BY <3>1 DEF Base, Threads, UnpackerPlace
    <3>3. QED
      BY <3>1, <3>2 DEF Reported
  <2>3. QED
    BY <2>1, <2>2
<1>4. CASE AwaitTransport
  <2>1. UNCHANGED restored
    BY <1>4 DEF AwaitTransport, files
  <2>2. report' = "none" \/ (main' = "over" /\ (report' = "completed" => report = "completed"))
    BY <1>4 DEF AwaitTransport, Start, Verdict
  <2>3. QED
    BY <2>1, <2>2 DEF Reported
<1>5. CASE Join
  BY <1>5 DEF Join, Reported, files
<1>6. CASE Judge
  <2>1. CASE state # "none"
    BY <1>6, <2>1 DEF Judge, Reported, Verdict
  <2>2. CASE state = "none" /\ Local /\ Cancelled
    BY <1>6, <2>2 DEF Judge, Reported
  <2>3. CASE state = "none" /\ ~ (Local /\ Cancelled)
    <3>1. main = "judge" /\ UNCHANGED restored /\ main' \in {"await", "over"}
      BY <1>6, <2>3 DEF Judge, files
    <3>2. restored = Files
      BY <2>3, <3>1, JudgedIsRestored
    <3>3. QED
      BY <3>1, <3>2 DEF Reported, Files
  <2>4. QED
    BY <2>1, <2>2, <2>3
<1>7. QED
  BY <1>2, <1>3, <1>4, <1>5, <1>6 DEF Next, MainStep

LEMMA ReportedIsWhole ==
  ASSUME Reported, RestoredIsWritten, RegularOnly
  PROVE  CompletedIsWhole
<1>1. SUFFICES ASSUME report = "completed"
               PROVE  restored = Files /\ disk = UNION {WholeFile(f) : f \in Files}
  BY DEF CompletedIsWhole
<1>2. restored = Files
  BY <1>1 DEF Reported
<1>3. \A f \in Files : {d \in disk : d[1] = f} = WholeFile(f)
  BY <1>2 DEF RestoredIsWritten
<1>4. \A d \in disk : d[1] \in Files
  BY DEF RegularOnly, Regular
<1>5. \A d \in disk : d \in WholeFile(d[1])
  BY <1>3, <1>4
<1>6. \A f \in Files : WholeFile(f) \subseteq disk
  BY <1>3
<1>7. QED
  BY <1>2, <1>4, <1>5, <1>6

(* In any run in which close() of the writer never waits for a place, a    *)
(* file has its times only when its content is complete on the disk.       *)
THEOREM RestoredAreWritten == Spec /\ []NoWaitInClose => []RestoredIsWritten
<1>1. Init => FilesRight
  BY InitBase
<1>2. Base /\ FilesRight /\ NoWaitInClose /\ NoWaitInClose' /\ [Next]_vars => FilesRight'
  BY NextKeepsFiles
<1>3. FilesRight => RestoredIsWritten
  BY DEF FilesRight
<1>4. QED
  BY <1>1, <1>2, <1>3, Invariance, PTL DEF Spec

(* The items come in their order and the unpacker leaves none out: in any  *)
(* run in which close() of the writer never waits for a place, a transport *)
(* that is reported complete is on the disk, with all entries restored.    *)
THEOREM CompletedAreWhole == Spec /\ []NoWaitInClose => []CompletedIsWhole
<1>1. Init => FilesRight /\ Order /\ Reported
  BY InitBase, InitOrder DEF Init, Reported
<1>2. Base /\ FilesRight /\ NoWaitInClose /\ NoWaitInClose' /\ [Next]_vars => FilesRight'
  BY NextKeepsFiles
<1>3. Base /\ Order /\ Reported /\ [Next]_vars => Order' /\ Reported'
  BY NextKeepsOrder, NextKeepsReported
<1>4. FilesRight /\ Reported => CompletedIsWhole
  BY ReportedIsWhole DEF FilesRight
<1>5. QED
  BY <1>1, <1>2, <1>3, <1>4, Invariance, PTL DEF Spec

(* If every file ends with a full slot of the writer, or has less chunks   *)
(* than all slots together can take, close() never waits for a place.      *)
THEOREM CloseFindsPlace ==
  ASSUME Fits
  PROVE  Spec => []NoWaitInClose
<1>1. Init => Filling
  BY DEF Init, Off, NewUnpacker, Filling
<1>2. Base /\ Filling /\ [Next]_vars => Filling'
  BY NextKeepsFilling
<1>3. Filling => NoWaitInClose
  BY DEF Filling, NoWaitInClose
<1>4. QED
  BY <1>1, <1>2, <1>3, Invariance, PTL DEF Spec

(* For such files both hold in every run.                                  *)
THEOREM FittingFilesAreWhole ==
  ASSUME Fits
  PROVE  Spec => [](RestoredIsWritten /\ CompletedIsWhole)
<1>1. Spec => []NoWaitInClose
  BY CloseFindsPlace
<1>2. QED
  BY <1>1, RestoredAreWritten, CompletedAreWhole, PTL
=============================================================================
