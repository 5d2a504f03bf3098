-------------------------- MODULE MCFileComparison --------------------------
(***************************************************************************)
(* Four entries, each a directory, a file the receiver has, or one that    *)
(* it lacks or has in another version, in batches of at most two files and *)
(* three entries, on queues of one place; with a failure of one part, a    *)
(* lost connection, or a cancellation. Which way a file differs matters to *)
(* Differs only, so one entry takes all of them.                           *)
(***************************************************************************)
EXTENDS FileComparison

MCScenario(k, f, c) == [kind |-> k, fail |-> f, cancel |-> c]

MCPlain == {MCScenario(k, {}, FALSE) : k \in [Entry -> {"directory", "same", "otherTime"}]}

MCOneOfEach ==
  {MCScenario([e \in Entry |-> IF e = 3 THEN d ELSE IF e = 2 THEN "same" ELSE "directory"], {}, FALSE) :
     d \in {"missing", "otherType", "otherSize"}}

MCFailing ==
  {MCScenario(k, f, FALSE) :
     k \in {<<"directory", "missing", "same", "otherSize">>, <<"same", "missing", "missing", "same">>},
     f \in {{"traverser"}, {"producer"}, {"rest"}, {"link"}, {"rest", "producer"}}}

MCCancelled ==
  {MCScenario(<<"missing", "same", "directory", "missing">>, f, TRUE) : f \in {{}, {"rest"}}}

MCTransfers == MCPlain \cup MCOneOfEach \cup MCFailing \cup MCCancelled

=============================================================================
