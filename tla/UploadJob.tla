------------------------------ MODULE UploadJob ------------------------------
(***************************************************************************)
(* What the service promises the owner of an uploaded document, whatever   *)
(* processes, leases, queues and stores are behind it: the document is     *)
(* processed in numbered attempts, one after the other; each of them ends  *)
(* once, and for good; batches of its graph, once saved, stay until the    *)
(* graph is complete; its passages can be found exactly while it is ready, *)
(* and are those of the attempt that made it ready; and after a removal    *)
(* nothing is shown or processed again.                                    *)
(***************************************************************************)
EXTENDS Naturals

CONSTANTS MaxProcessingAttempts,       \* attempts, counting those after failures
          MaxGraphProcessingAttempts,  \* and counting those for a missing graph
          Batches                      \* of the document's graph

VARIABLES attempt,
          outcome,     \* of each attempt
          saved,       \* batches of the graph
          removal,
          passages,    \* the attempt whose passages are found, 0 if none are
          concepts     \* the attempt whose graph is shown, 0 if none is

vars == <<attempt, outcome, saved, removal, passages, concepts>>

Attempts == 1 .. MaxGraphProcessingAttempts
Ready == {"partial", "complete"}
Outcomes == {"none", "open", "failed", "rejected"} \cup Ready

Now == outcome[attempt]
Ends(result) == outcome' = [outcome EXCEPT ![attempt] = result]

Init ==
  /\ attempt = 1
  /\ outcome = [n \in Attempts |-> IF n = 1 THEN "open" ELSE "none"]
  /\ saved = 0
  /\ removal = "none"
  /\ passages = 0 /\ concepts = 0

Save ==
  /\ Now = "open" /\ saved < Batches /\ saved' = saved + 1
  /\ UNCHANGED <<attempt, outcome, removal, passages, concepts>>

\* Only a graph with every batch is complete.
Succeed(result) ==
  /\ Now = "open"
  /\ result = "complete" => saved = Batches
  /\ Ends(result)
  /\ passages' = attempt
  /\ concepts' \in {attempt, 0}
  /\ UNCHANGED <<attempt, saved, removal>>

\* With another try left, or for good.
Fail(result) ==
  /\ Now = "open"
  /\ result = "failed" => attempt < MaxProcessingAttempts
  /\ Ends(result)
  /\ UNCHANGED <<attempt, saved, removal, passages, concepts>>

\* An attempt that was interrupted or has failed, or one for the rest of a graph.
TryAgain ==
  /\ removal = "none"
  /\ \/ Now \in {"open", "failed"} /\ attempt < MaxProcessingAttempts
     \/ Now = "partial" /\ attempt < MaxGraphProcessingAttempts
  /\ attempt' = attempt + 1
  /\ outcome' = [outcome EXCEPT ![attempt] = IF Now = "open" THEN "failed" ELSE Now,
                                ![attempt + 1] = "open"]
  /\ passages' = 0 /\ concepts' = 0
  /\ UNCHANGED <<saved, removal>>

\* The batches of a complete graph are not needed any more.
Discard ==
  /\ Now = "complete" /\ saved' = 0
  /\ UNCHANGED <<attempt, outcome, removal, passages, concepts>>

\* The abort of an execution that had the same number comes late.
LoseConcepts ==
  /\ Now \in Ready /\ concepts' = 0
  /\ UNCHANGED <<attempt, outcome, saved, removal, passages>>

RequestRemoval ==
  /\ Now \in {"failed", "rejected"} \cup Ready
  /\ removal = "none" /\ removal' = "requested"
  /\ passages' = 0 /\ concepts' = 0
  /\ UNCHANGED <<attempt, outcome, saved>>

Remove ==
  /\ removal = "requested" /\ removal' = "done"
  /\ outcome' = [n \in Attempts |-> "none"]
  /\ saved' = 0
  /\ UNCHANGED <<attempt, passages, concepts>>

Next ==
  \/ Save \/ TryAgain \/ Discard \/ LoseConcepts \/ RequestRemoval \/ Remove
  \/ \E result \in Ready : Succeed(result)
  \/ \E result \in {"failed", "rejected"} : Fail(result)

Spec == Init /\ [][Next]_vars
=============================================================================
