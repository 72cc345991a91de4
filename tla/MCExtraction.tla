----------------------------- MODULE MCExtraction -----------------------------
(***************************************************************************)
(* How the graph of a document is asked for: within the shared budget of a *)
(* provider (ProviderBudget) and in builds of a few batches each           *)
(* (GraphExtraction).  Each behaviour is of one "part", and the variables  *)
(* of the others stay as they are at first.                                *)
(***************************************************************************)
EXTENDS ProviderBudget, TLC

CONSTANTS graph, answer1, answer2

VARIABLES part,
          saved, links, result, build, abandoned

MCCost == [c \in {graph, answer1, answer2} |->
             [requests |-> 1, tokens |-> IF c = graph THEN 2 ELSE 1]]
MCLimit == [minute |-> [requests |-> 3, tokens |-> 4], day |-> [requests |-> 4, tokens |-> 0]]
MCReserve == [minute |-> [requests |-> 1, tokens |-> 1], day |-> [requests |-> 1, tokens |-> 0]]

\* Four batches in three sections, the second section with two.
buildVars == <<saved, links, result, build, abandoned>>
Building == INSTANCE GraphExtraction WITH
  Batches <- 1 .. 4, SectionOf <- <<"opening", "middle", "middle", "closing">>, MaxBatches <- 2,
  Linking <- TRUE, Sparse <- TRUE, Malformed <- {}, MaxAbandoned <- 1

\* The same with one batch whose answers are never a valid graph.
Stubborn == INSTANCE GraphExtraction WITH
  Batches <- 1 .. 4, SectionOf <- <<"opening", "middle", "middle", "closing">>, MaxBatches <- 2,
  Linking <- TRUE, Sparse <- FALSE, Malformed <- {3}, MaxAbandoned <- 1

ASSUME Building!BatchesAssumption /\ Stubborn!BatchesAssumption

MCInit ==
  /\ part \in {"budget", "building", "stubborn"}
  /\ Init /\ Building!Init

MCNext ==
  \/ part = "budget" /\ Next /\ UNCHANGED <<part, buildVars>>
  \/ part = "building" /\ Building!Next /\ UNCHANGED <<part, vars>>
  \/ part = "stubborn" /\ Stubborn!Next /\ UNCHANGED <<part, vars>>

\* The fairness of GraphExtraction.
StubbornFairness ==
  /\ WF_buildVars(part = "stubborn" /\ \E kind \in Stubborn!Kinds : Stubborn!Begin(kind))
  /\ WF_buildVars(part = "stubborn" /\ Stubborn!Work)
  /\ \A n \in {1, 2, 4} :
       SF_buildVars(part = "stubborn" /\ \E answer \in Stubborn!Answers : Stubborn!Succeed(n, answer))

MCSpec == MCInit /\ [][MCNext]_<<part, vars, buildVars>> /\ StubbornFairness

\* GraphExtraction: GRAPH_READY means that every batch is saved and shown.
ReadyMeansComplete == Building!ReadyMeansComplete

\* GraphExtraction: nothing that was extracted is asked for again or lost from the graph.
ExtractedIsKept == Building!ExtractedIsKept

\* GraphExtraction: builds that are tried again bring in every batch that can be extracted, unless
\* each ends at an earlier one that cannot.
EveryBatchSettles == part = "stubborn" => Stubborn!EveryBatchSettles
===============================================================================
