---------------------------- MODULE GraphExtraction ----------------------------
(***************************************************************************)
(* The builds of one document's concept graph, one after the other, by the *)
(* document processor or by a graph job: which batches a build sends, when *)
(* it stops, what it saves, what the next build makes of it, and the pass  *)
(* over several sections that recovers relationships                       *)
(* (IngestionService.extract_graph_from_chunks).  A batch is known by its  *)
(* place in the document; its concepts are those of its saved result.      *)
(***************************************************************************)
EXTENDS Integers, Sequences, FiniteSets

CONSTANTS Batches,          \* places of the document's batches
          SectionOf,        \* the section of each
          MaxBatches,       \* graph_max_batches
          Linking,          \* graph_global_linking_enabled
          Sparse,           \* whether the sections alone have too few relationships
          Malformed,        \* batches whose answers are never a valid graph
          MaxAbandoned      \* bound on builds that are killed or superseded

BatchesAssumption ==
  /\ Batches \subseteq Nat /\ IsFiniteSet(Batches)
  /\ DOMAIN SectionOf = Batches
  /\ MaxBatches \in Nat \ {0} /\ MaxAbandoned \in Nat
  /\ Linking \in BOOLEAN /\ Sparse \in BOOLEAN
  /\ Malformed \subseteq Batches

INSTANCE GraphBatches WITH MaxSamples <- 9, BatchSize <- 3

VARIABLES saved,       \* the section rows of graph_extraction_checkpoints
          links,       \* the identities of its recovery rows
          result,      \* what the document shows: result_json and the published graph
          build,       \* the build at work
          abandoned    \* how many builds were killed or superseded

vars == <<saved, links, result, build, abandoned>>

Answers == {"nodes", "empty"}
Kinds == {"document", "job"}
NoBuild == [at |-> "idle", kind |-> "document", parts |-> <<>>, todo |-> {}, streak |-> 0,
            failed |-> 0, skipped |-> 0, limited |-> FALSE, known |-> {}, linked |-> FALSE]

-----------------------------------------------------------------------------
\* The relationship recovery pass.

\* The elements of a sequence at some of its places, in its order.
At(parts, places) == [ n \in 1 .. Cardinality(places) |-> parts[Nth(places, n - 1)] ]

WithConcepts(parts, rows) == At(parts, { i \in DOMAIN parts : rows[parts[i]] = "nodes" })

\* The source of a recovery request: the first batch of every section, in the order the
\* completed batches come in, or all batches of a lone section.  Its key is made from it.
Recovery(parts) ==
  LET sections == { SectionOf[parts[i]] : i \in DOMAIN parts }
      Leads(i) == \A j \in 1 .. i - 1 : SectionOf[parts[j]] # SectionOf[parts[i]]
  IN  IF Cardinality(sections) < 2 THEN parts
      ELSE At(parts, { i \in DOMAIN parts : Leads(i) })

\* The pass is asked for where concepts of several sections may be related, or too few are.
WantsRecovery(parts) ==
  /\ Linking /\ parts # <<>>
  /\ Cardinality({ SectionOf[parts[i]] : i \in DOMAIN parts }) >= 2 \/ Sparse

\* recovery_checkpoint_batch: the request that the saved rows alone give, in document order.
SavedBatches(rows) == { b \in Batches : rows[b] # "none" }
Reconstructed(rows) == Recovery(WithConcepts(InOrder(SavedBatches(rows)), rows))

\* The recovery rows a build takes over: all of them, or for a job the one it reconstructs.
RowsFor(kind) ==
  IF kind = "document" THEN links
  ELSE { r \in links : /\ WantsRecovery(WithConcepts(InOrder(SavedBatches(saved)), saved))
                       /\ r = Reconstructed(saved) }

-----------------------------------------------------------------------------
\* assess_graph_status.
Completed(parts) == { parts[i] : i \in DOMAIN parts }
Covered(parts) == \A b \in Batches : b \in Completed(parts)
Assess(parts, rows, failed, skipped, linked) ==
  CASE WithConcepts(parts, rows) = <<>>                              -> "without"
    [] \/ failed > 0 \/ skipped > 0 \/ ~Covered(parts)
       \/ Sparse /\ ~linked                                          -> "partial"
    [] OTHER                                                         -> "ready"

Init ==
  /\ saved = [ b \in Batches |-> "none" ]
  /\ links = {}
  /\ result = [status |-> "none", shown |-> {}, linked |-> FALSE]
  /\ build = NoBuild
  /\ abandoned = 0

(* Variants with a plausible bug: the saved batches are left out of the     *)
(* graph; every batch is a candidate for the budget.                        *)
BeginWithoutSaved(kind) ==
  /\ build.at = "idle" /\ result.status # "ready"
  /\ kind = "job" => result.status # "none"
  /\ LET missing == Batches \ SavedBatches(saved)
         todo    == Select(missing, SectionOf, MaxBatches)
     IN  build' = [NoBuild EXCEPT !.at = "extracting", !.kind = kind, !.todo = todo,
                     !.skipped = Cardinality(missing \ todo), !.known = RowsFor(kind)]
  /\ UNCHANGED <<saved, links, result, abandoned>>

BeginSelectingAll(kind) ==
  /\ build.at = "idle" /\ result.status # "ready"
  /\ kind = "job" => result.status # "none"
  /\ LET chosen == Select(Batches, SectionOf, MaxBatches)
     IN  build' = [NoBuild EXCEPT !.at = "extracting", !.kind = kind, !.todo = chosen \ SavedBatches(saved),
                     !.parts = InOrder(SavedBatches(saved)),
                     !.skipped = Cardinality(Batches \ chosen), !.known = RowsFor(kind)]
  /\ UNCHANGED <<saved, links, result, abandoned>>

(* A build loads the saved rows, takes their batches as done and chooses    *)
(* among the missing ones.  Only a document without a complete graph is     *)
(* built again; a job exists for a READY one.                               *)
Begin(kind) ==
  /\ build.at = "idle" /\ result.status # "ready"
  /\ kind = "job" => result.status # "none"
  /\ LET missing == Batches \ SavedBatches(saved)
         todo    == Select(missing, SectionOf, MaxBatches)
     IN  build' = [NoBuild EXCEPT !.at = "extracting", !.kind = kind, !.todo = todo,
                     !.parts = InOrder(SavedBatches(saved)),
                     !.skipped = Cardinality(missing \ todo), !.known = RowsFor(kind)]
  /\ UNCHANGED <<saved, links, result, abandoned>>

Current(b) == build.at = "extracting" /\ build.todo # {} /\ b = Nth(build.todo, 0)

(* A variant with a plausible bug: an explicitly empty answer is not saved. *)
SucceedSavingConcepts(b, answer) ==
  /\ Current(b) /\ b \notin Malformed
  /\ saved' = IF answer = "nodes" THEN [saved EXCEPT ![b] = answer] ELSE saved
  /\ build' = [build EXCEPT !.parts = Append(@, b), !.todo = @ \ {b}, !.streak = 0]
  /\ UNCHANGED <<links, result, abandoned>>

\* A valid answer, with concepts or explicitly without, is saved before the next request.
Succeed(b, answer) ==
  /\ Current(b) /\ b \notin Malformed
  /\ saved' = [saved EXCEPT ![b] = answer]
  /\ build' = [build EXCEPT !.parts = Append(@, b), !.todo = @ \ {b}, !.streak = 0]
  /\ UNCHANGED <<links, result, abandoned>>

\* GraphStructureError: only this batch is given up; the count of outages stays.
FailStructure(b) ==
  /\ Current(b)
  /\ build' = [build EXCEPT !.failed = @ + 1, !.todo = @ \ {b}]
  /\ UNCHANGED <<saved, links, result, abandoned>>

\* The provider is unavailable, or the backup that is asked after an invalid answer: the second
\* time in a row ends the loop.
FailUnavailable(b) ==
  /\ Current(b)
  /\ LET rest == build.todo \ {b}
         stop == build.streak = 1
     IN  build' = [build EXCEPT !.failed = @ + 1, !.streak = 1,
                     !.todo = IF stop THEN {} ELSE rest,
                     !.skipped = IF stop THEN @ + Cardinality(rest) ELSE @]
  /\ UNCHANGED <<saved, links, result, abandoned>>

\* A quota, or a refusal that any other batch would meet too, ends the loop; so does a backup
\* without quota after an invalid answer, though the other batches would get a valid one.
FailForAll(b, quota) ==
  /\ Current(b)
  /\ build' = [build EXCEPT !.failed = @ + 1, !.todo = {}, !.limited = quota,
                 !.skipped = @ + Cardinality(build.todo \ {b})]
  /\ UNCHANGED <<saved, links, result, abandoned>>

EndLoop(wanted) ==
  /\ build.at = "extracting" /\ build.todo = {}
  /\ wanted = (~build.limited /\ WantsRecovery(WithConcepts(build.parts, saved)))
  /\ build' = [build EXCEPT !.at = IF wanted THEN "linking" ELSE "publishing"]
  /\ UNCHANGED <<saved, links, result, abandoned>>

Request == Recovery(WithConcepts(build.parts, saved))

LinkFromSaved ==
  /\ build.at = "linking" /\ Request \in build.known
  /\ build' = [build EXCEPT !.at = "publishing", !.linked = TRUE]
  /\ UNCHANGED <<saved, links, result, abandoned>>

\* A graph job saves a recovery only under the identity it reconstructs from the rows.
LinkAnew ==
  /\ build.at = "linking" /\ Request \notin build.known
  /\ build.kind = "job" => Request = Reconstructed(saved)
  /\ links' = links \cup {Request}
  /\ build' = [build EXCEPT !.at = "publishing", !.linked = TRUE]
  /\ UNCHANGED <<saved, result, abandoned>>

\* Otherwise save_checkpoint raises, the build ends, and its lease runs out.
LinkRefused ==
  /\ build.at = "linking" /\ Request \notin build.known
  /\ build.kind = "job" /\ Request # Reconstructed(saved)
  /\ build' = NoBuild
  /\ UNCHANGED <<saved, links, result, abandoned>>

LinkFails(quota) ==
  /\ build.at = "linking" /\ Request \notin build.known
  /\ build' = [build EXCEPT !.at = "publishing", !.limited = quota]
  /\ UNCHANGED <<saved, links, result, abandoned>>

\* A job that met a quota is deferred or left to its lease, and shows nothing.
Defer ==
  /\ build.at = "publishing" /\ build.kind = "job" /\ build.limited
  /\ build' = NoBuild
  /\ UNCHANGED <<saved, links, result, abandoned>>

Publish ==
  /\ build.at = "publishing" /\ ~(build.kind = "job" /\ build.limited)
  /\ result' = [status |-> Assess(build.parts, saved, build.failed, build.skipped, build.linked),
                shown  |-> Completed(WithConcepts(build.parts, saved)),
                linked |-> build.linked]
  /\ build' = NoBuild
  /\ UNCHANGED <<saved, links, abandoned>>

\* The worker is killed, or a save finds another execution or claim in its place.
Abandon ==
  /\ build.at # "idle" /\ abandoned < MaxAbandoned
  /\ abandoned' = abandoned + 1
  /\ build' = NoBuild
  /\ UNCHANGED <<saved, links, result>>

Fail == \E b \in Batches :
  FailStructure(b) \/ FailUnavailable(b) \/ \E quota \in BOOLEAN : FailForAll(b, quota)
Link == LinkFromSaved \/ LinkAnew \/ LinkRefused \/ \E quota \in BOOLEAN : LinkFails(quota)
Work ==
  \/ \E b \in Batches : \E answer \in Answers : Succeed(b, answer)
  \/ Fail
  \/ \E wanted \in BOOLEAN : EndLoop(wanted)
  \/ Link \/ Defer \/ Publish

Next == (\E kind \in Kinds : Begin(kind)) \/ Work \/ Abandon

Spec == Init /\ [][Next]_vars

\* Builds go on while someone asks for them; asked again and again about a batch whose
\* answers are not always malformed, some provider of the route answers.
Fairness ==
  /\ WF_vars(\E kind \in Kinds : Begin(kind))
  /\ WF_vars(Work)
  /\ \A b \in Batches \ Malformed : SF_vars(\E answer \in Answers : Succeed(b, answer))

FairSpec == Spec /\ Fairness

-----------------------------------------------------------------------------
TypeOK ==
  /\ saved \in [Batches -> Answers \cup {"none"}]
  /\ links \subseteq Seq(Batches)
  /\ result \in [status : {"none", "without", "partial", "ready"}, shown : SUBSET Batches, linked : BOOLEAN]
  /\ build \in [at : {"idle", "extracting", "linking", "publishing"}, kind : Kinds, parts : Seq(Batches),
                todo : SUBSET Batches, streak : 0 .. 1, failed : Nat, skipped : Nat,
                limited : BOOLEAN, known : SUBSET links, linked : BOOLEAN]
  /\ abandoned \in 0 .. MaxAbandoned

(***************************************************************************)
(* A document is shown as GRAPH_READY only when every batch of it has a    *)
(* saved result and the graph holds the concepts of all of them, whatever  *)
(* failed, was skipped or was taken over in the builds before              *)
(* (graph_result_metadata over the counts of extract_graph_from_chunks).   *)
(***************************************************************************)
ReadyMeansComplete ==
  /\ TypeOK
  /\ result.status = "ready" =>
       /\ SavedBatches(saved) = Batches
       /\ result.shown = { b \in Batches : saved[b] = "nodes" }

(***************************************************************************)
(* What was once extracted stays: no build asks again about a saved batch  *)
(* ("only missing compatible batches are requested next time"), and no     *)
(* build replaces the graph by one without a section it showed before.     *)
(***************************************************************************)
ExtractedIsKept ==
  [][ /\ \A b \in Batches : saved[b] # "none" => saved'[b] = saved[b]
      /\ result.shown \subseteq result'.shown ]_vars

(***************************************************************************)
(* While builds go on, every batch that a provider can answer is answered  *)
(* and saved in the end, although each build stops early on quotas and     *)
(* outages, may send only MaxBatches requests, and spends one of them, each*)
(* time, on a batch that always fails.  One thing may hold a batch up for  *)
(* ever: that from some time on every build ends at an earlier batch whose *)
(* answers are malformed, its backup being out of quota or unavailable.    *)
(***************************************************************************)
GetsPast(m) == Current(m) /\ build'.at = "extracting" /\ build'.todo = build.todo \ {m}

HeldUpBefore(b) ==
  \E m \in { n \in Malformed : n < b } : []<>Current(m) /\ <>[][~GetsPast(m)]_vars

EveryBatchSettles ==
  \A b \in Batches \ Malformed : <>(saved[b] # "none") \/ HeldUpBefore(b)
=============================================================================
