-------------------------------- MODULE Query --------------------------------
(***************************************************************************)
(* A question to a course, while its documents are rebuilt, fail and are   *)
(* removed (query_conceptgraph, CourseService.get_ready_context,           *)
(* RetrievalService).  The question reads the rows once and gives its      *)
(* session back; the graph, the vectors and the identifier lookup are      *)
(* separate reads of other stores, each at its own time.  A passage and a  *)
(* concept are known by their document and the attempt that wrote them.    *)
(* The documents' side is what DocumentLifecycle shows of it, with         *)
(* projection fencing on.                                                  *)
(***************************************************************************)
EXTENDS Integers, FiniteSets

CONSTANTS Docs,          \* the rows of the course, numbered in the order of created_at
          Contents,      \* content hashes
          MaxAttempts,
          CandidateLimit \* retrieval_candidate_limit

QueryAssumption ==
  /\ Docs \subseteq Nat /\ IsFiniteSet(Docs)
  /\ MaxAttempts \in Nat \ {0} /\ CandidateLimit \in 1 .. 100

VARIABLES rows,      \* document_uploads
          points,    \* the attempts with passages in Qdrant
          graph,     \* the attempt whose concepts are in Neo4j, 0 if none
          question,
          wasReady   \* history: the attempts that have been READY

vars == <<rows, points, graph, question, wasReady>>

Attempts == 1 .. MaxAttempts
Modes == {"vector_only", "one_hop", "two_hop"}
Idle == [at |-> "idle", scope |-> {}, concepts |-> {}, matched |-> FALSE, total |-> 0,
         dense |-> {}, chunks |-> {}, sources |-> {}, prompt |-> {}]

TypeOK ==
  /\ rows \in [Docs -> [at : {"cleanup", "index", "build", "complete", "READY", "FAILED", "removed"},
                        content : Contents, attempt : Attempts, deleting : BOOLEAN]]
  /\ points \subseteq Docs \X Attempts
  /\ graph \in [Docs -> 0 .. MaxAttempts]
  /\ wasReady \subseteq Docs \X Attempts
  /\ question.scope \subseteq Docs \X Attempts

Init ==
  /\ rows \in [Docs -> [at : {"cleanup"}, content : Contents, attempt : {1}, deleting : {FALSE}]]
  /\ points = {}
  /\ graph = [ d \in Docs |-> 0 ]
  /\ question = Idle
  /\ wasReady = {}

-----------------------------------------------------------------------------
\* The documents.

Current(d) == <<d, rows[d].attempt>>
Moved(d, to) == rows' = [rows EXCEPT ![d].at = to]

CleanUp(d) ==
  /\ rows[d].at = "cleanup" /\ Moved(d, "index")
  /\ points' = { p \in points : p[1] # d }
  /\ UNCHANGED <<graph, question, wasReady>>

Index(d) ==
  /\ rows[d].at = "index" /\ Moved(d, "build")
  /\ points' = points \cup {Current(d)}
  /\ UNCHANGED <<graph, question, wasReady>>

BuildGraph(d) ==
  /\ rows[d].at = "build" /\ Moved(d, "complete")
  /\ graph' = [graph EXCEPT ![d] = rows[d].attempt]
  /\ UNCHANGED <<points, question, wasReady>>

Complete(d) ==
  /\ rows[d].at = "complete" /\ Moved(d, "READY")
  /\ wasReady' = wasReady \cup {Current(d)}
  /\ UNCHANGED <<points, graph, question>>

\* A failed attempt takes back what it wrote, the graph first, so far as the stores answer; an
\* interrupted one takes back nothing.
Fail(d, tidied) ==
  /\ rows[d].at \in {"cleanup", "index", "build", "complete"} /\ Moved(d, "FAILED")
  /\ points' = IF "points" \in tidied THEN points \ {Current(d)} ELSE points
  /\ graph' = IF "graph" \in tidied THEN [graph EXCEPT ![d] = 0] ELSE graph
  /\ UNCHANGED <<question, wasReady>>

\* A READY document with an incomplete graph, or a failed one, gets another attempt.
Rebuild(d) ==
  /\ rows[d].at \in {"READY", "FAILED"} /\ ~rows[d].deleting /\ rows[d].attempt < MaxAttempts
  /\ rows' = [rows EXCEPT ![d].at = "cleanup", ![d].attempt = @ + 1]
  /\ UNCHANGED <<points, graph, question, wasReady>>

RequestRemoval(d) ==
  /\ rows[d].at \in {"READY", "FAILED"} /\ ~rows[d].deleting
  /\ rows' = [rows EXCEPT ![d].deleting = TRUE]
  /\ UNCHANGED <<points, graph, question, wasReady>>

Remove(d) ==
  /\ rows[d].deleting /\ Moved(d, "removed")
  /\ rows[d].at # "removed"
  /\ points' = { p \in points : p[1] # d }
  /\ graph' = [graph EXCEPT ![d] = 0]
  /\ UNCHANGED <<question, wasReady>>

-----------------------------------------------------------------------------
\* The question.

Usable(d) == rows[d].at = "READY" /\ ~rows[d].deleting

\* get_ready_context: of the rows with one content, from before uploads were admitted by
\* content, the one that was created last.
ReadyDocuments ==
  { d \in Docs : Usable(d) /\ \A e \in Docs : Usable(e) /\ rows[e].content = rows[d].content => e <= d }

InScope(d) == \E p \in question.scope : p[1] = d

(* A variant with a plausible bug: the document is looked for, not the     *)
(* execution that was READY.                                               *)
VectorScopeByDocument == { p \in points : InScope(p[1]) }

\* _vector_scope_filter: each document with the execution that was READY.
VectorScope == points \cap question.scope

\* The graph is asked for the documents alone.
GraphScope == { <<d, graph[d]>> : d \in { e \in Docs : InScope(e) /\ graph[e] # 0 } }

Step(from, q) == question.at = from /\ question' = q /\ UNCHANGED <<rows, points, graph, wasReady>>

\* Without a READY document, 409.
Resolve(mode) ==
  /\ ReadyDocuments # {}
  /\ Step("idle", [Idle EXCEPT !.at = IF mode = "vector_only" THEN "reserve" ELSE "match",
                               !.scope = { Current(d) : d \in ReadyDocuments }])

\* The concepts that a term of the question names, with what leads to them.
Match(anchors) ==
  /\ anchors \subseteq GraphScope
  /\ Step("match", [question EXCEPT !.at = IF anchors = {} THEN "course_graph" ELSE "totals",
                                    !.concepts = anchors, !.matched = anchors # {}])

\* None: the course's graph, to look at.
CourseGraph == Step("course_graph", [question EXCEPT !.at = "totals", !.concepts = GraphScope])

Totals == Step("totals", [question EXCEPT !.at = "reserve", !.total = Cardinality(GraphScope)])

\* Any failure of these, or five seconds: retrieval starts over without the graph.
GraphFails ==
  \E at \in {"match", "course_graph", "totals"} :
    Step(at, [Idle EXCEPT !.at = "reserve", !.scope = question.scope])

\* Hosted embeddings are reserved from the shared budget.
Reserve == Step("reserve", [question EXCEPT !.at = "dense"])

Least(m, n) == IF m < n THEN m ELSE n

\* The nearest passages in scope.
Dense(found) ==
  /\ found \subseteq VectorScope
  /\ Cardinality(found) = Least(CandidateLimit, Cardinality(VectorScope))
  /\ Step("dense", [question EXCEPT !.at = "lexical", !.dense = found])

\* Passages with an identifier of the question; none when it has none, or the lookup fails.
\* Rank fusion keeps the best of both.
Lexical(found, kept) ==
  /\ found \subseteq VectorScope /\ Cardinality(found) <= CandidateLimit
  /\ IF found = {} THEN kept = question.dense
     ELSE /\ kept \subseteq question.dense \cup found
          /\ Cardinality(kept) = Least(CandidateLimit, Cardinality(question.dense \cup found))
  /\ Step("lexical", [question EXCEPT !.at = "rank", !.chunks = kept])

\* Reranking, and the passages with enough evidence; without a passage to rank, 409.
Rank(cited) ==
  /\ question.chunks # {} /\ cited \subseteq question.chunks
  /\ Step("rank", [question EXCEPT !.at = IF cited = {} THEN "idle" ELSE "generate", !.sources = cited])

\* Only a graph that the question named goes into the prompt.
Generate ==
  Step("generate", [question EXCEPT !.at = "answered",
                                    !.prompt = IF question.matched THEN question.concepts ELSE {}])

\* 503 or 409: the budget, a store, the reranker or every provider refuses, or no passage is left.
Refuse == \E at \in {"reserve", "dense", "rank", "generate"} : Step(at, Idle)

Close == Step("answered", Idle)

Next ==
  \/ \E d \in Docs : \/ CleanUp(d) \/ Index(d) \/ BuildGraph(d) \/ Complete(d)
                     \/ \E tidied \in {{}, {"graph"}, {"graph", "points"}} : Fail(d, tidied)
                     \/ Rebuild(d) \/ RequestRemoval(d) \/ Remove(d)
  \/ \E mode \in Modes : Resolve(mode)
  \/ \E anchors \in SUBSET GraphScope : Match(anchors)
  \/ CourseGraph \/ Totals \/ GraphFails \/ Reserve
  \/ \E found \in SUBSET VectorScope : Dense(found)
  \/ \E found \in SUBSET VectorScope : \E kept \in SUBSET (question.dense \cup found) : Lexical(found, kept)
  \/ \E cited \in SUBSET question.chunks : Rank(cited)
  \/ Generate \/ Refuse \/ Close

Spec == Init /\ [][Next]_vars

-----------------------------------------------------------------------------
\* The course list (list_summaries); `updated` is the order in which the rows were last updated.

Stored == { d \in Docs : rows[d].at # "removed" }
Updates == { u \in [Docs -> Docs] : \A d, e \in Docs : u[d] = u[e] => d = e }

Status(d) == CASE rows[d].at = "READY" -> "ready" [] rows[d].at = "FAILED" -> "failed" [] OTHER -> "active"
StatusRank == [ready |-> 0, active |-> 1, failed |-> 2]

\* The order of the rows: by status, then by update; what is being removed comes last.
ByStatus(updated, d, e) ==
  \/ StatusRank[Status(d)] < StatusRank[Status(e)]
  \/ Status(d) = Status(e) /\ updated[d] > updated[e]
SortsBefore(updated, d, e) ==
  IF rows[d].deleting = rows[e].deleting THEN ByStatus(updated, d, e) ELSE rows[e].deleting

\* The first row of each content stands for it; the others count as duplicates.
Canonical(updated) ==
  { d \in Stored : \A e \in Stored \ {d} : rows[e].content = rows[d].content => SortsBefore(updated, d, e) }

\* total_documents and ready_documents.
Total(updated) == Cardinality(Canonical(updated))
Ready(updated) == Cardinality({ d \in Canonical(updated) : Usable(d) })

-----------------------------------------------------------------------------
(***************************************************************************)
(* An answer cites passages of executions that were READY, all of the one  *)
(* execution of their document, and no content twice under two documents;  *)
(* the concepts in its prompt are of documents that were READY when it was *)
(* asked, whatever is rebuilt, fails or is removed between its reads       *)
(* (get_ready_context, _vector_scope_filter, search_qdrant).               *)
(***************************************************************************)
CitesOneReadyExecution ==
  /\ TypeOK
  /\ question.at = "answered" =>
       /\ question.sources \subseteq wasReady
       /\ \A p, q \in question.sources : rows[p[1]].content = rows[q[1]].content => p = q
       /\ { p[1] : p \in question.prompt } \subseteq { p[1] : p \in question.scope }

(***************************************************************************)
(* The course list counts what a question is answered from: in whatever    *)
(* order rows were updated, as many documents are READY there as the scope *)
(* of a question asked now would have, so that a course with none is the   *)
(* one that is refused; and each content that is stored counts once        *)
(* (list_summaries, get_ready_context).                                    *)
(***************************************************************************)
CountsWhatIsAsked ==
  \A updated \in Updates :
    /\ Ready(updated) = Cardinality(ReadyDocuments)
    /\ Total(updated) = Cardinality({ rows[d].content : d \in Stored })
===============================================================================
