----------------------------- MODULE QueryProofs -----------------------------
(***************************************************************************)
(* Proofs about Query, for any documents, contents and attempts and any    *)
(* limit of candidates: an answer cites the executions that were READY     *)
(* when it was asked, whatever happens between its reads.  Then about the  *)
(* pages that show it (Dashboard, UploadPages) and what a question reads   *)
(* of the concept graph (GraphReads).                                      *)
(***************************************************************************)
EXTENDS Query, Sequences, FiniteSetTheorems, WellFoundedInduction, TLAPS

Stages == {"cleanup", "index", "build", "complete", "READY", "FAILED", "removed"}
Rows ==
  [at : Stages, content : Contents, attempt : Attempts, deleting : BOOLEAN]
Passages == Docs \X Attempts
Concepts == Docs \X Nat
Stops == {"idle", "match", "course_graph", "totals", "reserve", "dense", "lexical", "rank",
          "generate", "answered"}
Questions ==
  [at : Stops, scope : SUBSET Passages, concepts : SUBSET Concepts, matched : BOOLEAN, total : Nat,
   dense : SUBSET Passages, chunks : SUBSET Passages, sources : SUBSET Passages,
   prompt : SUBSET Concepts]

StoreInv ==
  /\ rows \in [Docs -> Rows]
  /\ points \subseteq Passages
  /\ graph \in [Docs -> 0 .. MaxAttempts]
  /\ wasReady \subseteq Passages

(* What is READY has been READY.                                           *)
ReadyInv == \A d \in Docs : rows[d].at = "READY" => Current(d) \in wasReady

(* One execution of each content, each of which was READY when the         *)
(* question was asked.                                                     *)
ScopeInv ==
  /\ question.scope \subseteq wasReady
  /\ \A p, q \in question.scope : rows[p[1]].content = rows[q[1]].content => p = q

(* What the reads have found so far is in the scope.                       *)
FoundInv ==
  /\ question.dense \subseteq question.scope
  /\ question.chunks \subseteq question.scope
  /\ question.sources \subseteq question.scope
  /\ \A g \in question.concepts \cup question.prompt : InScope(g[1])

IInv == StoreInv /\ question \in Questions /\ ReadyInv /\ ScopeInv /\ FoundInv

-----------------------------------------------------------------------------
LEMMA GraphScopeFacts ==
  ASSUME QueryAssumption, StoreInv
  PROVE  /\ GraphScope \subseteq Concepts
         /\ Cardinality(GraphScope) \in Nat
         /\ \A g \in GraphScope : InScope(g[1])
<1> DEFINE chosen == { e \in Docs : InScope(e) /\ graph[e] # 0 }
<1>1. GraphScope = { <<d, graph[d]>> : d \in chosen }
  BY DEF GraphScope
<1>2. \A d \in chosen : d \in Docs /\ graph[d] \in Nat /\ InScope(d)
  BY DEF StoreInv, QueryAssumption
<1>3. IsFiniteSet(chosen)
  BY FS_Subset DEF QueryAssumption
<1> HIDE DEF chosen
<1>4. IsFiniteSet(GraphScope)
  <2> DEFINE f == [d \in chosen |-> <<d, graph[d]>>]
  <2>1. f \in Surjection(chosen, GraphScope)
    BY <1>1 DEF Surjection
  <2>2. QED
    BY <1>3, <2>1, FS_Surjection
<1>5. QED
  BY <1>1, <1>2, <1>4, FS_CardinalityType DEF Concepts

(* A document's step: its content stays, and what was READY.               *)
DocumentStep(d) ==
  \/ CleanUp(d) \/ Index(d) \/ BuildGraph(d) \/ Complete(d)
  \/ \E tidied \in {{}, {"graph"}, {"graph", "points"}} : Fail(d, tidied)
  \/ Rebuild(d) \/ RequestRemoval(d) \/ Remove(d)

LEMMA StageField ==
  ASSUME NEW r \in Rows, NEW at \in Stages
  PROVE  /\ [r EXCEPT !.at = at] \in Rows
         /\ [r EXCEPT !.at = at].at = at
         /\ [r EXCEPT !.at = at].content = r.content
         /\ [r EXCEPT !.at = at].attempt = r.attempt
BY DEF Rows, Stages

LEMMA DeletingField ==
  ASSUME NEW r \in Rows
  PROVE  /\ [r EXCEPT !.deleting = TRUE] \in Rows
         /\ [r EXCEPT !.deleting = TRUE].at = r.at
         /\ [r EXCEPT !.deleting = TRUE].content = r.content
         /\ [r EXCEPT !.deleting = TRUE].attempt = r.attempt
BY DEF Rows

LEMMA AttemptField ==
  ASSUME NEW r \in Rows, NEW n \in Attempts
  PROVE  /\ [r EXCEPT !.at = "cleanup", !.attempt = n] \in Rows
         /\ [r EXCEPT !.at = "cleanup", !.attempt = n].at = "cleanup"
         /\ [r EXCEPT !.at = "cleanup", !.attempt = n].content = r.content
BY DEF Rows, Stages

LEMMA StoreStep ==
  ASSUME QueryAssumption, StoreInv, ReadyInv, NEW d \in Docs, DocumentStep(d)
  PROVE  /\ StoreInv' /\ ReadyInv'
         /\ question' = question
         /\ wasReady \subseteq wasReady'
         /\ \A e \in Docs : rows'[e].content = rows[e].content
<1>1. /\ rows[d] \in Rows /\ rows[d].attempt \in Attempts /\ Current(d) \in Passages
      /\ MaxAttempts \in Nat /\ Attempts = 1 .. MaxAttempts
  BY DEF StoreInv, Rows, Current, Passages, QueryAssumption, Attempts
<1>2. ASSUME NEW r \in Rows, r.content = rows[d].content, rows' = [rows EXCEPT ![d] = r]
      PROVE  /\ rows' \in [Docs -> Rows] /\ rows'[d] = r
             /\ \A e \in Docs \ {d} : rows'[e] = rows[e]
             /\ \A e \in Docs : rows'[e].content = rows[e].content
  BY <1>2 DEF StoreInv
<1>3. ASSUME NEW at \in Stages, Moved(d, at)
      PROVE  /\ rows' \in [Docs -> Rows] /\ rows'[d].at = at /\ rows'[d].attempt = rows[d].attempt
             /\ \A e \in Docs \ {d} : rows'[e] = rows[e]
             /\ \A e \in Docs : rows'[e].content = rows[e].content
  <2>1. rows' = [rows EXCEPT ![d] = [rows[d] EXCEPT !.at = at]]
    BY <1>3 DEF Moved
  <2>2. /\ [rows[d] EXCEPT !.at = at] \in Rows
        /\ [rows[d] EXCEPT !.at = at].at = at
        /\ [rows[d] EXCEPT !.at = at].content = rows[d].content
        /\ [rows[d] EXCEPT !.at = at].attempt = rows[d].attempt
    BY <1>1, StageField, Zenon
  <2>3. QED
    BY <1>2, <2>1, <2>2, Zenon
<1>4. ASSUME NEW at \in Stages \ {"READY"}, Moved(d, at), wasReady' = wasReady
      PROVE  ReadyInv'
  BY <1>3, <1>4 DEF ReadyInv, Current
<1>5. CASE CleanUp(d)
  BY <1>3, <1>4, <1>5 DEF CleanUp, StoreInv, Stages
<1>6. CASE Index(d)
  BY <1>1, <1>3, <1>4, <1>6 DEF Index, StoreInv, Stages
<1>7. CASE BuildGraph(d)
  BY <1>1, <1>3, <1>4, <1>7 DEF BuildGraph, StoreInv, Stages
<1>8. CASE Complete(d)
  <2>1. Moved(d, "READY") /\ wasReady' = wasReady \cup {Current(d)} /\ UNCHANGED <<points, graph, question>>
    BY <1>8 DEF Complete
  <2>2. /\ rows' \in [Docs -> Rows] /\ rows'[d].attempt = rows[d].attempt
        /\ \A e \in Docs \ {d} : rows'[e] = rows[e]
        /\ \A e \in Docs : rows'[e].content = rows[e].content
    BY <1>3, <2>1 DEF Stages
  <2>3. StoreInv'
    BY <1>1, <2>1, <2>2 DEF StoreInv
  <2>4. ReadyInv'
    BY <2>1, <2>2 DEF ReadyInv, Current
  <2>5. QED
    BY <2>1, <2>2, <2>3, <2>4
<1>9. ASSUME NEW tidied, Fail(d, tidied)
      PROVE  /\ StoreInv' /\ ReadyInv' /\ UNCHANGED <<question, wasReady>>
             /\ \A e \in Docs : rows'[e].content = rows[e].content
  BY <1>1, <1>3, <1>4, <1>9 DEF Fail, StoreInv, Stages
<1>10. CASE Rebuild(d)
  <2> DEFINE n == rows[d].attempt + 1
  <2>1. n \in Attempts /\ UNCHANGED <<points, graph, question, wasReady>>
    BY <1>1, <1>10 DEF Rebuild
  <2>2. rows' = [rows EXCEPT ![d] = [rows[d] EXCEPT !.at = "cleanup", !.attempt = n]]
    BY <1>1, <1>10 DEF Rebuild, StoreInv
  <2> HIDE DEF n
  <2>3. /\ [rows[d] EXCEPT !.at = "cleanup", !.attempt = n] \in Rows
        /\ [rows[d] EXCEPT !.at = "cleanup", !.attempt = n].at = "cleanup"
        /\ [rows[d] EXCEPT !.at = "cleanup", !.attempt = n].content = rows[d].content
    BY <1>1, <2>1, AttemptField, Zenon
  <2>4. /\ rows' \in [Docs -> Rows] /\ rows'[d].at = "cleanup"
        /\ \A e \in Docs \ {d} : rows'[e] = rows[e]
        /\ \A e \in Docs : rows'[e].content = rows[e].content
    BY <1>2, <2>2, <2>3, Zenon
  <2>5. QED
    BY <2>1, <2>4 DEF StoreInv, ReadyInv, Current
<1>11. CASE RequestRemoval(d)
  <2>1. /\ rows' = [rows EXCEPT ![d] = [rows[d] EXCEPT !.deleting = TRUE]]
        /\ UNCHANGED <<points, graph, question, wasReady>>
    BY <1>11 DEF RequestRemoval
  <2>2. /\ [rows[d] EXCEPT !.deleting = TRUE] \in Rows
        /\ [rows[d] EXCEPT !.deleting = TRUE].at = rows[d].at
        /\ [rows[d] EXCEPT !.deleting = TRUE].content = rows[d].content
        /\ [rows[d] EXCEPT !.deleting = TRUE].attempt = rows[d].attempt
    BY <1>1, DeletingField, Zenon
  <2>3. /\ rows' \in [Docs -> Rows] /\ rows'[d].at = rows[d].at /\ rows'[d].attempt = rows[d].attempt
        /\ \A e \in Docs \ {d} : rows'[e] = rows[e]
        /\ \A e \in Docs : rows'[e].content = rows[e].content
    BY <1>2, <2>1, <2>2, Zenon
  <2>4. QED
    BY <2>1, <2>3 DEF StoreInv, ReadyInv, Current
<1>12. CASE Remove(d)
  BY <1>1, <1>3, <1>4, <1>12 DEF Remove, StoreInv, Stages
<1>13. QED
  BY <1>5, <1>6, <1>7, <1>8, <1>9, <1>10, <1>11, <1>12 DEF DocumentStep

-----------------------------------------------------------------------------
(* The steps of a question.                                                *)
AskStep ==
  \/ \E mode \in Modes : Resolve(mode)
  \/ \E anchors \in SUBSET GraphScope : Match(anchors)
  \/ CourseGraph \/ Totals \/ GraphFails \/ Reserve
  \/ \E found \in SUBSET VectorScope : Dense(found)
  \/ \E found \in SUBSET VectorScope : \E kept \in SUBSET (question.dense \cup found) : Lexical(found, kept)
  \/ \E cited \in SUBSET question.chunks : Rank(cited)
  \/ Generate \/ Refuse \/ Close

(* The latest of each content, with the execution that is READY.           *)
LEMMA ReadyScope ==
  ASSUME QueryAssumption, StoreInv, ReadyInv
  PROVE  LET scope == { Current(d) : d \in ReadyDocuments }
         IN  /\ scope \subseteq wasReady
             /\ \A p, q \in scope : rows[p[1]].content = rows[q[1]].content => p = q
<1> DEFINE scope == { Current(d) : d \in ReadyDocuments }
<1>1. \A d \in ReadyDocuments : d \in Docs /\ Usable(d) /\ Current(d) \in wasReady
  BY DEF ReadyDocuments, Usable, ReadyInv
<1>2. ASSUME NEW d \in ReadyDocuments, NEW e \in ReadyDocuments, rows[d].content = rows[e].content
      PROVE  d = e
  <2>1. d \in Nat /\ e \in Nat
    BY <1>1 DEF QueryAssumption
  <2>2. d <= e /\ e <= d
    BY <1>1, <1>2 DEF ReadyDocuments
  <2>3. QED
    BY <2>1, <2>2
<1>3. \A d \in ReadyDocuments : Current(d)[1] = d
  BY DEF Current
<1>4. scope \subseteq wasReady
  BY <1>1
<1>5. ASSUME NEW p \in scope, NEW q \in scope, rows[p[1]].content = rows[q[1]].content
      PROVE  p = q
  <2>1. PICK d \in ReadyDocuments : p = Current(d)
    OBVIOUS
  <2>2. PICK e \in ReadyDocuments : q = Current(e)
    OBVIOUS
  <2>3. d = e
    BY <1>2, <1>3, <1>5, <2>1, <2>2
  <2>4. QED
    BY <2>1, <2>2, <2>3
<1>6. QED
  BY <1>4, <1>5

LEMMA AskingStep ==
  ASSUME QueryAssumption, IInv, AskStep
  PROVE  /\ UNCHANGED <<rows, points, graph, wasReady>>
         /\ question' \in Questions /\ ScopeInv' /\ FoundInv'
<1> USE DEF IInv, Step
<1>1. /\ question \in Questions /\ question.scope \subseteq Passages
      /\ wasReady \subseteq Passages /\ Idle \in Questions
  BY DEF Questions, StoreInv, Idle, Stops
<1>2. /\ GraphScope \subseteq Concepts /\ Cardinality(GraphScope) \in Nat
      /\ \A g \in GraphScope : InScope(g[1])
  BY GraphScopeFacts
<1>3. VectorScope \subseteq question.scope
  BY DEF VectorScope
<1>4. UNCHANGED <<rows, points, graph, wasReady>>
  BY DEF AskStep, Resolve, Match, CourseGraph, Totals, GraphFails, Reserve, Dense, Lexical, Rank,
         Generate, Refuse, Close
(* Most steps keep the scope.                                              *)
<1>5. ASSUME question' \in Questions, question'.scope = question.scope,
             question'.dense \subseteq question.scope, question'.chunks \subseteq question.scope,
             question'.sources \subseteq question.scope,
             \A g \in question'.concepts \cup question'.prompt : InScope(g[1])
      PROVE  question' \in Questions /\ ScopeInv' /\ FoundInv'
  BY <1>4, <1>5 DEF ScopeInv, FoundInv, InScope
<1>6. ASSUME question' = Idle
      PROVE  question' \in Questions /\ ScopeInv' /\ FoundInv'
  <2>1. /\ question'.scope = {} /\ question'.dense = {} /\ question'.chunks = {}
        /\ question'.sources = {} /\ question'.concepts = {} /\ question'.prompt = {}
    BY <1>6 DEF Idle
  <2>2. QED
    BY <1>1, <1>6, <2>1 DEF ScopeInv, FoundInv
<1>7. ASSUME NEW mode \in Modes, Resolve(mode)
      PROVE  question' \in Questions /\ ScopeInv' /\ FoundInv'
  <2> DEFINE scope == { Current(d) : d \in ReadyDocuments }
  <2> DEFINE at == IF mode = "vector_only" THEN "reserve" ELSE "match"
  <2>1. question' = [Idle EXCEPT !.at = at, !.scope = scope]
    BY <1>7 DEF Resolve
  <2>2. scope \subseteq wasReady /\ \A p, q \in scope : rows[p[1]].content = rows[q[1]].content => p = q
    BY ReadyScope
  <2>3. at \in Stops
    BY DEF Stops
  <2> HIDE DEF scope, at
  <2>4. /\ question'.scope = scope /\ question'.dense = {} /\ question'.chunks = {}
        /\ question'.sources = {} /\ question'.concepts = {} /\ question'.prompt = {}
        /\ question' \in Questions
    BY <1>1, <2>1, <2>2, <2>3 DEF Idle, Questions
  <2>5. ScopeInv' /\ FoundInv'
    BY <1>4, <2>2, <2>4 DEF ScopeInv, FoundInv
  <2>6. QED
    BY <2>4, <2>5
<1>8. ASSUME NEW anchors \in SUBSET GraphScope, Match(anchors)
      PROVE  question' \in Questions /\ ScopeInv' /\ FoundInv'
  BY <1>1, <1>2, <1>5, <1>8 DEF Match, Questions, Stops, FoundInv
<1>9. CASE CourseGraph
  BY <1>1, <1>2, <1>5, <1>9 DEF CourseGraph, Questions, Stops, FoundInv
<1>10. CASE Totals
  BY <1>1, <1>2, <1>5, <1>10 DEF Totals, Questions, Stops, FoundInv
<1>11. CASE GraphFails
  BY <1>1, <1>5, <1>11 DEF GraphFails, Questions, Stops, Idle
<1>12. CASE Reserve
  BY <1>1, <1>5, <1>12 DEF Reserve, Questions, Stops, FoundInv
<1>13. ASSUME NEW found \in SUBSET VectorScope, Dense(found)
       PROVE  question' \in Questions /\ ScopeInv' /\ FoundInv'
  BY <1>1, <1>3, <1>5, <1>13 DEF Dense, Questions, Stops, FoundInv
<1>14. ASSUME NEW found \in SUBSET VectorScope, NEW kept \in SUBSET (question.dense \cup found),
              Lexical(found, kept)
       PROVE  question' \in Questions /\ ScopeInv' /\ FoundInv'
  BY <1>1, <1>3, <1>5, <1>14 DEF Lexical, Questions, Stops, FoundInv
<1>15. ASSUME NEW cited \in SUBSET question.chunks, Rank(cited)
       PROVE  question' \in Questions /\ ScopeInv' /\ FoundInv'
  BY <1>1, <1>5, <1>15 DEF Rank, Questions, Stops, FoundInv
<1>16. CASE Generate
  BY <1>1, <1>5, <1>16 DEF Generate, Questions, Stops, FoundInv
<1>17. CASE Refuse \/ Close
  BY <1>6, <1>17 DEF Refuse, Close
<1>18. QED
  BY <1>4, <1>7, <1>8, <1>9, <1>10, <1>11, <1>12, <1>13, <1>14, <1>15, <1>16, <1>17 DEF AskStep

-----------------------------------------------------------------------------
LEMMA InitIInv == ASSUME QueryAssumption, Init PROVE IInv
<1>1. 1 \in Attempts /\ 0 \in 0 .. MaxAttempts
  BY DEF QueryAssumption, Attempts
<1>2. \A d \in Docs : rows[d] \in Rows /\ rows[d].at = "cleanup"
  BY <1>1 DEF Init, Rows, Stages
<1>3. StoreInv /\ ReadyInv
  BY <1>1, <1>2 DEF Init, StoreInv, ReadyInv, Rows, Stages
<1>4. question \in Questions /\ ScopeInv /\ FoundInv
  BY DEF Init, Questions, Stops, Idle, ScopeInv, FoundInv
<1>5. QED
  BY <1>3, <1>4 DEF IInv

LEMMA StepIInv == ASSUME QueryAssumption, IInv, [Next]_vars PROVE IInv'
<1>1. ASSUME NEW d \in Docs, DocumentStep(d)
      PROVE  IInv'
  <2>1. /\ StoreInv' /\ ReadyInv' /\ question' = question /\ wasReady \subseteq wasReady'
        /\ \A e \in Docs : rows'[e].content = rows[e].content
    BY <1>1, StoreStep DEF IInv
  <2>2. question \in Questions /\ \A p \in question.scope : p[1] \in Docs
    BY DEF IInv, Questions, Passages
  <2>3. ScopeInv'
    BY <2>1, <2>2 DEF IInv, ScopeInv
  <2>4. FoundInv'
    BY <2>1 DEF IInv, FoundInv, InScope
  <2>5. QED
    BY <2>1, <2>2, <2>3, <2>4 DEF IInv
<1>2. CASE AskStep
  BY <1>2, AskingStep DEF IInv, StoreInv, ReadyInv, Current
<1>3. CASE UNCHANGED vars
  BY <1>3 DEF vars, IInv, StoreInv, ReadyInv, Current, ScopeInv, FoundInv, InScope
<1>4. QED
  BY <1>1, <1>2, <1>3 DEF Next, DocumentStep, AskStep

(* What a question holds was READY when it was asked, and is of its scope. *)
THEOREM Invariance == ASSUME QueryAssumption PROVE Spec => []IInv
<1>1. Init => IInv
  BY InitIInv
<1>2. IInv /\ [Next]_vars => IInv'
  BY StepIInv
<1>3. QED
  BY <1>1, <1>2, PTL DEF Spec

(* An answer cites executions that were READY, one of each document and    *)
(* content, and concepts of documents that were READY, whatever is rebuilt,*)
(* fails or is removed between the reads of its question.                  *)
THEOREM AnswersCiteOneExecution ==
  ASSUME QueryAssumption
  PROVE  Spec => []CitesOneReadyExecution
<1>1. IInv => CitesOneReadyExecution
  <2> SUFFICES ASSUME IInv PROVE CitesOneReadyExecution
    OBVIOUS
  <2>1. TypeOK
    BY DEF IInv, StoreInv, TypeOK, Rows, Stages, Passages, Questions
  <2>2. question.sources \subseteq wasReady
    BY DEF IInv, ScopeInv, FoundInv
  <2>3. \A p, q \in question.sources : rows[p[1]].content = rows[q[1]].content => p = q
    BY DEF IInv, ScopeInv, FoundInv
  <2>4. { p[1] : p \in question.prompt } \subseteq { p[1] : p \in question.scope }
    BY DEF IInv, FoundInv, InScope
  <2>5. QED
    BY <2>1, <2>2, <2>3, <2>4 DEF CitesOneReadyExecution
<1>2. QED
  BY <1>1, Invariance, PTL

-----------------------------------------------------------------------------
(* The course list and the scope of a question.                            *)

(* Of finitely many that are in a strict order, one comes before the       *)
(* others.                                                                 *)
LEMMA FirstOfAll ==
  ASSUME NEW S, IsFiniteSet(S), S # {}, NEW R,
         \A r \in S : <<r, r>> \notin R,
         \A r, s, t \in S : <<r, s>> \in R /\ <<s, t>> \in R => <<r, t>> \in R,
         \A r, s \in S : r # s => <<r, s>> \in R \/ <<s, r>> \in R
  PROVE  \E r \in S : \A s \in S \ {r} : <<r, s>> \in R
<1> DEFINE Before(r) == { s \in S : <<s, r>> \in R }
           family == { Before(r) : r \in S }
           order == StrictSubsetOrdering(S)
<1>1. family \subseteq FiniteSubsetsOf(S) /\ family # {}
  <2>1. \A r \in S : Before(r) \subseteq S /\ IsFiniteSet(Before(r))
    BY FS_Subset
  <2>2. \A r \in S : Before(r) \in FiniteSubsetsOf(S)
    BY <2>1 DEF FiniteSubsetsOf
  <2> HIDE DEF Before
  <2>3. QED
    BY <2>2
<1>2. IsWellFoundedOn(order, FiniteSubsetsOf(S))
  BY FS_StrictSubsetOrderingWellFounded
<1>3. \A r, s \in S : s \in Before(r) => <<Before(s), Before(r)>> \in order
  <2> SUFFICES ASSUME NEW r \in S, NEW s \in S, s \in Before(r)
               PROVE  <<Before(s), Before(r)>> \in order
    OBVIOUS
  <2>1. Before(s) \subseteq Before(r) /\ s \notin Before(s)
    OBVIOUS
  <2>2. Before(s) \in SUBSET S /\ Before(r) \in SUBSET S /\ Before(s) # Before(r)
    BY <2>1
  <2> HIDE DEF Before
  <2>3. QED
    BY <2>1, <2>2 DEF StrictSubsetOrdering
<1> HIDE DEF order
<1>4. PICK x \in family : \A y \in family : ~(<<y, x>> \in order)
  <2> HIDE DEF family
  <2>1. QED
    BY <1>1, <1>2, WFMin
<1>5. PICK r \in S : x = Before(r)
  OBVIOUS
<1>6. Before(r) = {}
  <2>1. ASSUME NEW s \in Before(r) PROVE FALSE
    <3>1. s \in S /\ Before(s) \in family
      OBVIOUS
    <3> HIDE DEF family, Before
    <3>2. QED
      BY <1>3, <1>4, <1>5, <2>1, <3>1
  <2>2. QED
    BY <2>1
<1>7. \A s \in S \ {r} : <<r, s>> \in R
  BY <1>6
<1>8. QED
  BY <1>7

(* The order that the course list sorts rows in is strict and total.       *)
LEMMA BeforeFacts ==
  ASSUME QueryAssumption, StoreInv, NEW u \in Updates
  PROVE  /\ \A d \in Docs : ~SortsBefore(u, d, d)
         /\ \A d, e, f \in Docs : SortsBefore(u, d, e) /\ SortsBefore(u, e, f) => SortsBefore(u, d, f)
         /\ \A d, e \in Docs : d # e => SortsBefore(u, d, e) \/ SortsBefore(u, e, d)
<1> DEFINE rank(d) == StatusRank[Status(d)]
<1>1. \A d \in Docs : rows[d].deleting \in BOOLEAN /\ u[d] \in Nat
  BY DEF StoreInv, Rows, Updates, QueryAssumption
<1>2. \A d \in Docs : Status(d) \in {"ready", "active", "failed"}
  BY DEF Status
<1>3. /\ StatusRank["ready"] = 0 /\ StatusRank["active"] = 1 /\ StatusRank["failed"] = 2
  BY DEF StatusRank
<1>4. \A d \in Docs : rank(d) \in Nat
  BY <1>2, <1>3
<1>5. \A d, e \in Docs : Status(d) = Status(e) <=> rank(d) = rank(e)
  BY <1>2, <1>3
<1>6. \A d, e \in Docs : u[d] = u[e] => d = e
  BY DEF Updates
<1>7. \A d, e \in Docs :
        SortsBefore(u, d, e) <=>
          \/ /\ rows[d].deleting = rows[e].deleting
             /\ rank(d) < rank(e) \/ (rank(d) = rank(e) /\ u[d] > u[e])
          \/ rows[d].deleting # rows[e].deleting /\ rows[e].deleting
  BY <1>1, <1>5 DEF SortsBefore, ByStatus
<1> HIDE DEF rank
<1>8. \A d \in Docs : ~SortsBefore(u, d, d)
  BY <1>1, <1>4, <1>7
<1>9. \A d, e, f \in Docs : SortsBefore(u, d, e) /\ SortsBefore(u, e, f) => SortsBefore(u, d, f)
  BY <1>1, <1>4, <1>7
<1>10. \A d, e \in Docs : d # e => SortsBefore(u, d, e) \/ SortsBefore(u, e, d)
  BY <1>1, <1>4, <1>6, <1>7
<1>11. QED
  BY <1>8, <1>9, <1>10

(* One row stands for each content that is stored.                         *)
LEMMA CanonicalFacts ==
  ASSUME QueryAssumption, StoreInv, NEW u \in Updates
  PROVE  /\ Canonical(u) \subseteq Stored
         /\ \A d, e \in Canonical(u) : rows[d].content = rows[e].content => d = e
         /\ \A d \in Stored : \E c \in Canonical(u) :
              rows[c].content = rows[d].content /\ (c = d \/ SortsBefore(u, c, d))
<1>1. Stored \subseteq Docs /\ Canonical(u) \subseteq Stored
  BY DEF Stored, Canonical
<1>2. ASSUME NEW d \in Canonical(u), NEW e \in Canonical(u), rows[d].content = rows[e].content, d # e
      PROVE  FALSE
  <2>1. SortsBefore(u, d, e) /\ SortsBefore(u, e, d)
    BY <1>1, <1>2 DEF Canonical
  <2>2. QED
    BY <1>1, <2>1, BeforeFacts
<1>3. ASSUME NEW d \in Stored
      PROVE  \E c \in Canonical(u) : rows[c].content = rows[d].content /\ (c = d \/ SortsBefore(u, c, d))
  <2> DEFINE same == { e \in Stored : rows[e].content = rows[d].content }
             order == { pair \in Docs \X Docs : SortsBefore(u, pair[1], pair[2]) }
  <2>1. \A e, f \in same : <<e, f>> \in order <=> SortsBefore(u, e, f)
    BY <1>1
  <2>2. same \subseteq Docs /\ d \in same
    BY <1>1
  <2>3. IsFiniteSet(same)
    BY <2>2, FS_Subset DEF QueryAssumption
  <2> HIDE DEF order, same
  <2>4. /\ \A e \in same : <<e, e>> \notin order
        /\ \A e, f, g \in same : <<e, f>> \in order /\ <<f, g>> \in order => <<e, g>> \in order
        /\ \A e, f \in same : e # f => <<e, f>> \in order \/ <<f, e>> \in order
    BY <2>1, <2>2, BeforeFacts
  <2>5. PICK c \in same : \A e \in same \ {c} : <<c, e>> \in order
    BY <2>2, <2>3, <2>4, FirstOfAll
  <2>6. \A e \in same \ {c} : SortsBefore(u, c, e)
    BY <2>1, <2>5
  <2>7. c \in Canonical(u) /\ rows[c].content = rows[d].content
    BY <2>6 DEF Canonical, same
  <2>8. QED
    BY <2>2, <2>6, <2>7
<1>4. QED
  BY <1>1, <1>2, <1>3

(* And one for each that a question may be answered from.                  *)
LEMMA ReadyFacts ==
  ASSUME QueryAssumption, StoreInv
  PROVE  /\ ReadyDocuments \subseteq Docs
         /\ \A d, e \in ReadyDocuments : rows[d].content = rows[e].content => d = e
         /\ \A d \in Docs : Usable(d) => \E c \in ReadyDocuments : rows[c].content = rows[d].content
<1>1. ReadyDocuments \subseteq Docs /\ \A d \in Docs : d \in Nat
  BY DEF ReadyDocuments, QueryAssumption
<1>2. ASSUME NEW d \in ReadyDocuments, NEW e \in ReadyDocuments, rows[d].content = rows[e].content
      PROVE  d = e
  <2>1. d <= e /\ e <= d
    BY <1>2 DEF ReadyDocuments
  <2>2. QED
    BY <1>1, <2>1
<1>3. ASSUME NEW d \in Docs, Usable(d)
      PROVE  \E c \in ReadyDocuments : rows[c].content = rows[d].content
  <2> DEFINE same == { e \in Docs : Usable(e) /\ rows[e].content = rows[d].content }
             order == { pair \in Nat \X Nat : pair[2] < pair[1] }
  <2>1. \A e, f \in same : <<e, f>> \in order <=> f < e
    BY <1>1
  <2>2. same \subseteq Docs /\ d \in same
    BY <1>3
  <2>3. IsFiniteSet(same)
    BY <2>2, FS_Subset DEF QueryAssumption
  <2> HIDE DEF order, same
  <2>4. /\ \A e \in same : <<e, e>> \notin order
        /\ \A e, f, g \in same : <<e, f>> \in order /\ <<f, g>> \in order => <<e, g>> \in order
        /\ \A e, f \in same : e # f => <<e, f>> \in order \/ <<f, e>> \in order
    BY <1>1, <2>1, <2>2
  <2>5. PICK c \in same : \A e \in same \ {c} : <<c, e>> \in order
    BY <2>2, <2>3, <2>4, FirstOfAll
  <2>6. \A e \in same : e <= c
    <3>1. c \in Nat /\ \A e \in same : e \in Nat /\ (e = c \/ e < c)
      BY <1>1, <2>1, <2>2, <2>5
    <3>2. QED
      BY <3>1
  <2>7. c \in ReadyDocuments /\ rows[c].content = rows[d].content
    BY <2>6 DEF ReadyDocuments, same
  <2>8. QED
    BY <2>7
<1>4. QED
  BY <1>1, <1>2, <1>3

(* A set with one row for each of some contents has as many as there are.  *)
LEMMA OneEach ==
  ASSUME QueryAssumption, NEW S \in SUBSET Docs,
         \A d, e \in S : rows[d].content = rows[e].content => d = e
  PROVE  Cardinality(S) = Cardinality({ rows[d].content : d \in S })
<1> DEFINE contents == { rows[d].content : d \in S }
           f == [d \in S |-> rows[d].content]
<1>1. IsFiniteSet(S)
  BY FS_Subset DEF QueryAssumption
<1>2. f \in Bijection(S, contents)
  <2>1. f \in [S -> contents]
    OBVIOUS
  <2>2. \A d, e \in S : f[d] = f[e] => d = e
    OBVIOUS
  <2>3. \A c \in contents : \E d \in S : f[d] = c
    OBVIOUS
  <2>4. QED
    BY <2>1, <2>2, <2>3 DEF Bijection, Injection, Surjection, IsInjective
<1>3. ExistsBijection(S, contents)
  BY <1>2 DEF ExistsBijection
<1>4. QED
  BY <1>1, <1>3, FS_Bijection

(* The course list counts what a question is answered from: in whatever    *)
(* order rows were updated, as many READY documents as the scope of a      *)
(* question has, and each stored content once.                             *)
THEOREM CoursesCountWhatIsAsked ==
  ASSUME QueryAssumption
  PROVE  Spec => []CountsWhatIsAsked
<1>1. ASSUME StoreInv, NEW u \in Updates
      PROVE  Ready(u) = Cardinality(ReadyDocuments)
  <2> DEFINE usable == { d \in Canonical(u) : Usable(d) }
             contents == { rows[d].content : d \in { e \in Docs : Usable(e) } }
  <2>1. usable \subseteq Docs /\ \A d \in usable : Usable(d)
    BY <1>1, CanonicalFacts DEF Stored
  <2>2. \A d, e \in usable : rows[d].content = rows[e].content => d = e
    BY <1>1, CanonicalFacts
  <2>3. ASSUME NEW d \in Docs, Usable(d)
        PROVE  \E c \in usable : rows[c].content = rows[d].content
    <3>1. d \in Stored
      BY <2>3 DEF Stored, Usable
    <3>2. PICK c \in Canonical(u) : rows[c].content = rows[d].content /\ (c = d \/ SortsBefore(u, c, d))
      BY <1>1, <3>1, CanonicalFacts
    <3>3. c \in Docs
      BY <1>1, CanonicalFacts DEF Stored
    <3>4. CASE c # d
      <4>1. SortsBefore(u, c, d) /\ ~rows[d].deleting /\ rows[c].deleting \in BOOLEAN
        BY <1>1, <2>3, <3>2, <3>3, <3>4 DEF Usable, StoreInv, Rows
      <4>2. ~rows[c].deleting /\ ByStatus(u, c, d)
        BY <4>1 DEF SortsBefore
      <4>3. Status(d) = "ready" /\ Status(c) \in {"ready", "active", "failed"}
        BY <2>3 DEF Usable, Status
      <4>4. Status(c) = "ready"
        BY <4>2, <4>3 DEF ByStatus, StatusRank
      <4>5. rows[c].at = "READY"
        BY <4>4 DEF Status
      <4>6. QED
        BY <3>2, <4>2, <4>5 DEF Usable
    <3>5. QED
      BY <2>3, <3>2, <3>4
  <2>4. { rows[d].content : d \in usable } = contents
    <3> HIDE DEF usable
    <3>1. QED
      BY <2>1, <2>3
  <2>5. { rows[d].content : d \in ReadyDocuments } = contents
    <3>1. \A d \in ReadyDocuments : d \in Docs /\ Usable(d)
      BY DEF ReadyDocuments
    <3>2. QED
      BY <1>1, <3>1, ReadyFacts
  <2>6. Cardinality(usable) = Cardinality(contents)
    BY <2>1, <2>2, <2>4, OneEach
  <2>7. Cardinality(ReadyDocuments) = Cardinality(contents)
    BY <1>1, <2>5, ReadyFacts, OneEach
  <2>8. QED
    BY <2>6, <2>7 DEF Ready
<1>2. ASSUME StoreInv, NEW u \in Updates
      PROVE  Total(u) = Cardinality({ rows[d].content : d \in Stored })
  <2>1. Canonical(u) \subseteq Docs
    BY <1>2, CanonicalFacts DEF Stored
  <2>2. Cardinality(Canonical(u)) = Cardinality({ rows[d].content : d \in Canonical(u) })
    BY <1>2, <2>1, CanonicalFacts, OneEach
  <2>3. { rows[d].content : d \in Canonical(u) } = { rows[d].content : d \in Stored }
    BY <1>2, CanonicalFacts
  <2>4. QED
    BY <2>2, <2>3 DEF Total
<1>3. IInv => CountsWhatIsAsked
  BY <1>1, <1>2 DEF IInv, CountsWhatIsAsked
<1>4. QED
  BY <1>3, Invariance, PTL

-----------------------------------------------------------------------------
(* The page that questions are asked from (Dashboard), for any courses and *)
(* any number of requests in flight.                                       *)
CONSTANTS Courses, None, MaxChanges, MaxInFlight
VARIABLES server, selected, pending, list, jobs, answer, loading, refreshing, flight

D == INSTANCE Dashboard

(* Both modules count alike.                                               *)
LEMMA SameFinite == ASSUME NEW S PROVE D!IsFiniteSet(S) <=> IsFiniteSet(S)
BY DEF IsFiniteSet, D!IsFiniteSet

LEMMA SameCardinality == ASSUME NEW S PROVE D!Cardinality(S) = Cardinality(S)
BY DEF Cardinality, D!Cardinality

LEMMA SameCounts ==
  \A S : (D!IsFiniteSet(S) <=> IsFiniteSet(S)) /\ D!Cardinality(S) = Cardinality(S)
BY SameFinite, SameCardinality

Reads == [docs : [Courses -> D!Document], time : -1 .. MaxChanges]
Sent ==
  [kind : D!Kinds, id : Nat, current : BOOLEAN, about : SUBSET Courses,
   saved : Courses \cup {None}, items : Reads, list : Reads]

(* The requests of a kind that are waited for.                             *)
Awaited(f, kind) == { r \in f : r.kind = kind /\ r.current }

PageInv ==
  /\ server \in D!Snapshots /\ list \in D!Snapshots
  /\ selected \in Courses \cup {None} /\ pending \in Courses \cup {None}
  /\ answer \in {None, selected}
  /\ jobs \in [Courses -> D!Document]
  /\ loading \in BOOLEAN /\ refreshing \in BOOLEAN
  /\ flight \subseteq Sent

(* Each change that is under way has its place among those that may be.    *)
ServerInv ==
  /\ server.time + D!Unfinished <= MaxChanges
  /\ \A c \in Courses : server.docs[c].task <= server.time

(* One question at most is waited for, about the course that is selected.  *)
QuestionInv(f, course, waits) ==
  /\ waits <=> Awaited(f, "query") # {}
  /\ \A r \in Awaited(f, "query") : r.about = {course} /\ course \in Courses
  /\ \A r, s \in Awaited(f, "query") : r = s

(* One reading of the lists at most is waited for.                         *)
RefreshInv(f, waits) ==
  /\ waits <=> Awaited(f, "refresh") # {}
  /\ \A r, s \in Awaited(f, "refresh") : r = s

DashboardInv ==
  /\ PageInv /\ ServerInv
  /\ QuestionInv(flight, selected, loading) /\ RefreshInv(flight, refreshing)

-----------------------------------------------------------------------------
(* What a request that is given up, sent or answered changes of those that *)
(* are waited for.                                                         *)
LEMMA StaleFacts ==
  ASSUME NEW f \in SUBSET Sent, NEW kind \in D!Kinds
  PROVE  /\ D!Stale(f, kind) \in SUBSET Sent
         /\ Awaited(D!Stale(f, kind), kind) = {}
         /\ \A other \in D!Kinds \ {kind} : Awaited(D!Stale(f, kind), other) = Awaited(f, other)
<1> DEFINE Given(r) == IF r.kind = kind THEN [r EXCEPT !.current = FALSE] ELSE r
<1>1. \A r \in f : /\ Given(r) \in Sent /\ Given(r).kind = r.kind
                   /\ r.kind = kind => ~Given(r).current
                   /\ r.kind # kind => Given(r) = r
  BY DEF Sent
<1>2. D!Stale(f, kind) = {Given(r) : r \in f}
  BY DEF D!Stale
<1> HIDE DEF Given
<1>3. QED
  BY <1>1, <1>2 DEF Awaited

LEMMA RequestType ==
  ASSUME NEW kind \in D!Kinds, NEW about \in SUBSET Courses, NEW saved \in Courses \cup {None},
         D!DashboardAssumption
  PROVE  /\ D!Request(kind, about, saved) \in Sent
         /\ D!Request(kind, about, saved).kind = kind /\ D!Request(kind, about, saved).current
         /\ D!Request(kind, about, saved).about = about
         /\ D!NotRead \in Reads
<1>1. D!NotRead \in Reads
  BY DEF D!NotRead, Reads, D!NoDocument, D!Document, D!Statuses, D!DashboardAssumption
<1>2. QED
  BY <1>1 DEF D!Request, Sent

(* What is sent gets its number, and is what it was otherwise.             *)
LEMMA NumberFacts ==
  ASSUME NEW f, NEW r \in Sent, D!DashboardAssumption, D!Send(f, r)
  PROVE  \E new \in Sent :
           /\ flight' = f \cup {new}
           /\ new.kind = r.kind /\ new.current = r.current /\ new.about = r.about
<1>1. PICK id \in D!Free(f) : flight' = f \cup {[r EXCEPT !.id = id]}
  BY DEF D!Send
<1>2. id \in Nat
  BY <1>1 DEF D!Free, D!DashboardAssumption
<1> DEFINE new == [r EXCEPT !.id = id]
<1>3. new \in Sent /\ new.kind = r.kind /\ new.current = r.current /\ new.about = r.about
  BY <1>2 DEF Sent
<1> HIDE DEF new
<1>4. flight' = f \cup {new}
  BY <1>1 DEF new
<1>5. QED
  BY <1>3, <1>4

(* The reading of the lists anew.                                          *)
LEMMA RefreshedFacts ==
  ASSUME NEW f \in SUBSET Sent, D!DashboardAssumption
  PROVE  /\ D!Refreshed(f) \in SUBSET Sent
         /\ Awaited(D!Refreshed(f), "query") = Awaited(f, "query")
         /\ RefreshInv(D!Refreshed(f), TRUE)
<1> DEFINE new == D!Request("refresh", {}, None)
           kept == D!Stale(f, "refresh")
<1>1. new \in Sent /\ new.kind = "refresh" /\ new.current
  BY RequestType DEF D!Kinds
<1>2. /\ kept \in SUBSET Sent /\ Awaited(kept, "refresh") = {}
      /\ Awaited(kept, "query") = Awaited(f, "query")
  BY StaleFacts DEF D!Kinds
<1>3. D!Refreshed(f) = kept \cup {new}
  BY DEF D!Refreshed
<1> HIDE DEF new, kept
<1>4. /\ Awaited(D!Refreshed(f), "refresh") = {new}
      /\ Awaited(D!Refreshed(f), "query") = Awaited(f, "query")
  BY <1>1, <1>2, <1>3 DEF Awaited
<1>5. QED
  BY <1>1, <1>2, <1>3, <1>4 DEF RefreshInv

(* A course is kept with its question, or left and the question given up.  *)
LEMMA SelectFacts ==
  ASSUME NEW want, NEW explicit \in BOOLEAN, NEW f \in SUBSET Sent,
         selected \in Courses \cup {None}, answer \in {None, selected}, loading \in BOOLEAN,
         QuestionInv(f, selected, loading), D!Select(want, explicit, f)
  PROVE  /\ selected' \in Courses \cup {None} /\ answer' \in {None, selected'}
         /\ loading' \in BOOLEAN /\ flight' \in SUBSET Sent
         /\ QuestionInv(flight', selected', loading')
         /\ Awaited(flight', "refresh") = Awaited(f, "refresh")
<1>1. PICK c \in Courses \cup {None} :
        /\ selected' = c
        /\ IF explicit \/ c # selected \/ c = None
           THEN answer' = None /\ loading' = FALSE /\ flight' = D!Stale(f, "query")
           ELSE UNCHANGED <<answer, loading>> /\ flight' = f
  <2>1. D!Listed(list') \subseteq Courses
    BY DEF D!Listed
  <2>2. QED
    BY <2>1 DEF D!Select
<1>2. CASE explicit \/ c # selected \/ c = None
  <2>1. flight' \in SUBSET Sent /\ Awaited(flight', "query") = {}
        /\ Awaited(flight', "refresh") = Awaited(f, "refresh")
    BY <1>1, <1>2, StaleFacts DEF D!Kinds
  <2>2. QED
    BY <1>1, <1>2, <2>1 DEF QuestionInv
<1>3. CASE ~(explicit \/ c # selected \/ c = None)
  BY <1>1, <1>3
<1>4. QED
  BY <1>2, <1>3

(* A request that was sent, or answered or lost.                           *)
LEMMA SentFacts ==
  ASSUME NEW f \in SUBSET Sent, NEW r \in Sent, r.kind \notin {"query", "refresh"} \/ ~r.current
  PROVE  /\ f \cup {r} \in SUBSET Sent /\ f \ {r} \in SUBSET Sent
         /\ \A kind \in {"query", "refresh"} :
              Awaited(f \cup {r}, kind) = Awaited(f, kind) /\ Awaited(f \ {r}, kind) = Awaited(f, kind)
BY DEF Awaited

(* A request that is read for is still the same request.                   *)
LEMMA BecomesFacts ==
  ASSUME NEW r \in flight, NEW read \in Sent, D!Becomes(r, read), flight \subseteq Sent,
         read.kind = r.kind, read.current = r.current, read.about = r.about,
         UNCHANGED <<selected, loading, refreshing>>,
         QuestionInv(flight, selected, loading), RefreshInv(flight, refreshing)
  PROVE  /\ flight' \subseteq Sent
         /\ QuestionInv(flight, selected, loading)' /\ RefreshInv(flight, refreshing)'
<1>1. flight' = (flight \ {r}) \cup {read}
  BY DEF D!Becomes
<1>2. ASSUME NEW kind \in {"query", "refresh"}
      PROVE  Awaited(flight', kind) = IF r \in Awaited(flight, kind)
                                      THEN (Awaited(flight, kind) \ {r}) \cup {read}
                                      ELSE Awaited(flight, kind)
  BY <1>1 DEF Awaited
<1>3. QuestionInv(flight', selected, loading)
  BY <1>2 DEF QuestionInv
<1>4. RefreshInv(flight', refreshing)
  BY <1>2 DEF RefreshInv
<1>5. QED
  BY <1>1, <1>3, <1>4

-----------------------------------------------------------------------------
(* The reviewer's steps keep the invariant.                                *)
LEMMA ChooseKeeps ==
  ASSUME D!DashboardAssumption, DashboardInv, NEW c \in Courses, D!Choose(c)
  PROVE  DashboardInv'
<1>1. D!Select(c, TRUE, flight) /\ UNCHANGED <<server, list, pending, jobs, refreshing>>
  BY DEF D!Choose
<1>2. /\ selected' \in Courses \cup {None} /\ answer' \in {None, selected'}
      /\ loading' \in BOOLEAN /\ flight' \in SUBSET Sent
      /\ QuestionInv(flight', selected', loading')
      /\ Awaited(flight', "refresh") = Awaited(flight, "refresh")
  BY <1>1, SelectFacts DEF DashboardInv, PageInv
<1>3. PageInv' /\ ServerInv'
  BY <1>1, <1>2 DEF DashboardInv, PageInv, ServerInv, D!Unfinished
<1>4. RefreshInv(flight', refreshing')
  BY <1>1, <1>2 DEF DashboardInv, RefreshInv
<1>5. QED
  BY <1>2, <1>3, <1>4 DEF DashboardInv

LEMMA AskKeeps ==
  ASSUME D!DashboardAssumption, DashboardInv, D!Ask
  PROVE  DashboardInv'
<1> DEFINE asked == D!Request("query", {selected}, None)
           kept == D!Stale(flight, "query")
<1>1. /\ selected \in Courses /\ D!Send(kept, asked) /\ loading' = TRUE /\ answer' = None
      /\ UNCHANGED <<server, selected, pending, list, jobs, refreshing>>
  BY DEF D!Ask, D!Listed
<1>2. PICK new \in Sent :
        /\ flight' = kept \cup {new}
        /\ new.kind = "query" /\ new.current /\ new.about = {selected}
  <2>1. asked \in Sent /\ asked.kind = "query" /\ asked.current /\ asked.about = {selected}
    BY <1>1, RequestType DEF D!Kinds
  <2> HIDE DEF asked, kept
  <2>2. QED
    BY <1>1, <2>1, NumberFacts
<1>3. /\ kept \in SUBSET Sent /\ Awaited(kept, "query") = {}
      /\ Awaited(kept, "refresh") = Awaited(flight, "refresh")
  BY StaleFacts DEF D!Kinds, DashboardInv, PageInv
<1> HIDE DEF kept
<1>4. /\ Awaited(flight', "query") = {new}
      /\ Awaited(flight', "refresh") = Awaited(flight, "refresh")
  BY <1>1, <1>2, <1>3 DEF Awaited
<1>5. PageInv' /\ ServerInv'
  BY <1>1, <1>2, <1>3 DEF DashboardInv, PageInv, ServerInv, D!Unfinished
<1>6. QuestionInv(flight', selected', loading') /\ RefreshInv(flight', refreshing')
  BY <1>1, <1>2, <1>4 DEF DashboardInv, QuestionInv, RefreshInv
<1>7. QED
  BY <1>5, <1>6 DEF DashboardInv

LEMMA RefreshKeeps ==
  ASSUME D!DashboardAssumption, DashboardInv, D!Refresh
  PROVE  DashboardInv'
<1>1. /\ flight' = D!Refreshed(flight) /\ refreshing' = TRUE
      /\ UNCHANGED <<server, selected, pending, list, jobs, answer, loading>>
  BY DEF D!Refresh
<1>2. /\ flight' \in SUBSET Sent /\ Awaited(flight', "query") = Awaited(flight, "query")
      /\ RefreshInv(flight', refreshing')
  BY <1>1, RefreshedFacts DEF DashboardInv, PageInv
<1>3. PageInv' /\ ServerInv'
  BY <1>1, <1>2 DEF DashboardInv, PageInv, ServerInv, D!Unfinished
<1>4. QuestionInv(flight', selected', loading')
  BY <1>1, <1>2 DEF DashboardInv, QuestionInv
<1>5. QED
  BY <1>2, <1>3, <1>4 DEF DashboardInv

(* A request that nothing on the page waits for.                           *)
LEMMA SendKeeps ==
  ASSUME D!DashboardAssumption, DashboardInv, NEW r \in Sent, r.kind \notin {"query", "refresh"},
         D!Send(flight, r),
         UNCHANGED <<server, selected, pending, list, jobs, answer, loading, refreshing>>
  PROVE  DashboardInv'
<1>1. PICK new \in Sent : flight' = flight \cup {new} /\ new.kind \notin {"query", "refresh"}
  BY NumberFacts
<1>2. /\ flight' \in SUBSET Sent
      /\ Awaited(flight', "query") = Awaited(flight, "query")
      /\ Awaited(flight', "refresh") = Awaited(flight, "refresh")
  BY <1>1, SentFacts DEF DashboardInv, PageInv
<1>3. PageInv' /\ ServerInv'
  BY <1>2 DEF DashboardInv, PageInv, ServerInv, D!Unfinished
<1>4. QuestionInv(flight', selected', loading') /\ RefreshInv(flight', refreshing')
  BY <1>2 DEF DashboardInv, QuestionInv, RefreshInv
<1>5. QED
  BY <1>3, <1>4 DEF DashboardInv

LEMMA UploadKeeps ==
  ASSUME D!DashboardAssumption, DashboardInv, NEW c \in Courses, D!Upload(c)
  PROVE  DashboardInv'
<1> DEFINE new == D!Request("upload", {c}, None)
<1>1. new \in Sent /\ new.kind = "upload"
  BY RequestType DEF D!Kinds
<1> HIDE DEF new
<1>2. D!Send(flight, new)
  BY DEF D!Upload, new
<1>3. QED
  BY <1>1, <1>2, SendKeeps DEF D!Upload

LEMMA RemoveKeeps ==
  ASSUME D!DashboardAssumption, DashboardInv, NEW c \in Courses, D!Remove(c)
  PROVE  DashboardInv'
<1> DEFINE new == D!Request("remove", {c}, selected)
<1>1. new \in Sent /\ new.kind = "remove"
  BY RequestType DEF D!Kinds, DashboardInv, PageInv
<1> HIDE DEF new
<1>2. D!Send(flight, new)
  BY DEF D!Remove, new
<1>3. QED
  BY <1>1, <1>2, SendKeeps DEF D!Remove

LEMMA PollKeeps ==
  ASSUME D!DashboardAssumption, DashboardInv, D!Poll
  PROVE  DashboardInv'
<1> DEFINE active == { c \in Courses : jobs[c].status = "active" }
           asked == D!Request("poll", active, pending)
           new == [asked EXCEPT !.items = [D!NotRead EXCEPT !.docs = jobs]]
<1>1. asked \in Sent /\ asked.kind = "poll" /\ D!NotRead \in Reads
  BY RequestType DEF D!Kinds, DashboardInv, PageInv
<1>2. [D!NotRead EXCEPT !.docs = jobs] \in Reads
  BY <1>1 DEF Reads, DashboardInv, PageInv
<1>3. new \in Sent /\ new.kind = "poll"
  <2> HIDE DEF asked
  <2>1. QED
    BY <1>1, <1>2 DEF Sent
<1>4. D!Send(flight, new)
  BY DEF D!Poll
<1> HIDE DEF new
<1>5. QED
  BY <1>3, <1>4, SendKeeps DEF D!Poll

-----------------------------------------------------------------------------
(* The server's steps.                                                     *)
LEMMA UnfinishedFacts ==
  ASSUME D!DashboardAssumption, DashboardInv,
         NEW c \in Courses, NEW doc \in D!Document,
         server'.docs = [server.docs EXCEPT ![c] = doc]
  PROVE  /\ D!Unfinished \in Nat /\ D!Unfinished' \in Nat
         /\ server.docs[c].status = "active" /\ doc.status # "active" => D!Unfinished' = D!Unfinished - 1
         /\ server.docs[c].status # "active" /\ doc.status = "active" => D!Unfinished' = D!Unfinished + 1
         /\ server.docs[c].status # "active" /\ doc.status # "active" => D!Unfinished' = D!Unfinished
<1> DEFINE before == { k \in Courses : server.docs[k].status = "active" }
           after == { k \in Courses : server'.docs[k].status = "active" }
<1>1. IsFiniteSet(before) /\ IsFiniteSet(after)
  BY FS_Subset, SameCounts DEF D!DashboardAssumption
<1>2. D!Unfinished = Cardinality(before) /\ D!Unfinished' = Cardinality(after)
  BY SameCounts DEF D!Unfinished
<1>3. server.docs \in [Courses -> D!Document]
  BY DEF DashboardInv, PageInv, D!Snapshots
<1>4. after = IF doc.status = "active" THEN before \cup {c} ELSE before \ {c}
  BY <1>3
<1>5. c \in before <=> server.docs[c].status = "active"
  OBVIOUS
<1> HIDE DEF before, after
<1>6. Cardinality(before) \in Nat /\ Cardinality(after) \in Nat
  BY <1>1, FS_CardinalityType
<1>7. /\ c \notin before => Cardinality(before \cup {c}) = Cardinality(before) + 1
      /\ c \in before => Cardinality(before \ {c}) = Cardinality(before) - 1
  BY <1>1, FS_AddElement, FS_RemoveElement
<1>8. c \notin before => before \ {c} = before
  OBVIOUS
<1>9. QED
  BY <1>2, <1>4, <1>5, <1>6, <1>7, <1>8

LEMMA ProcessKeeps ==
  ASSUME D!DashboardAssumption, DashboardInv, NEW c \in Courses, NEW to \in {"ready", "failed"}, D!Process(c, to)
  PROVE  DashboardInv'
<1> DEFINE doc == [server.docs[c] EXCEPT !.status = to]
<1>1. server \in D!Snapshots /\ server.docs \in [Courses -> D!Document] /\ server.time \in 0 .. MaxChanges
  BY DEF DashboardInv, PageInv, D!Snapshots
<1>2. doc \in D!Document /\ doc.status = to /\ doc.task = server.docs[c].task
  BY <1>1 DEF D!Document, D!Statuses
<1>3. /\ server'.docs = [server.docs EXCEPT ![c] = doc] /\ server'.time = server.time + 1
      /\ server' = [docs |-> [server.docs EXCEPT ![c] = doc], time |-> server.time + 1]
  BY DEF D!Process
<1>4. server.docs[c].status = "active"
  BY DEF D!Process
<1> HIDE DEF doc
<1>5. D!Unfinished \in Nat /\ D!Unfinished' = D!Unfinished - 1 /\ D!Unfinished' \in Nat
  BY <1>2, <1>3, <1>4, UnfinishedFacts
<1>6. server' \in D!Snapshots /\ ServerInv'
  <2>1. server.time + D!Unfinished <= MaxChanges /\ MaxChanges \in Nat
    BY DEF DashboardInv, ServerInv, D!DashboardAssumption
  <2>2. server'.time \in 0 .. MaxChanges /\ server'.time + D!Unfinished' <= MaxChanges
    BY <1>1, <1>3, <1>5, <2>1
  <2>3. server'.docs \in [Courses -> D!Document]
    BY <1>1, <1>2, <1>3
  <2>4. \A k \in Courses : server'.docs[k].task <= server'.time
    <3>1. \A k \in Courses : server'.docs[k].task = server.docs[k].task
      BY <1>1, <1>2, <1>3
    <3>2. \A k \in Courses : server.docs[k].task \in Nat /\ server.docs[k].task <= server.time
      BY <1>1 DEF DashboardInv, ServerInv, D!Document
    <3>3. QED
      BY <1>1, <1>3, <3>1, <3>2
  <2>5. QED
    BY <1>3, <2>2, <2>3, <2>4 DEF ServerInv, D!Snapshots
<1>7. UNCHANGED <<selected, pending, list, jobs, answer, loading, refreshing, flight>>
  BY DEF D!Process
<1>8. QED
  BY <1>6, <1>7 DEF DashboardInv, PageInv, QuestionInv, RefreshInv

(* An attempt that is accepted takes its place among the changes.          *)
LEMMA AcceptedKeeps ==
  ASSUME D!DashboardAssumption, DashboardInv, NEW c \in Courses, D!Accepted(c)
  PROVE  server' \in D!Snapshots /\ ServerInv'
<1> DEFINE doc == [status |-> "active", task |-> server.docs[c].task + 1]
<1>1. /\ server \in D!Snapshots /\ server.docs \in [Courses -> D!Document] /\ server.time \in 0 .. MaxChanges
      /\ MaxChanges \in Nat
  BY DEF DashboardInv, PageInv, D!Snapshots, D!DashboardAssumption
<1>2. /\ server.docs[c].status # "active" /\ server.time + 1 + D!Unfinished < MaxChanges
      /\ server' = [docs |-> [server.docs EXCEPT ![c] = doc], time |-> server.time + 1]
  BY DEF D!Accepted
<1>3. \A k \in Courses : server.docs[k].task \in Nat /\ server.docs[k].task <= server.time
  BY <1>1 DEF DashboardInv, ServerInv, D!Document
<1>4. D!Unfinished \in Nat
  <2>1. D!Unfinished = Cardinality({ k \in Courses : server.docs[k].status = "active" })
    BY SameCounts DEF D!Unfinished
  <2>2. QED
    BY <2>1, FS_Subset, FS_CardinalityType, SameCounts DEF D!DashboardAssumption
<1>5. doc \in D!Document /\ doc.status = "active" /\ doc.task = server.docs[c].task + 1
  BY <1>1, <1>2, <1>3, <1>4 DEF D!Document, D!Statuses
<1> HIDE DEF doc
<1>6. D!Unfinished' = D!Unfinished + 1
  BY <1>2, <1>5, UnfinishedFacts
<1>7. \A k \in Courses : server'.docs[k].task <= server'.time
  BY <1>1, <1>2, <1>3, <1>5
<1>8. server'.docs \in [Courses -> D!Document] /\ server'.time \in 0 .. MaxChanges
  BY <1>1, <1>2, <1>4, <1>5
<1>9. server'.time + D!Unfinished' <= MaxChanges
  BY <1>1, <1>2, <1>4, <1>6
<1>10. QED
  BY <1>2, <1>7, <1>8, <1>9 DEF ServerInv, D!Snapshots

LEMMA RemovedKeeps ==
  ASSUME D!DashboardAssumption, DashboardInv, NEW c \in Courses, D!Removed(c)
  PROVE  server' \in D!Snapshots /\ ServerInv'
<1> DEFINE doc == [server.docs[c] EXCEPT !.status = "none"]
<1>1. /\ server \in D!Snapshots /\ server.docs \in [Courses -> D!Document] /\ server.time \in 0 .. MaxChanges
      /\ MaxChanges \in Nat
  BY DEF DashboardInv, PageInv, D!Snapshots, D!DashboardAssumption
<1>2. /\ server.docs[c].status \in {"ready", "failed"} /\ server.time + D!Unfinished < MaxChanges
      /\ server' = [docs |-> [server.docs EXCEPT ![c] = doc], time |-> server.time + 1]
  BY DEF D!Removed
<1>3. \A k \in Courses : server.docs[k].task \in Nat /\ server.docs[k].task <= server.time
  BY <1>1 DEF DashboardInv, ServerInv, D!Document
<1>4. doc \in D!Document /\ doc.status = "none" /\ doc.task = server.docs[c].task
  BY <1>1 DEF D!Document, D!Statuses
<1> HIDE DEF doc
<1>5. D!Unfinished \in Nat /\ D!Unfinished' = D!Unfinished
  BY <1>2, <1>4, UnfinishedFacts
<1>6. \A k \in Courses : server'.docs[k].task <= server'.time
  BY <1>1, <1>2, <1>3, <1>4
<1>7. /\ server'.docs \in [Courses -> D!Document] /\ server'.time \in 0 .. MaxChanges
      /\ server'.time + D!Unfinished' <= MaxChanges
  BY <1>1, <1>2, <1>4, <1>5
<1>8. QED
  BY <1>2, <1>6, <1>7 DEF ServerInv, D!Snapshots

LEMMA ElsewhereKeeps ==
  ASSUME D!DashboardAssumption, DashboardInv, NEW c \in Courses, D!Elsewhere(c)
  PROVE  DashboardInv'
<1>1. server' \in D!Snapshots /\ ServerInv'
  BY AcceptedKeeps, RemovedKeeps DEF D!Elsewhere
<1>2. UNCHANGED <<selected, pending, list, jobs, answer, loading, refreshing, flight>>
  BY DEF D!Elsewhere
<1>3. QED
  BY <1>1, <1>2 DEF DashboardInv, PageInv, QuestionInv, RefreshInv

(* A request that has changed the documents keeps what they are now.       *)
LEMMA ServedKeeps ==
  ASSUME D!DashboardAssumption, DashboardInv, NEW r \in flight,
         server' \in D!Snapshots, ServerInv',
         D!Becomes(r, [r EXCEPT !.items = server']),
         UNCHANGED <<selected, pending, list, jobs, answer, loading, refreshing>>
  PROVE  DashboardInv'
<1> DEFINE read == [r EXCEPT !.items = server']
<1>1. r \in Sent /\ flight \subseteq Sent /\ server' \in Reads
  BY DEF DashboardInv, PageInv, D!Snapshots, Reads, D!DashboardAssumption
<1>2. read \in Sent /\ read.kind = r.kind /\ read.current = r.current /\ read.about = r.about
  BY <1>1 DEF Sent
<1>3. D!Becomes(r, read)
  OBVIOUS
<1> HIDE DEF read
<1>4. flight' \subseteq Sent /\ QuestionInv(flight, selected, loading)' /\ RefreshInv(flight, refreshing)'
  BY <1>1, <1>2, <1>3, BecomesFacts DEF DashboardInv
<1>5. QED
  BY <1>4 DEF DashboardInv, PageInv

LEMMA ServeUploadKeeps ==
  ASSUME D!DashboardAssumption, DashboardInv, NEW r \in flight, D!ServeUpload(r)
  PROVE  DashboardInv'
<1>1. PICK c \in r.about :
        /\ D!Accepted(c) \/ server' = server
        /\ D!Becomes(r, [r EXCEPT !.items = server'])
        /\ UNCHANGED <<selected, pending, list, jobs, answer, loading, refreshing>>
  BY DEF D!ServeUpload
<1>2. c \in Courses
  BY DEF DashboardInv, PageInv, Sent
<1>3. server' \in D!Snapshots /\ ServerInv'
  <2>1. CASE D!Accepted(c)
    BY <1>2, <2>1, AcceptedKeeps
  <2>2. CASE server' = server
    BY <2>2 DEF DashboardInv, PageInv, ServerInv, D!Unfinished
  <2>3. QED
    BY <1>1, <2>1, <2>2
<1>4. QED
  BY <1>1, <1>3, ServedKeeps

LEMMA ServeRemovalKeeps ==
  ASSUME D!DashboardAssumption, DashboardInv, NEW r \in flight, D!ServeRemoval(r)
  PROVE  DashboardInv'
<1>1. PICK c \in r.about :
        /\ D!Removed(c) /\ D!Becomes(r, [r EXCEPT !.items = server'])
        /\ UNCHANGED <<selected, pending, list, jobs, answer, loading, refreshing>>
  BY DEF D!ServeRemoval
<1>2. c \in Courses
  BY DEF DashboardInv, PageInv, Sent
<1>3. QED
  BY <1>1, <1>2, RemovedKeeps, ServedKeeps

LEMMA ServeKeeps ==
  ASSUME D!DashboardAssumption, DashboardInv, NEW r \in flight, D!Serve(r)
  PROVE  DashboardInv'
<1>1. /\ server \in D!Snapshots /\ server.docs \in [Courses -> D!Document] /\ server.time \in 0 .. MaxChanges
      /\ server \in Reads /\ r \in Sent /\ r.items \in Reads /\ r.items.docs \in [Courses -> D!Document]
      /\ flight \subseteq Sent
  BY DEF DashboardInv, PageInv, D!Snapshots, Sent, Reads
<1>2. PICK read \in Sent :
        /\ D!Becomes(r, read) /\ read.kind = r.kind /\ read.current = r.current /\ read.about = r.about
  <2>1. CASE D!Becomes(r, [r EXCEPT !.items = server])
    <3>1. [r EXCEPT !.items = server] \in Sent
      BY <1>1 DEF Sent
    <3>2. QED
      BY <1>1, <2>1, <3>1 DEF Sent
  <2>2. CASE D!Becomes(r, [r EXCEPT !.list = server])
    <3>1. [r EXCEPT !.list = server] \in Sent
      BY <1>1 DEF Sent
    <3>2. QED
      BY <1>1, <2>2, <3>1 DEF Sent
  <2>3. ASSUME NEW docs \in [Courses -> D!Document],
               D!Becomes(r, [r EXCEPT !.items = [docs |-> docs, time |-> server.time]])
        PROVE  \E read \in Sent :
                 /\ D!Becomes(r, read) /\ read.kind = r.kind /\ read.current = r.current /\ read.about = r.about
    <3>1. [docs |-> docs, time |-> server.time] \in Reads
      BY <1>1, <2>3 DEF Reads
    <3>2. [r EXCEPT !.items = [docs |-> docs, time |-> server.time]] \in Sent
      BY <1>1, <3>1 DEF Sent
    <3>3. QED
      BY <1>1, <2>3, <3>2 DEF Sent
  <2>4. CASE r.kind = "poll" /\ ~D!Becomes(r, [r EXCEPT !.items = server]) /\ ~D!Becomes(r, [r EXCEPT !.list = server])
    <3> DEFINE Now(c) == IF c \in r.about /\ server.docs[c].task = r.items.docs[c].task
                         THEN server.docs[c] ELSE r.items.docs[c]
    <3>1. D!Becomes(r, [r EXCEPT !.items = [docs |-> [ c \in Courses |-> Now(c) ], time |-> server.time]])
      BY <2>4 DEF D!Serve
    <3>2. [ c \in Courses |-> Now(c) ] \in [Courses -> D!Document]
      BY <1>1
    <3> HIDE DEF Now
    <3>3. QED
      BY <2>3, <3>1, <3>2
  <2>5. QED
    BY <2>1, <2>2, <2>4 DEF D!Serve
<1>3. UNCHANGED <<server, selected, pending, list, jobs, answer, loading, refreshing>>
  BY DEF D!Serve
<1>4. flight' \subseteq Sent /\ QuestionInv(flight, selected, loading)' /\ RefreshInv(flight, refreshing)'
  BY <1>1, <1>2, <1>3, BecomesFacts DEF DashboardInv
<1>5. QED
  BY <1>3, <1>4 DEF DashboardInv, PageInv, ServerInv, D!Unfinished

-----------------------------------------------------------------------------
(* The answers that arrive.                                                *)
LEMMA QueryArrivesKeeps ==
  ASSUME D!DashboardAssumption, DashboardInv, NEW r \in flight, D!QueryArrives(r)
  PROVE  DashboardInv'
<1>1. /\ r.kind = "query" /\ flight' = flight \ {r} /\ flight \in SUBSET Sent /\ r \in Sent
      /\ UNCHANGED <<server, selected, pending, list, jobs, refreshing>>
  BY DEF D!QueryArrives, D!Done, DashboardInv, PageInv
<1>2. CASE r.current
  <2>1. r \in Awaited(flight, "query")
    BY <1>1, <1>2 DEF Awaited
  <2>2. r.about = {selected} /\ selected \in Courses
    BY <2>1 DEF DashboardInv, QuestionInv
  <2>3. answer' = (CHOOSE c \in r.about : TRUE) /\ loading' = FALSE
    BY <1>2 DEF D!QueryArrives
  <2>4. answer' = selected
    BY <2>2, <2>3
  <2>5. /\ flight' \in SUBSET Sent /\ Awaited(flight', "query") = {}
        /\ Awaited(flight', "refresh") = Awaited(flight, "refresh")
    <3>1. flight' \in SUBSET Sent /\ Awaited(flight', "query") = {}
      BY <1>1, <1>2 DEF Awaited, DashboardInv, QuestionInv
    <3>2. Awaited(flight', "refresh") = Awaited(flight, "refresh")
      BY <1>1 DEF Awaited
    <3>3. QED
      BY <3>1, <3>2
  <2>6. QuestionInv(flight', selected', loading') /\ RefreshInv(flight', refreshing')
    BY <1>1, <2>3, <2>5 DEF DashboardInv, QuestionInv, RefreshInv
  <2>7. QED
    BY <1>1, <2>3, <2>4, <2>5, <2>6 DEF DashboardInv, PageInv, ServerInv, D!Unfinished
<1>3. CASE ~r.current
  <2>1. UNCHANGED <<answer, loading>>
    BY <1>3 DEF D!QueryArrives
  <2>2. /\ flight' \in SUBSET Sent /\ Awaited(flight', "query") = Awaited(flight, "query")
        /\ Awaited(flight', "refresh") = Awaited(flight, "refresh")
    BY <1>1, <1>3, SentFacts
  <2>3. QuestionInv(flight', selected', loading') /\ RefreshInv(flight', refreshing')
    BY <1>1, <2>1, <2>2 DEF DashboardInv, QuestionInv, RefreshInv
  <2>4. QED
    BY <1>1, <2>1, <2>2, <2>3 DEF DashboardInv, PageInv, ServerInv, D!Unfinished
<1>4. QED
  BY <1>2, <1>3

LEMMA ReadFacts ==
  ASSUME D!DashboardAssumption, NEW read \in Reads, read.time # -1
  PROVE  read \in D!Snapshots
BY DEF Reads, D!Snapshots, D!DashboardAssumption

LEMMA RefreshArrivesKeeps ==
  ASSUME D!DashboardAssumption, DashboardInv, NEW r \in flight, D!RefreshArrives(r)
  PROVE  DashboardInv'
<1>1. /\ r.kind = "refresh" /\ flight \in SUBSET Sent /\ r \in Sent /\ r.items \in Reads /\ r.list \in Reads
      /\ r.items.time # -1 /\ r.list.time # -1
      /\ UNCHANGED <<server, pending>>
  BY DEF D!RefreshArrives, D!Done, DashboardInv, PageInv, Sent
<1>2. r.list \in D!Snapshots /\ r.items.docs \in [Courses -> D!Document]
  BY <1>1, ReadFacts DEF Reads
<1>3. CASE r.current
  <2>1. /\ jobs' = r.items.docs /\ list' = r.list /\ refreshing' = FALSE
        /\ D!Select(selected, FALSE, flight \ {r})
    BY <1>3 DEF D!RefreshArrives
  <2>2. /\ flight \ {r} \in SUBSET Sent /\ Awaited(flight \ {r}, "refresh") = {}
        /\ Awaited(flight \ {r}, "query") = Awaited(flight, "query")
    <3>1. flight \ {r} \in SUBSET Sent /\ Awaited(flight \ {r}, "refresh") = {}
      BY <1>1, <1>3 DEF Awaited, DashboardInv, RefreshInv
    <3>2. Awaited(flight \ {r}, "query") = Awaited(flight, "query")
      BY <1>1 DEF Awaited
    <3>3. QED
      BY <3>1, <3>2
  <2>3. QuestionInv(flight \ {r}, selected, loading)
    BY <2>2 DEF DashboardInv, QuestionInv
  <2>4. /\ selected' \in Courses \cup {None} /\ answer' \in {None, selected'}
        /\ loading' \in BOOLEAN /\ flight' \in SUBSET Sent
        /\ QuestionInv(flight', selected', loading')
        /\ Awaited(flight', "refresh") = Awaited(flight \ {r}, "refresh")
    BY <2>1, <2>2, <2>3, SelectFacts DEF DashboardInv, PageInv
  <2>5. RefreshInv(flight', refreshing')
    BY <2>1, <2>2, <2>4 DEF RefreshInv
  <2>6. QED
    BY <1>1, <1>2, <2>1, <2>4, <2>5 DEF DashboardInv, PageInv, ServerInv, D!Unfinished
<1>4. CASE ~r.current
  <2>1. flight' = flight \ {r} /\ UNCHANGED <<selected, list, jobs, answer, loading, refreshing>>
    BY <1>4 DEF D!RefreshArrives
  <2>2. /\ flight' \in SUBSET Sent /\ Awaited(flight', "query") = Awaited(flight, "query")
        /\ Awaited(flight', "refresh") = Awaited(flight, "refresh")
    BY <1>1, <1>4, <2>1, SentFacts
  <2>3. QuestionInv(flight', selected', loading') /\ RefreshInv(flight', refreshing')
    BY <2>1, <2>2 DEF DashboardInv, QuestionInv, RefreshInv
  <2>4. QED
    BY <1>1, <2>1, <2>2, <2>3 DEF DashboardInv, PageInv, ServerInv, D!Unfinished
<1>5. QED
  BY <1>3, <1>4

LEMMA UploadArrivesKeeps ==
  ASSUME D!DashboardAssumption, DashboardInv, NEW r \in flight, D!UploadArrives(r)
  PROVE  DashboardInv'
<1>1. PICK c \in r.about :
        /\ D!Done(r, "upload") /\ UNCHANGED <<server, list>>
        /\ jobs' = [jobs EXCEPT ![c] = [r.items.docs[c] EXCEPT !.status = IF @ = "ready" THEN @ ELSE "active"]]
        /\ refreshing' = TRUE
        /\ IF r.items.docs[c].status = "ready"
           THEN pending' = None /\ D!Select(c, TRUE, D!Refreshed(flight \ {r}))
           ELSE pending' = c /\ flight' = D!Refreshed(flight \ {r}) /\ UNCHANGED <<selected, answer, loading>>
  BY DEF D!UploadArrives
<1>2. /\ r.kind = "upload" /\ flight \in SUBSET Sent /\ r \in Sent /\ c \in Courses
      /\ r.items.docs[c] \in D!Document /\ jobs \in [Courses -> D!Document]
  BY <1>1 DEF D!Done, DashboardInv, PageInv, Sent, Reads
<1>3. jobs' \in [Courses -> D!Document]
  <2>1. [r.items.docs[c] EXCEPT !.status = IF @ = "ready" THEN @ ELSE "active"] \in D!Document
    BY <1>2 DEF D!Document, D!Statuses
  <2>2. QED
    BY <1>1, <1>2, <2>1
<1> DEFINE kept == D!Refreshed(flight \ {r})
<1>4. /\ flight \ {r} \in SUBSET Sent /\ Awaited(flight \ {r}, "query") = Awaited(flight, "query")
  BY <1>2, SentFacts
<1>5. /\ kept \in SUBSET Sent /\ RefreshInv(kept, TRUE)
      /\ Awaited(kept, "query") = Awaited(flight, "query")
  BY <1>4, RefreshedFacts
<1> HIDE DEF kept
<1>6. QuestionInv(kept, selected, loading)
  BY <1>5 DEF DashboardInv, QuestionInv
<1>7. /\ selected' \in Courses \cup {None} /\ answer' \in {None, selected'} /\ pending' \in Courses \cup {None}
      /\ loading' \in BOOLEAN /\ flight' \in SUBSET Sent
      /\ QuestionInv(flight', selected', loading')
      /\ Awaited(flight', "refresh") = Awaited(kept, "refresh")
  <2>1. CASE r.items.docs[c].status = "ready"
    <3>1. pending' = None /\ D!Select(c, TRUE, kept)
      BY <1>1, <2>1 DEF kept
    <3>2. QED
      BY <1>5, <1>6, <3>1, SelectFacts DEF DashboardInv, PageInv
  <2>2. CASE r.items.docs[c].status # "ready"
    <3>1. pending' = c /\ flight' = kept /\ UNCHANGED <<selected, answer, loading>>
      BY <1>1, <2>2 DEF kept
    <3>2. QED
      BY <1>2, <1>5, <1>6, <3>1 DEF DashboardInv, PageInv
  <2>3. QED
    BY <2>1, <2>2
<1>8. RefreshInv(flight', refreshing')
  BY <1>1, <1>5, <1>7 DEF RefreshInv
<1>9. QED
  BY <1>1, <1>3, <1>7, <1>8 DEF DashboardInv, PageInv, ServerInv, D!Unfinished

LEMMA RemovalArrivesKeeps ==
  ASSUME D!DashboardAssumption, DashboardInv, NEW r \in flight, D!RemovalArrives(r)
  PROVE  DashboardInv'
<1>1. PICK c \in r.about :
        /\ D!Done(r, "remove")
        /\ jobs' = [jobs EXCEPT ![c] = D!NoDocument]
        /\ answer' = IF c = r.saved THEN None ELSE answer
        /\ flight' = D!Refreshed(flight \ {r}) /\ refreshing' = TRUE
        /\ UNCHANGED <<server, selected, pending, list, loading>>
  BY DEF D!RemovalArrives
<1>2. /\ r.kind = "remove" /\ flight \in SUBSET Sent /\ r \in Sent
      /\ jobs \in [Courses -> D!Document] /\ D!NoDocument \in D!Document
  BY <1>1 DEF D!Done, DashboardInv, PageInv, D!NoDocument, D!Document, D!Statuses, D!DashboardAssumption
<1>3. /\ flight \ {r} \in SUBSET Sent /\ Awaited(flight \ {r}, "query") = Awaited(flight, "query")
  BY <1>2, SentFacts
<1>4. /\ flight' \in SUBSET Sent /\ RefreshInv(flight', refreshing')
      /\ Awaited(flight', "query") = Awaited(flight, "query")
  BY <1>1, <1>3, RefreshedFacts
<1>5. QuestionInv(flight', selected', loading')
  BY <1>1, <1>4 DEF DashboardInv, QuestionInv
<1>6. answer' \in {None, selected'} /\ jobs' \in [Courses -> D!Document]
  BY <1>1, <1>2 DEF DashboardInv, PageInv
<1>7. QED
  BY <1>1, <1>4, <1>5, <1>6 DEF DashboardInv, PageInv, ServerInv, D!Unfinished

LEMMA PollArrivesKeeps ==
  ASSUME D!DashboardAssumption, DashboardInv, NEW r \in flight, D!PollArrives(r)
  PROVE  DashboardInv'
<1> DEFINE over == { c \in r.about : r.items.docs[c].status # "active" }
           Shows(c) == jobs[c].status # "none" /\ jobs[c].task = r.items.docs[c].task
           failed == { c \in over : r.items.docs[c].status = "failed" }
           asked == D!Request("courses", failed, r.saved)
           new == [asked EXCEPT !.items = r.items, !.id = r.id]
<1>1. /\ r.kind = "poll" /\ flight \in SUBSET Sent /\ r \in Sent /\ r.items \in Reads
      /\ r.items.docs \in [Courses -> D!Document] /\ jobs \in [Courses -> D!Document]
      /\ r.about \subseteq Courses /\ r.saved \in Courses \cup {None}
  BY DEF D!PollArrives, D!Done, DashboardInv, PageInv, Sent, Reads
<1>2. /\ jobs' = [ c \in Courses |-> IF c \in r.about /\ Shows(c) THEN r.items.docs[c] ELSE jobs[c] ]
      /\ flight' = (flight \ {r}) \cup (IF over = {} THEN {} ELSE {new})
      /\ UNCHANGED <<server, selected, pending, list, answer, loading, refreshing>>
  BY DEF D!PollArrives
<1>3. jobs' \in [Courses -> D!Document]
  BY <1>1, <1>2
<1>4. asked \in Sent /\ asked.kind = "courses"
  <2>1. failed \in SUBSET Courses
    BY <1>1
  <2>2. QED
    BY <1>1, <2>1, RequestType DEF D!Kinds
<1> HIDE DEF asked
<1>5. new \in Sent /\ new.kind = "courses"
  BY <1>1, <1>4 DEF Sent
<1> HIDE DEF new, over
<1>6. /\ flight \ {r} \in SUBSET Sent
      /\ \A kind \in {"query", "refresh"} : Awaited(flight \ {r}, kind) = Awaited(flight, kind)
  BY <1>1, SentFacts
<1>7. /\ flight' \in SUBSET Sent
      /\ \A kind \in {"query", "refresh"} : Awaited(flight', kind) = Awaited(flight, kind)
  <2>1. CASE over = {}
    BY <1>2, <1>6, <2>1
  <2>2. CASE over # {}
    <3> DEFINE kept == flight \ {r}
    <3>1. flight' = kept \cup {new} /\ kept \in SUBSET Sent
      BY <1>2, <1>6, <2>2
    <3> HIDE DEF kept
    <3>2. /\ flight' \in SUBSET Sent
          /\ \A kind \in {"query", "refresh"} : Awaited(flight', kind) = Awaited(kept, kind)
      BY <1>5, <3>1, SentFacts
    <3>3. QED
      BY <1>6, <3>2 DEF kept
  <2>3. QED
    BY <2>1, <2>2
<1>8. QuestionInv(flight', selected', loading') /\ RefreshInv(flight', refreshing')
  BY <1>2, <1>7 DEF DashboardInv, QuestionInv, RefreshInv
<1>9. QED
  BY <1>2, <1>3, <1>7, <1>8 DEF DashboardInv, PageInv, ServerInv, D!Unfinished

LEMMA CoursesArriveKeeps ==
  ASSUME D!DashboardAssumption, DashboardInv, NEW r \in flight, D!CoursesArrive(r)
  PROVE  DashboardInv'
<1> DEFINE chosen == r.saved \in D!Listed(r.list)
           want == IF chosen THEN r.saved ELSE selected
<1>1. /\ r.kind = "courses" /\ flight \in SUBSET Sent /\ r \in Sent /\ r.list \in D!Snapshots
      /\ list' = r.list /\ UNCHANGED <<server, jobs, refreshing>>
      /\ pending' = (IF chosen \/ r.saved \in r.about THEN None ELSE pending)
      /\ D!Select(want, chosen, flight \ {r})
  BY ReadFacts DEF D!CoursesArrive, DashboardInv, PageInv, Sent
<1>2. chosen \in BOOLEAN
  OBVIOUS
<1> HIDE DEF chosen, want
<1>3. /\ flight \ {r} \in SUBSET Sent
      /\ \A kind \in {"query", "refresh"} : Awaited(flight \ {r}, kind) = Awaited(flight, kind)
  BY <1>1, SentFacts
<1>4. QuestionInv(flight \ {r}, selected, loading)
  BY <1>3 DEF DashboardInv, QuestionInv
<1>5. /\ selected' \in Courses \cup {None} /\ answer' \in {None, selected'}
      /\ loading' \in BOOLEAN /\ flight' \in SUBSET Sent
      /\ QuestionInv(flight', selected', loading')
      /\ Awaited(flight', "refresh") = Awaited(flight \ {r}, "refresh")
  BY <1>1, <1>2, <1>3, <1>4, SelectFacts DEF DashboardInv, PageInv
<1>6. RefreshInv(flight', refreshing')
  BY <1>1, <1>3, <1>5 DEF DashboardInv, RefreshInv
<1>7. QED
  BY <1>1, <1>5, <1>6 DEF DashboardInv, PageInv, ServerInv, D!Unfinished

LEMMA FailsKeeps ==
  ASSUME D!DashboardAssumption, DashboardInv, NEW r \in flight, D!Fails(r)
  PROVE  DashboardInv'
<1>1. /\ flight' = flight \ {r} /\ flight \in SUBSET Sent /\ r \in Sent
      /\ loading' = (IF r.kind = "query" /\ r.current THEN FALSE ELSE loading)
      /\ refreshing' = (IF r.kind = "refresh" /\ r.current THEN FALSE ELSE refreshing)
      /\ UNCHANGED <<server, selected, pending, list, jobs, answer>>
  BY DEF D!Fails, DashboardInv, PageInv
<1>2. flight' \in SUBSET Sent
  BY <1>1
<1>3. Awaited(flight', "query") = IF r.kind = "query" /\ r.current THEN {} ELSE Awaited(flight, "query")
  BY <1>1 DEF Awaited, DashboardInv, QuestionInv
<1>4. Awaited(flight', "refresh") = IF r.kind = "refresh" /\ r.current THEN {} ELSE Awaited(flight, "refresh")
  BY <1>1 DEF Awaited, DashboardInv, RefreshInv
<1>5. QuestionInv(flight', selected', loading') /\ RefreshInv(flight', refreshing')
  BY <1>1, <1>3, <1>4 DEF DashboardInv, QuestionInv, RefreshInv
<1>6. QED
  BY <1>1, <1>2, <1>5 DEF DashboardInv, PageInv, ServerInv, D!Unfinished

-----------------------------------------------------------------------------
LEMMA DashboardInit == D!DashboardAssumption /\ D!Init => DashboardInv
<1> SUFFICES ASSUME D!DashboardAssumption, D!Init PROVE DashboardInv
  OBVIOUS
<1> DEFINE new == D!Request("refresh", {}, None)
<1>1. /\ server \in D!Snapshots /\ server.time = 0
      /\ \A c \in Courses : server.docs[c].task = 0 /\ server.docs[c].status \in {"none", "ready"}
      /\ selected = None /\ pending = None /\ answer = None
      /\ list = D!Blank /\ jobs = [ c \in Courses |-> D!NoDocument ]
      /\ loading = FALSE /\ refreshing = TRUE /\ flight = {new}
  BY DEF D!Init
<1>2. new \in Sent /\ new.kind = "refresh" /\ new.current
  BY RequestType DEF D!Kinds
<1> HIDE DEF new
<1>3. D!NoDocument \in D!Document
  BY DEF D!NoDocument, D!Document, D!Statuses, D!DashboardAssumption
<1>4. PageInv
  BY <1>1, <1>2, <1>3 DEF PageInv, D!Blank, D!Snapshots, D!DashboardAssumption
<1>5. ServerInv
  <2>1. { c \in Courses : server.docs[c].status = "active" } = {}
    BY <1>1
  <2>2. D!Unfinished = 0
    BY <2>1, FS_EmptySet, SameCounts DEF D!Unfinished
  <2>3. QED
    BY <1>1, <2>2 DEF ServerInv, D!DashboardAssumption
<1>6. Awaited(flight, "query") = {} /\ Awaited(flight, "refresh") = {new}
  BY <1>1, <1>2 DEF Awaited
<1>7. QED
  BY <1>1, <1>4, <1>5, <1>6 DEF DashboardInv, QuestionInv, RefreshInv

LEMMA DashboardStep == D!DashboardAssumption /\ DashboardInv /\ [D!Next]_(D!vars) => DashboardInv'
<1> SUFFICES ASSUME D!DashboardAssumption, DashboardInv, [D!Next]_(D!vars) PROVE DashboardInv'
  OBVIOUS
<1>1. CASE UNCHANGED D!vars
  BY <1>1 DEF D!vars, DashboardInv, PageInv, ServerInv, D!Unfinished, QuestionInv, RefreshInv, Awaited
<1>2. ASSUME NEW c \in Courses,
             \/ D!Choose(c) \/ D!Upload(c) \/ D!Remove(c)
             \/ D!Process(c, "ready") \/ D!Process(c, "failed") \/ D!Elsewhere(c)
      PROVE  DashboardInv'
  BY <1>2, ChooseKeeps, UploadKeeps, RemoveKeeps, ProcessKeeps, ElsewhereKeeps
<1>3. CASE D!Ask \/ D!Refresh \/ D!Poll
  BY <1>3, AskKeeps, RefreshKeeps, PollKeeps
<1>4. ASSUME NEW r \in flight, D!ServeUpload(r) \/ D!ServeRemoval(r) \/ D!Serve(r) \/ D!Fails(r)
      PROVE  DashboardInv'
  BY <1>4, ServeUploadKeeps, ServeRemovalKeeps, ServeKeeps, FailsKeeps
<1>5. ASSUME NEW r \in flight, D!Arrives(r)
      PROVE  DashboardInv'
  BY <1>5, QueryArrivesKeeps, RefreshArrivesKeeps, UploadArrivesKeeps, RemovalArrivesKeeps,
     PollArrivesKeeps, CoursesArriveKeeps DEF D!Arrives
<1>6. QED
  BY <1>1, <1>2, <1>3, <1>4, <1>5 DEF D!Next

(* The page waits for one question at most, about the course that is       *)
(* selected, and for one reading of its lists, and each change under way   *)
(* has its place among those that may be.                                  *)
THEOREM DashboardInvariance == ASSUME D!DashboardAssumption PROVE D!Spec => []DashboardInv
<1>1. D!Init => DashboardInv
  BY DashboardInit
<1>2. DashboardInv /\ [D!Next]_(D!vars) => DashboardInv'
  BY DashboardStep
<1>3. QED
  BY <1>1, <1>2, PTL DEF D!Spec

(* The dashboard never shows an answer about another course than the one   *)
(* that is selected, and waits exactly while what it waits for is out, in  *)
(* whatever order the answers come (requestVersion, uploadRefreshVersion). *)
THEOREM AnswersAreAboutTheCourse == ASSUME D!DashboardAssumption PROVE D!Spec => []D!ShowsWhatWasAsked
<1>1. DashboardInv => D!ShowsWhatWasAsked
  <2> SUFFICES ASSUME DashboardInv PROVE D!ShowsWhatWasAsked
    OBVIOUS
  <2>1. D!TypeOK
    BY DEF DashboardInv, PageInv, D!TypeOK, Sent
  <2>2. /\ loading <=> \E r \in flight : r.kind = "query" /\ r.current
        /\ refreshing <=> \E r \in flight : r.kind = "refresh" /\ r.current
    BY DEF DashboardInv, QuestionInv, RefreshInv, Awaited
  <2>3. QED
    BY <2>1, <2>2 DEF D!ShowsWhatWasAsked, DashboardInv, PageInv
<1>2. QED
  BY <1>1, DashboardInvariance, PTL

-----------------------------------------------------------------------------
(* The pages of the upload list (UploadPages), for any rows, times of      *)
(* creation and size of a page.                                            *)
CONSTANTS Uploads, Created, Content, Initially, Limit
VARIABLES status, changes, cursor, trail, page, shown, next, reading, fetching, acks, walk

U == INSTANCE UploadPages WITH Rows <- Uploads, refreshing <- reading, flight <- fetching

LEMMA SameInPages ==
  \A S : (U!IsFiniteSet(S) <=> IsFiniteSet(S)) /\ U!Cardinality(S) = Cardinality(S)
<1>1. \A S : U!IsFiniteSet(S) <=> IsFiniteSet(S)
  BY DEF IsFiniteSet, U!IsFiniteSet
<1>2. \A S : U!Cardinality(S) = Cardinality(S)
  BY DEF Cardinality, U!Cardinality
<1>3. QED
  BY <1>1, <1>2

(* The rows are in the order of their time of creation and identifier.     *)
LEMMA OlderFacts ==
  ASSUME U!UploadPagesAssumption
  PROVE  /\ \A r \in Uploads : ~U!Older(r, r)
         /\ \A r, s, t \in Uploads : U!Older(r, s) /\ U!Older(s, t) => U!Older(r, t)
         /\ \A r, s \in Uploads : r # s => U!Older(r, s) \/ U!Older(s, r)
<1>1. \A r \in Uploads : r \in Nat /\ Created[r] \in Nat
  BY DEF U!UploadPagesAssumption
<1>2. QED
  BY <1>1 DEF U!Older

LEMMA ListedType ==
  ASSUME NEW c PROVE U!Canonical \subseteq Uploads /\ U!Listed(c) \subseteq U!Canonical /\ U!Items(c) \subseteq U!Listed(c)
BY DEF U!Canonical, U!Stored, U!Listed, U!Items

(* A page that is not the last ends with a row that all the rest is older  *)
(* than: the cursor of the next.                                           *)
LEMMA PageFacts ==
  ASSUME U!UploadPagesAssumption, NEW c \in Uploads \cup {None}
  PROVE  /\ U!NextCursor(c) \in Uploads \cup {None}
         /\ \A r \in U!Listed(c) : r \in U!Items(c) \/ (U!NextCursor(c) \in Uploads /\ U!Older(r, U!NextCursor(c)))
<1> DEFINE all == U!Listed(c)
           here == U!Items(c)
           Newer(r) == { s \in all : U!Older(r, s) }
<1>1. /\ all \subseteq Uploads /\ here \subseteq all /\ IsFiniteSet(all) /\ IsFiniteSet(here)
      /\ here = { r \in all : Cardinality(Newer(r)) < Limit }
  <2>1. all \subseteq Uploads /\ here \subseteq all
    BY ListedType
  <2>2. IsFiniteSet(all) /\ IsFiniteSet(here)
    BY <2>1, FS_Subset, SameInPages DEF U!UploadPagesAssumption
  <2>3. QED
    BY <2>1, <2>2, SameInPages DEF U!Items
<1>2. CASE all = here
  BY <1>2 DEF U!NextCursor
<1>3. CASE all # here
  <2> HIDE DEF all, here
  <2>1. \A r \in all : IsFiniteSet(Newer(r)) /\ Cardinality(Newer(r)) \in Nat
    BY <1>1, FS_Subset, FS_CardinalityType
  <2>2. here # {}
    <3> DEFINE reverse == { p \in Uploads \X Uploads : U!Older(p[2], p[1]) }
    <3>1. /\ \A r \in all : <<r, r>> \notin reverse
          /\ \A r, s, t \in all : <<r, s>> \in reverse /\ <<s, t>> \in reverse => <<r, t>> \in reverse
          /\ \A r, s \in all : r # s => <<r, s>> \in reverse \/ <<s, r>> \in reverse
      BY <1>1, OlderFacts
    <3>2. all # {}
      BY <1>1, <1>3
    <3>3. PICK r \in all : \A s \in all \ {r} : <<r, s>> \in reverse
      <4> HIDE DEF reverse
      <4>1. QED
        BY <1>1, <3>1, <3>2, FirstOfAll
    <3>4. Newer(r) = {}
      BY <1>1, <3>3, OlderFacts
    <3>5. Cardinality(Newer(r)) < Limit
      BY <3>4, FS_EmptySet DEF U!UploadPagesAssumption
    <3>6. QED
      BY <1>1, <3>5
  <2>3. \E r \in here : \A s \in here \ {r} : U!Older(r, s)
    <3> DEFINE order == { p \in Uploads \X Uploads : U!Older(p[1], p[2]) }
    <3>1. /\ \A r \in here : <<r, r>> \notin order
          /\ \A r, s, t \in here : <<r, s>> \in order /\ <<s, t>> \in order => <<r, t>> \in order
          /\ \A r, s \in here : r # s => <<r, s>> \in order \/ <<s, r>> \in order
      BY <1>1, OlderFacts
    <3>2. \A r, s : <<r, s>> \in order => U!Older(r, s)
      OBVIOUS
    <3>3. PICK r \in here : \A s \in here \ {r} : <<r, s>> \in order
      <4> HIDE DEF order
      <4>1. IsFiniteSet(here)
        BY <1>1
      <4>2. QED
        BY <2>2, <3>1, <4>1, FirstOfAll
    <3>4. QED
      BY <3>2, <3>3
  <2> DEFINE last == U!NextCursor(c)
  <2>4. last \in here /\ \A s \in here \ {last} : U!Older(last, s)
    <3>1. last = CHOOSE r \in here : \A s \in here \ {r} : U!Older(r, s)
      BY <1>3 DEF U!NextCursor, all, here
    <3> HIDE DEF last
    <3>2. QED
      BY <2>3, <3>1
  <2> HIDE DEF last
  <2>5. ASSUME NEW r \in all, r \notin here
        PROVE  U!Older(r, last)
    <3>1. last \in Uploads /\ last \in all /\ r \in Uploads /\ r # last
      BY <1>1, <2>4, <2>5
    <3>2. SUFFICES ASSUME U!Older(last, r) PROVE FALSE
      BY <3>1, OlderFacts
    <3>3. Newer(r) \subseteq Newer(last)
      BY <1>1, <3>1, <3>2, OlderFacts
    <3>4. Cardinality(Newer(r)) <= Cardinality(Newer(last))
      BY <2>1, <3>1, <3>3, FS_Subset
    <3>5. Cardinality(Newer(last)) < Limit /\ ~(Cardinality(Newer(r)) < Limit)
      BY <1>1, <2>4, <2>5
    <3>6. Limit \in Nat /\ Cardinality(Newer(last)) \in Nat /\ Cardinality(Newer(r)) \in Nat
      BY <2>1, <3>1 DEF U!UploadPagesAssumption
    <3>7. QED
      BY <3>4, <3>5, <3>6
  <2>6. QED
    BY <1>1, <2>4, <2>5 DEF all, here, last
<1>4. QED
  BY <1>2, <1>3

-----------------------------------------------------------------------------
Cursors == Uploads \cup {None}
Requests ==
  [cursor : Cursors, step : U!Steps, current : BOOLEAN, done : BOOLEAN,
   items : SUBSET Uploads, next : Cursors, since : SUBSET Uploads]
Walks == [since : SUBSET Uploads, seen : SUBSET Uploads]

(* Of what has been listed ever since, all but what a cursor leaves for    *)
(* the pages after it has been shown.                                      *)
ShownUpTo(c, w) == \A r \in w.since : r \in w.seen \/ (c \in Uploads /\ U!Older(r, c))

WalkInv ==
  /\ walk \in Walks /\ walk.since \subseteq U!Canonical
  /\ next \in Cursors /\ ShownUpTo(next, walk)

(* The trail leads back to the first page, and each page was come to by a  *)
(* walk that had passed nothing by.                                        *)
TrailInv ==
  /\ page \in Nat /\ trail \in Seq(Cursors) /\ page < Len(trail)
  /\ trail[1] = None /\ cursor = trail[page + 1]
  /\ \A i \in 2 .. page + 1 : trail[i] \in Uploads /\ ShownUpTo(trail[i], walk)

(* A request is for the page that is shown, the next or the one before.    *)
Asked(f) ==
  /\ f.step = 0 => f.cursor = cursor
  /\ f.step = 1 => f.cursor \in Uploads /\ ShownUpTo(f.cursor, walk)
  /\ f.step = -1 => page > 0 /\ f.cursor = trail[page]

(* An answer leaves for the next page what it does not hold.               *)
Answered(f) ==
  /\ f.since \subseteq U!Canonical /\ walk.since \subseteq f.since
  /\ \A r \in f.since : f.cursor = None \/ U!Older(r, f.cursor) =>
       r \in f.items \/ (f.next \in Uploads /\ U!Older(r, f.next))

FlightInv ==
  /\ fetching \subseteq Requests
  /\ \A f, g \in fetching : f.current /\ g.current => f = g
  /\ \A f \in fetching : f.current => Asked(f) /\ (f.done => Answered(f))

PagesInv == WalkInv /\ TrailInv /\ FlightInv

LEMMA PagesInit == U!UploadPagesAssumption /\ U!Init => PagesInv
<1> SUFFICES ASSUME U!UploadPagesAssumption, U!Init PROVE PagesInv
  OBVIOUS
<1> DEFINE f == U!Request(None, 0)
<1>1. f \in Requests /\ f.step = 0 /\ f.cursor = None /\ ~f.done
  BY DEF U!Request, Requests, Cursors, U!Steps, U!Unread
<1> HIDE DEF f
<1>2. /\ cursor = None /\ trail = <<None>> /\ page = 0 /\ next = None
      /\ fetching = {f} /\ walk = [since |-> {}, seen |-> {}]
  BY DEF U!Init, f
<1>3. WalkInv
  BY <1>2 DEF WalkInv, Walks, Cursors, ShownUpTo
<1>4. TrailInv
  BY <1>2 DEF TrailInv, Cursors
<1>5. FlightInv
  BY <1>1, <1>2 DEF FlightInv, Asked
<1>6. QED
  BY <1>3, <1>4, <1>5 DEF PagesInv

(* The documents change: what is listed no more is owed no more.           *)
LEMMA PageChangeKeeps ==
  ASSUME U!UploadPagesAssumption, PagesInv, NEW r, NEW to, U!Change(r, to)
  PROVE  PagesInv'
<1> DEFINE Less(f) == [f EXCEPT !.since = @ \cap U!Canonical']
<1>1. /\ walk' = [walk EXCEPT !.since = @ \cap U!Canonical']
      /\ fetching' = { Less(f) : f \in fetching }
      /\ UNCHANGED <<cursor, trail, page, next>>
  BY DEF U!Change, U!StillListed, U!client
<1>2. /\ walk' \in Walks /\ walk'.seen = walk.seen
      /\ walk'.since = walk.since \cap U!Canonical'
  BY <1>1 DEF PagesInv, WalkInv, Walks
<1>3. \A c : ShownUpTo(c, walk) => ShownUpTo(c, walk')
  BY <1>2 DEF ShownUpTo
<1>4. WalkInv'
  <2>1. ShownUpTo(next', walk')
    BY <1>1, <1>3 DEF PagesInv, WalkInv
  <2>2. QED
    BY <1>1, <1>2, <2>1 DEF PagesInv, WalkInv, ShownUpTo
<1>5. TrailInv'
  <2>1. \A i \in 2 .. page + 1 : trail[i] \in Uploads /\ ShownUpTo(trail[i], walk')
    BY <1>3 DEF PagesInv, TrailInv
  <2>2. QED
    BY <1>1, <2>1 DEF PagesInv, TrailInv, ShownUpTo
<1>6. \A f \in fetching : /\ Less(f) \in Requests /\ Less(f).cursor = f.cursor /\ Less(f).step = f.step
                        /\ Less(f).current = f.current /\ Less(f).done = f.done
                        /\ Less(f).items = f.items /\ Less(f).next = f.next
                        /\ Less(f).since = f.since \cap U!Canonical'
  BY DEF PagesInv, FlightInv, Requests
<1> HIDE DEF Less
<1>7. ASSUME NEW f \in fetching, NEW g, g = Less(f), g.current
      PROVE  Asked(g)' /\ (g.done => Answered(g)')
  <2>1. /\ g.cursor = f.cursor /\ g.step = f.step /\ f.current /\ g.done = f.done
        /\ g.items = f.items /\ g.next = f.next /\ g.since = f.since \cap U!Canonical'
    BY <1>6, <1>7
  <2>2. Asked(f) /\ (f.done => Answered(f))
    BY <2>1 DEF PagesInv, FlightInv
  <2>3. ShownUpTo(f.cursor, walk) => ShownUpTo(g.cursor, walk')
    BY <1>3, <2>1
  <2>4. Asked(g)'
    BY <1>1, <2>1, <2>2, <2>3 DEF Asked, ShownUpTo
  <2>5. g.done => Answered(g)'
    BY <1>2, <2>1, <2>2 DEF Answered
  <2>6. QED
    BY <2>4, <2>5
<1>8. FlightInv'
  <2>1. fetching' \subseteq Requests
    BY <1>1, <1>6
  <2>2. \A f, g \in fetching' : f.current /\ g.current => f = g
    BY <1>1, <1>6 DEF PagesInv, FlightInv
  <2>3. ASSUME NEW g \in fetching', g.current
        PROVE  Asked(g)' /\ (g.done => Answered(g)')
    <3>1. PICK f \in fetching : g = Less(f)
      BY <1>1
    <3>2. QED
      BY <1>7, <2>3, <3>1
  <2>4. QED
    BY <2>1, <2>2, <2>3 DEF FlightInv
<1>9. QED
  BY <1>4, <1>5, <1>8 DEF PagesInv

(* A new version: of the requests, only the new one counts.                *)
LEMMA NewVersionFacts ==
  ASSUME NEW c \in Cursors, NEW step \in U!Steps, fetching \subseteq Requests, U!Refreshed(c, step)
  PROVE  \E new \in Requests :
           /\ new.cursor = c /\ new.step = step /\ ~new.done
           /\ fetching' \subseteq Requests
           /\ \A f \in fetching' : f = new \/ ~f.current
<1> DEFINE new == U!Request(c, step)
           Past(f) == [f EXCEPT !.current = FALSE]
<1>1. new \in Requests /\ new.cursor = c /\ new.step = step /\ ~new.done
  BY DEF U!Request, Requests, U!Unread, Cursors
<1>2. \A f \in fetching : Past(f) \in Requests /\ ~Past(f).current
  BY DEF Requests
<1>3. fetching' = { Past(f) : f \in fetching } \cup {new}
  BY DEF U!Refreshed
<1> HIDE DEF new, Past
<1>4. QED
  BY <1>1, <1>2, <1>3

LEMMA PageRequestKeeps ==
  ASSUME FlightInv, NEW c \in Cursors, NEW step \in U!Steps, U!Refreshed(c, step),
         step = 0 => c = cursor',
         step = 1 => c \in Uploads /\ ShownUpTo(c, walk'),
         step = -1 => page' > 0 /\ c = trail'[page']
  PROVE  FlightInv'
<1>1. PICK new \in Requests :
           /\ new.cursor = c /\ new.step = step /\ ~new.done
           /\ fetching' \subseteq Requests
           /\ \A f \in fetching' : f = new \/ ~f.current
  BY NewVersionFacts DEF FlightInv
<1>2. Asked(new)'
  BY <1>1 DEF Asked, ShownUpTo
<1>3. QED
  BY <1>1, <1>2 DEF FlightInv

LEMMA TrailFacts ==
  ASSUME U!UploadPagesAssumption, PagesInv
  PROVE  /\ cursor \in Cursors /\ \A i \in 1 .. page + 1 : trail[i] \in Cursors
         /\ cursor = None <=> page = 0
<1>1. /\ page \in Nat /\ trail \in Seq(Cursors) /\ page < Len(trail)
      /\ trail[1] = None /\ cursor = trail[page + 1]
      /\ \A i \in 2 .. page + 1 : trail[i] \in Uploads
      /\ None \notin Uploads
  BY DEF PagesInv, TrailInv, U!UploadPagesAssumption
<1>2. QED
  BY <1>1

(* What is listed depends on the documents alone.                          *)
LEMMA SameListed == ASSUME UNCHANGED status PROVE U!Canonical' = U!Canonical
<1>1. ASSUME NEW r PROVE U!Rank(r)' = U!Rank(r)
  BY DEF U!Rank
<1>2. QED
  BY <1>1 DEF U!Canonical, U!Stored

LEMMA PageRefreshKeeps ==
  ASSUME U!UploadPagesAssumption, PagesInv, U!Refresh
  PROVE  PagesInv'
<1>1. U!Refreshed(cursor, 0) /\ UNCHANGED <<status, cursor, trail, page, next, walk>>
  BY DEF U!Refresh, U!client
<1>2. FlightInv'
  BY <1>1, TrailFacts, PageRequestKeeps DEF PagesInv, U!Steps
<1>3. WalkInv' /\ TrailInv'
  BY <1>1, SameListed DEF PagesInv, WalkInv, TrailInv, ShownUpTo
<1>4. QED
  BY <1>2, <1>3 DEF PagesInv

LEMMA PageTurnKeeps ==
  ASSUME U!UploadPagesAssumption, PagesInv, NEW step \in U!Steps, U!Turn(step)
  PROVE  PagesInv'
<1>1. UNCHANGED <<status, cursor, trail, page, next, walk>>
  BY DEF U!Turn, U!client
<1>2. FlightInv'
  <2>1. CASE step = 1 /\ next # None /\ U!Refreshed(next, 1)
    <3>1. next \in Cursors /\ next \in Uploads /\ ShownUpTo(next, walk')
      BY <1>1, <2>1 DEF PagesInv, WalkInv, Cursors
    <3>2. QED
      BY <2>1, <3>1, PageRequestKeeps DEF PagesInv
  <2>2. CASE step = -1 /\ page > 0 /\ U!Refreshed(trail[page], -1)
    <3>1. trail[page] \in Cursors /\ page' > 0 /\ trail[page] = trail'[page']
      BY <1>1, <2>2, TrailFacts DEF PagesInv, TrailInv
    <3>2. QED
      BY <2>2, <3>1, PageRequestKeeps DEF PagesInv
  <2>3. QED
    BY <2>1, <2>2 DEF U!Turn
<1>3. WalkInv' /\ TrailInv'
  BY <1>1, SameListed DEF PagesInv, WalkInv, TrailInv, ShownUpTo
<1>4. QED
  BY <1>2, <1>3 DEF PagesInv

LEMMA PageUploadKeeps ==
  ASSUME U!UploadPagesAssumption, PagesInv, NEW r \in Uploads, U!UploadArrives(r)
  PROVE  PagesInv'
<1>1. /\ cursor' = None /\ trail' = <<None>> /\ page' = 0 /\ U!Refreshed(None, 0)
      /\ UNCHANGED <<status, next, walk>>
  BY DEF U!UploadArrives
<1>2. FlightInv'
  BY <1>1, PageRequestKeeps DEF PagesInv, U!Steps, Cursors
<1>3. WalkInv'
  BY <1>1, SameListed DEF PagesInv, WalkInv, ShownUpTo
<1>4. TrailInv'
  BY <1>1 DEF TrailInv, Cursors
<1>5. QED
  BY <1>2, <1>3, <1>4 DEF PagesInv

LEMMA PageRemovalKeeps ==
  ASSUME U!UploadPagesAssumption, PagesInv, NEW r \in Uploads, U!RemovalArrives(r)
  PROVE  PagesInv'
<1>1. U!Refreshed(cursor, 0) /\ UNCHANGED <<status, cursor, trail, page, next, walk>>
  BY DEF U!RemovalArrives
<1>2. FlightInv'
  BY <1>1, TrailFacts, PageRequestKeeps DEF PagesInv, U!Steps
<1>3. WalkInv' /\ TrailInv'
  BY <1>1, SameListed DEF PagesInv, WalkInv, TrailInv, ShownUpTo
<1>4. QED
  BY <1>2, <1>3 DEF PagesInv

LEMMA PageServeKeeps ==
  ASSUME U!UploadPagesAssumption, PagesInv, NEW f \in fetching, U!Serve(f)
  PROVE  PagesInv'
<1> DEFINE read == [f EXCEPT !.done = TRUE, !.items = U!Items(f.cursor),
                             !.next = U!NextCursor(f.cursor), !.since = U!Canonical]
<1>1. /\ fetching' = (fetching \ {f}) \cup {read}
      /\ UNCHANGED <<status, cursor, trail, page, next, walk>>
  BY DEF U!Serve, U!client
<1>2. f \in Requests /\ f.cursor \in Uploads \cup {None} /\ fetching \subseteq Requests
  BY DEF PagesInv, FlightInv, Requests, Cursors
<1>3. /\ U!NextCursor(f.cursor) \in Cursors /\ U!Items(f.cursor) \subseteq Uploads /\ U!Canonical \subseteq Uploads
      /\ \A r \in U!Listed(f.cursor) :
           r \in U!Items(f.cursor) \/ (U!NextCursor(f.cursor) \in Uploads /\ U!Older(r, U!NextCursor(f.cursor)))
  BY <1>2, PageFacts, ListedType DEF Cursors
<1>4. /\ read \in Requests /\ read.cursor = f.cursor /\ read.step = f.step /\ read.current = f.current
      /\ read.items = U!Items(f.cursor) /\ read.next = U!NextCursor(f.cursor) /\ read.since = U!Canonical
  BY <1>2, <1>3 DEF Requests
<1> HIDE DEF read
<1>5. WalkInv' /\ TrailInv'
  BY <1>1, SameListed DEF PagesInv, WalkInv, TrailInv, ShownUpTo
<1>6. FlightInv'
  <2>1. fetching' \subseteq Requests
    BY <1>1, <1>2, <1>4
  <2>2. \A g, h \in fetching' : g.current /\ h.current => g = h
    BY <1>1, <1>4 DEF PagesInv, FlightInv
  <2>3. ASSUME NEW g \in fetching, g.current PROVE Asked(g)' /\ (g.done => Answered(g)')
    BY <1>1, <2>3, SameListed DEF PagesInv, FlightInv, Asked, Answered, ShownUpTo
  <2>4. ASSUME NEW g, g = read, g.current PROVE Asked(g)' /\ Answered(g)'
    <3>1. Asked(f)
      BY <1>4, <2>4 DEF PagesInv, FlightInv
    <3>2. Asked(g)'
      BY <1>1, <1>4, <2>4, <3>1 DEF Asked, ShownUpTo
    <3>3. walk'.since \subseteq U!Canonical /\ U!Canonical' = U!Canonical
      BY <1>1, SameListed DEF PagesInv, WalkInv
    <3>4. \A r \in U!Canonical : f.cursor = None \/ U!Older(r, f.cursor) => r \in U!Listed(f.cursor)
      BY DEF U!Listed
    <3>5. Answered(g)'
      BY <1>3, <1>4, <2>4, <3>3, <3>4 DEF Answered
    <3>6. QED
      BY <3>2, <3>5
  <2>5. QED
    BY <1>1, <2>1, <2>2, <2>3, <2>4 DEF FlightInv
<1>7. QED
  BY <1>5, <1>6 DEF PagesInv

(* A request that is gone: no other is waited for.                         *)
LEMMA PageGoneKeeps ==
  ASSUME FlightInv, NEW f \in fetching, fetching' = fetching \ {f},
         UNCHANGED <<status, cursor, trail, page, walk>> \/ f.current
  PROVE  FlightInv'
<1>1. CASE f.current
  BY <1>1 DEF FlightInv
<1>2. CASE UNCHANGED <<status, cursor, trail, page, walk>>
  BY <1>2, SameListed DEF FlightInv, Asked, Answered, ShownUpTo
<1>3. QED
  BY <1>1, <1>2

(* The first page begins a walk.                                           *)
LEMMA FirstPageArrives ==
  ASSUME U!UploadPagesAssumption, PagesInv, NEW f \in fetching, U!Arrive(f), f.current, f.cursor = None
  PROVE  WalkInv' /\ TrailInv'
<1>1. /\ f \in Requests /\ Asked(f) /\ Answered(f)
  BY DEF U!Arrive, PagesInv, FlightInv
<1>2. /\ cursor' = None /\ next' = f.next /\ page' = page + f.step /\ UNCHANGED status
      /\ walk' = [since |-> f.since, seen |-> f.items]
      /\ f.step # 1 => trail' = trail
  BY DEF U!Arrive
<1>3. None \notin Uploads
  BY DEF U!UploadPagesAssumption
<1>4. f.step # 1 /\ page' = 0
  <2>1. f.step \in U!Steps /\ page \in Nat /\ \A i \in 2 .. page + 1 : trail[i] \in Uploads
    BY <1>1 DEF Requests, PagesInv, TrailInv
  <2>2. f.step # 1
    BY <1>1, <1>3 DEF Asked
  <2>3. CASE f.step = 0
    BY <1>1, <1>2, <2>1, <2>3, TrailFacts DEF Asked
  <2>4. CASE f.step = -1
    <3>1. page > 0 /\ trail[page] = None
      BY <1>1, <2>4 DEF Asked
    <3>2. page = 1
      BY <1>3, <2>1, <3>1
    <3>3. QED
      BY <1>2, <2>4, <3>2
  <2>5. QED
    BY <2>1, <2>2, <2>3, <2>4 DEF U!Steps
<1>5. WalkInv'
  BY <1>1, <1>2, SameListed DEF WalkInv, Walks, ShownUpTo, Requests, Answered
<1>6. TrailInv'
  BY <1>2, <1>4 DEF PagesInv, TrailInv
<1>7. QED
  BY <1>5, <1>6

(* Another page goes on with the walk that led to it.                      *)
LEMMA LaterPageArrives ==
  ASSUME U!UploadPagesAssumption, PagesInv, NEW f \in fetching, U!Arrive(f), f.current, f.cursor # None
  PROVE  WalkInv' /\ TrailInv'
<1>1. /\ f \in Requests /\ Asked(f) /\ Answered(f) /\ f.cursor \in Uploads
  BY DEF U!Arrive, PagesInv, FlightInv, Requests, Cursors
<1>2. /\ cursor' = f.cursor /\ next' = f.next /\ page' = page + f.step /\ UNCHANGED status
      /\ walk' = [walk EXCEPT !.seen = @ \cup f.items]
      /\ trail' = IF f.step = 1 THEN Append(SubSeq(trail, 1, page'), f.cursor) ELSE trail
  BY DEF U!Arrive
<1>3. /\ walk' \in Walks /\ walk'.since = walk.since /\ walk'.seen = walk.seen \cup f.items
  BY <1>1, <1>2 DEF PagesInv, WalkInv, Walks, Requests
<1>4. \A c : ShownUpTo(c, walk) => ShownUpTo(c, walk')
  BY <1>3 DEF ShownUpTo
<1>5. /\ f.step \in U!Steps /\ page \in Nat /\ trail \in Seq(Cursors) /\ page < Len(trail)
      /\ trail[1] = None /\ cursor = trail[page + 1] /\ None \notin Uploads
      /\ \A i \in 2 .. page + 1 : trail[i] \in Uploads /\ ShownUpTo(trail[i], walk)
  BY <1>1 DEF Requests, PagesInv, TrailInv, U!UploadPagesAssumption
<1>6. /\ ShownUpTo(f.cursor, walk)
      /\ f.step = -1 => page > 1
  <2>1. CASE f.step = 1
    BY <1>1, <2>1 DEF Asked
  <2>2. CASE f.step = 0
    <3>1. page + 1 \in 2 .. page + 1 /\ f.cursor = trail[page + 1]
      BY <1>1, <1>5, <2>2 DEF Asked
    <3>2. QED
      BY <1>5, <2>2, <3>1
  <2>3. CASE f.step = -1
    <3>1. page > 0 /\ f.cursor = trail[page] /\ page # 1
      BY <1>1, <1>5, <2>3 DEF Asked
    <3>2. page \in 2 .. page + 1
      BY <1>5, <3>1
    <3>3. QED
      BY <1>5, <3>1, <3>2
  <2>4. QED
    BY <1>5, <2>1, <2>2, <2>3 DEF U!Steps
<1>7. WalkInv'
  <2>1. ShownUpTo(next', walk')
    BY <1>1, <1>2, <1>3, <1>6 DEF ShownUpTo, Answered
  <2>2. next' \in Cursors
    BY <1>1, <1>2 DEF Requests
  <2>3. walk'.since \subseteq U!Canonical'
    BY <1>2, <1>3, SameListed DEF PagesInv, WalkInv
  <2>4. QED
    BY <1>3, <2>1, <2>2, <2>3 DEF WalkInv, ShownUpTo
<1>8. /\ page' \in Nat /\ trail' \in Seq(Cursors) /\ page' < Len(trail') /\ trail'[1] = None
      /\ cursor' = trail'[page' + 1]
      /\ \A i \in 2 .. page' + 1 : trail'[i] \in Uploads /\ ShownUpTo(trail'[i], walk')
  <2>1. CASE f.step = 1
    <3> DEFINE kept == SubSeq(trail, 1, page + 1)
    <3>1. page' = page + 1 /\ trail' = Append(kept, f.cursor)
      BY <1>2, <1>5, <2>1
    <3>2. /\ kept \in Seq(Cursors) /\ Len(kept) = page + 1
          /\ \A i \in 1 .. page + 1 : kept[i] = trail[i]
      BY <1>5
    <3> HIDE DEF kept
    <3>3. /\ trail' \in Seq(Cursors) /\ Len(trail') = page + 2 /\ trail'[page + 2] = f.cursor
          /\ \A i \in 1 .. page + 1 : trail'[i] = trail[i]
      BY <1>1, <1>5, <3>1, <3>2 DEF Cursors
    <3>4. ASSUME NEW i \in 2 .. page + 2
          PROVE  trail'[i] \in Uploads /\ ShownUpTo(trail'[i], walk')
      <4>1. CASE i = page + 2
        BY <1>1, <1>4, <1>6, <3>3, <4>1
      <4>2. CASE i # page + 2
        <5>1. i \in 2 .. page + 1 /\ i \in 1 .. page + 1
          BY <1>5, <4>2
        <5>2. QED
          BY <1>4, <1>5, <3>3, <5>1
      <4>3. QED
        BY <4>1, <4>2
    <3>5. page' + 1 = page + 2 /\ page' \in Nat /\ page' < page + 2 /\ trail'[1] = None
      BY <1>5, <3>1, <3>3
    <3>6. cursor' = trail'[page' + 1]
      BY <1>2, <3>3, <3>5
    <3>7. \A i \in 2 .. page' + 1 : trail'[i] \in Uploads /\ ShownUpTo(trail'[i], walk')
      BY <3>4, <3>5
    <3>8. QED
      BY <3>3, <3>5, <3>6, <3>7
  <2>2. CASE f.step = 0
    <3>1. page' = page /\ trail' = trail /\ f.cursor = cursor
      BY <1>1, <1>2, <1>5, <2>2 DEF Asked
    <3>2. QED
      BY <1>2, <1>4, <1>5, <3>1
  <2>3. CASE f.step = -1
    <3>1. page' = page - 1 /\ trail' = trail /\ f.cursor = trail[page] /\ page > 1
      BY <1>1, <1>2, <1>5, <1>6, <2>3 DEF Asked
    <3>2. page' + 1 = page /\ page' \in Nat /\ page' < Len(trail)
      BY <1>5, <3>1
    <3>3. \A i \in 2 .. page' + 1 : trail'[i] \in Uploads /\ ShownUpTo(trail'[i], walk')
      <4>1. ASSUME NEW i \in 2 .. page PROVE trail[i] \in Uploads /\ ShownUpTo(trail[i], walk')
        <5>1. i \in 2 .. page + 1
          BY <1>5
        <5>2. QED
          BY <1>4, <1>5, <5>1
      <4>2. QED
        BY <3>1, <3>2, <4>1
    <3>4. cursor' = trail'[page' + 1]
      BY <1>2, <3>1, <3>2
    <3>5. QED
      BY <1>5, <3>1, <3>2, <3>3, <3>4
  <2>4. QED
    BY <1>5, <2>1, <2>2, <2>3 DEF U!Steps
<1>9. TrailInv'
  BY <1>8 DEF TrailInv, ShownUpTo
<1>10. QED
  BY <1>7, <1>9

LEMMA PageArriveKeeps ==
  ASSUME U!UploadPagesAssumption, PagesInv, NEW f \in fetching, U!Arrive(f)
  PROVE  PagesInv'
<1>1. fetching' = fetching \ {f} /\ UNCHANGED status
  BY DEF U!Arrive
<1>2. CASE ~f.current
  <2>1. UNCHANGED <<cursor, trail, page, next, walk>>
    BY <1>2 DEF U!Arrive, U!client
  <2>2. WalkInv' /\ TrailInv'
    BY <1>1, <2>1, SameListed DEF PagesInv, WalkInv, TrailInv, ShownUpTo
  <2>3. FlightInv'
    BY <1>1, <2>1, PageGoneKeeps DEF PagesInv
  <2>4. QED
    BY <2>2, <2>3 DEF PagesInv
<1>3. CASE f.current
  <2>1. FlightInv'
    BY <1>1, <1>3, PageGoneKeeps DEF PagesInv
  <2>2. QED
    BY <1>3, <2>1, FirstPageArrives, LaterPageArrives DEF PagesInv
<1>4. QED
  BY <1>2, <1>3

LEMMA PageFailKeeps ==
  ASSUME U!UploadPagesAssumption, PagesInv, NEW f \in fetching, U!Fail(f)
  PROVE  PagesInv'
<1>1. fetching' = fetching \ {f} /\ UNCHANGED <<status, cursor, trail, page, next, walk>>
  BY DEF U!Fail, U!client
<1>2. WalkInv' /\ TrailInv'
  BY <1>1, SameListed DEF PagesInv, WalkInv, TrailInv, ShownUpTo
<1>3. FlightInv'
  BY <1>1, PageGoneKeeps DEF PagesInv
<1>4. QED
  BY <1>2, <1>3 DEF PagesInv

LEMMA PagesStep == U!UploadPagesAssumption /\ PagesInv /\ [U!Next]_(U!vars) => PagesInv'
<1> SUFFICES ASSUME U!UploadPagesAssumption, PagesInv, [U!Next]_(U!vars) PROVE PagesInv'
  OBVIOUS
<1>1. CASE UNCHANGED U!vars
  <2>1. UNCHANGED <<status, cursor, trail, page, next, walk, fetching>>
    BY <1>1 DEF U!vars, U!client
  <2>2. WalkInv' /\ TrailInv'
    BY <2>1, SameListed DEF PagesInv, WalkInv, TrailInv, ShownUpTo
  <2>3. FlightInv'
    BY <2>1, SameListed DEF PagesInv, FlightInv, Asked, Answered, ShownUpTo
  <2>4. QED
    BY <2>2, <2>3 DEF PagesInv
<1>2. ASSUME NEW r \in Uploads, U!Upload(r) \/ U!Remove(r) \/ U!Process(r)
      PROVE  PagesInv'
  BY <1>2, PageChangeKeeps DEF U!Upload, U!Remove, U!Process
<1>3. ASSUME NEW r \in Uploads, U!UploadArrives(r) \/ U!RemovalArrives(r)
      PROVE  PagesInv'
  BY <1>3, PageUploadKeeps, PageRemovalKeeps
<1>4. ASSUME NEW f \in fetching, U!Serve(f) \/ U!Arrive(f) \/ U!Fail(f)
      PROVE  PagesInv'
  BY <1>4, PageServeKeeps, PageArriveKeeps, PageFailKeeps
<1>5. QED
  BY <1>1, <1>2, <1>3, <1>4, PageRefreshKeeps, PageTurnKeeps DEF U!Next

(* However the pages are turned and read again, what they have shown and   *)
(* what is left for the next is all that has been listed ever since.       *)
THEOREM PagesInvariance == ASSUME U!UploadPagesAssumption PROVE U!Spec => []PagesInv
<1>1. U!Init => PagesInv
  BY PagesInit
<1>2. PagesInv /\ [U!Next]_(U!vars) => PagesInv'
  BY PagesStep
<1>3. QED
  BY <1>1, <1>2, PTL DEF U!Spec

(* A walk through the pages passes nothing by, for any rows, times of      *)
(* creation and size of a page (paginated_uploads, changeUploadPage).      *)
THEOREM WalksPassNothingBy == ASSUME U!UploadPagesAssumption PROVE U!Spec => []U!WalkPassesNothingBy
<1>1. PagesInv => U!WalkPassesNothingBy
  BY DEF PagesInv, WalkInv, ShownUpTo, U!WalkPassesNothingBy, U!UploadPagesAssumption
<1>2. QED
  BY <1>1, PagesInvariance, PTL
-----------------------------------------------------------------------------
(* What a question reads of a graph (GraphReads), for any concepts with    *)
(* any names, any edges between them and any limits.                       *)
CONSTANTS Known, Named, NameLimit, MaxNodes, MaxEdges

G == INSTANCE GraphReads WITH Scope <- Known, Name <- Named

LEMMA SameInGraphs ==
  \A S : (G!IsFiniteSet(S) <=> IsFiniteSet(S)) /\ G!Cardinality(S) = Cardinality(S)
<1>1. \A S : G!IsFiniteSet(S) <=> IsFiniteSet(S)
  BY DEF IsFiniteSet, G!IsFiniteSet
<1>2. \A S : G!Cardinality(S) = Cardinality(S)
  BY DEF Cardinality, G!Cardinality
<1>3. QED
  BY <1>1, <1>2

(* An edge of a path: a prerequisite within the scope.                     *)
Linked(edges, e) == e \in edges /\ e[3] = G!Prerequisite /\ G!Ends(e) \subseteq Known
Chain(edges, c, e, f) ==
  Linked(edges, e) /\ Linked(edges, f) /\ f[2] = c /\ e # f /\ e[2] = f[1]

LEMMA PathFacts ==
  ASSUME NEW edges, NEW c, NEW hops \in 1 .. 2
  PROVE  LET paths == G!Paths(edges, c, hops) IN
         /\ \A p \in paths :
              \/ \E e \in edges : Linked(edges, e) /\ e[2] = c /\ p = <<e>>
              \/ hops = 2 /\ \E e, f \in edges : Chain(edges, c, e, f) /\ p = <<e, f>>
         /\ \A e \in edges : Linked(edges, e) /\ e[2] = c => <<e>> \in paths
         /\ hops = 2 => \A e, f \in edges : Chain(edges, c, e, f) => <<e, f>> \in paths
<1> DEFINE links == { e \in edges : e[3] = G!Prerequisite /\ G!Ends(e) \subseteq Known }
           last == { g \in links : g[2] = c }
           one == { <<e>> : e \in last }
           two == { <<e, f>> : e \in links, f \in last }
           more == { p \in two : p[1] # p[2] /\ p[1][2] = p[2][1] }
           paths == G!Paths(edges, c, hops)
<1>1. paths = one \cup (IF hops = 2 THEN more ELSE {})
  BY DEF G!Paths
<1>2. \A e : e \in links <=> e \in edges /\ Linked(edges, e)
  BY DEF Linked
<1>3. \A e : e \in last <=> e \in edges /\ Linked(edges, e) /\ e[2] = c
  BY <1>2
<1> HIDE DEF last, links
<1>4. \A p \in one : \E e \in edges : Linked(edges, e) /\ e[2] = c /\ p = <<e>>
  BY <1>3
<1>5. \A e \in edges : Linked(edges, e) /\ e[2] = c => <<e>> \in one
  BY <1>3
<1>6. \A p \in more : \E e, f \in edges : Chain(edges, c, e, f) /\ p = <<e, f>>
  <2> TAKE p \in more
  <2>1. p \in two /\ p[1] # p[2] /\ p[1][2] = p[2][1]
    OBVIOUS
  <2>2. PICK e \in links, f \in last : p = <<e, f>>
    BY <2>1
  <2>3. p[1] = e /\ p[2] = f
    BY <2>2
  <2>4. QED
    BY <1>2, <1>3, <2>1, <2>2, <2>3 DEF Chain
<1>7. \A e, f \in edges : Chain(edges, c, e, f) => <<e, f>> \in more
  <2> SUFFICES ASSUME NEW e \in edges, NEW f \in edges, Chain(edges, c, e, f)
               PROVE  <<e, f>> \in more
    OBVIOUS
  <2>1. e \in links /\ f \in last
    BY <1>2, <1>3 DEF Chain
  <2>2. <<e, f>> \in two
    BY <2>1
  <2>3. <<e, f>>[1] = e /\ <<e, f>>[2] = f
    OBVIOUS
  <2>4. e # f /\ e[2] = f[1]
    BY DEF Chain
  <2> HIDE DEF two
  <2>5. QED
    BY <2>2, <2>3, <2>4
<1> HIDE DEF one, more, paths
<1>8. QED
  BY <1>1, <1>4, <1>5, <1>6, <1>7 DEF paths

(* What is read of the graph with a concept, one edge or concept at a time.*)
ReadWith(edges, c, hops, e) ==
  \/ e \in G!Adjacent(edges, c)
  \/ e \in edges /\ Linked(edges, e) /\ e[2] = c
  \/ hops = 2 /\ e \in edges /\ \E f \in edges : Chain(edges, c, e, f)

RelatedTo(edges, c, hops, d) ==
  \/ d \in Known \ {c} /\ \E e \in G!Adjacent(edges, c) : G!Ends(e) = {c, d}
  \/ \E e \in G!Adjacent(edges, c) : e[1] = e[2] /\ d = e[1]
  \/ \E e \in edges : Linked(edges, e) /\ e[2] = c /\ d = e[1]
  \/ hops = 2 /\ \E e, f \in edges : Chain(edges, c, e, f) /\ d = e[1]

LEMMA RecordParts ==
  ASSUME NEW edges, NEW c, NEW hops \in 1 .. 2
  PROVE  LET r == G!Record(edges, c, hops) IN
         /\ r.concept = c
         /\ \A e : e \in r.rels <=> ReadWith(edges, c, hops, e)
         /\ \A d : d \in r.related <=> RelatedTo(edges, c, hops, d)
<1> DEFINE r == G!Record(edges, c, hops)
           near == G!Adjacent(edges, c)
           paths == G!Paths(edges, c, hops)
           parts(p) == { p[i] : i \in DOMAIN p }
           starts(p) == { p[i][1] : i \in DOMAIN p }
           ones == { d \in Known \ {c} : \E e \in near : G!Ends(e) = {c, d} }
           loops == { e[1] : e \in { f \in near : f[1] = f[2] } }
<1>1. /\ r.concept = c
      /\ r.rels = near \cup UNION { parts(p) : p \in paths }
      /\ r.related = ones \cup loops \cup UNION { starts(p) : p \in paths }
  BY DEF G!Record
<1>2. /\ \A p \in paths :
           \/ \E e \in edges : Linked(edges, e) /\ e[2] = c /\ p = <<e>>
           \/ hops = 2 /\ \E e, f \in edges : Chain(edges, c, e, f) /\ p = <<e, f>>
      /\ \A e \in edges : Linked(edges, e) /\ e[2] = c => <<e>> \in paths
      /\ hops = 2 => \A e, f \in edges : Chain(edges, c, e, f) => <<e, f>> \in paths
  BY PathFacts
<1>3. \A e : parts(<<e>>) = {e} /\ starts(<<e>>) = {e[1]}
  OBVIOUS
<1>4. \A e, f : parts(<<e, f>>) = {e, f} /\ starts(<<e, f>>) = {e[1], f[1]}
  OBVIOUS
<1>5. \A e, f \in edges : Chain(edges, c, e, f) => Linked(edges, e) /\ Linked(edges, f) /\ f[2] = c
  BY DEF Chain
<1> HIDE DEF parts, starts, paths, near, ones, loops, r
<1>6. \A e : e \in UNION { parts(p) : p \in paths } <=>
        \/ e \in edges /\ Linked(edges, e) /\ e[2] = c
        \/ hops = 2 /\ e \in edges /\ \E f \in edges : Chain(edges, c, e, f)
  <2> TAKE e
  <2>1. e \in UNION { parts(p) : p \in paths } <=> \E p \in paths : e \in parts(p)
    OBVIOUS
  <2>2. ASSUME NEW p \in paths, e \in parts(p)
        PROVE  \/ e \in edges /\ Linked(edges, e) /\ e[2] = c
               \/ hops = 2 /\ e \in edges /\ \E f \in edges : Chain(edges, c, e, f)
    <3>1. ASSUME NEW x \in edges, Linked(edges, x), x[2] = c, p = <<x>>
          PROVE  e = x
      BY <1>3, <2>2, <3>1
    <3>2. ASSUME NEW x \in edges, NEW f \in edges, Chain(edges, c, x, f), p = <<x, f>>
          PROVE  e = x \/ (e = f /\ Linked(edges, f) /\ f[2] = c)
      BY <1>4, <1>5, <2>2, <3>2
    <3>3. QED
      BY <1>2, <3>1, <3>2
  <2>3. ASSUME e \in edges, Linked(edges, e), e[2] = c
        PROVE  \E p \in paths : e \in parts(p)
    BY <1>2, <1>3, <2>3
  <2>4. ASSUME hops = 2, e \in edges, NEW f \in edges, Chain(edges, c, e, f)
        PROVE  \E p \in paths : e \in parts(p)
    <3>1. <<e, f>> \in paths
      BY <1>2, <2>4
    <3>2. e \in parts(<<e, f>>)
      BY <1>4
    <3>3. QED
      BY <3>1, <3>2
  <2>5. QED
    BY <2>1, <2>2, <2>3, <2>4
<1>7. \A d : d \in UNION { starts(p) : p \in paths } <=>
        \/ \E e \in edges : Linked(edges, e) /\ e[2] = c /\ d = e[1]
        \/ hops = 2 /\ \E e, f \in edges : Chain(edges, c, e, f) /\ d = e[1]
  <2> TAKE d
  <2>1. d \in UNION { starts(p) : p \in paths } <=> \E p \in paths : d \in starts(p)
    OBVIOUS
  <2>2. ASSUME NEW p \in paths, d \in starts(p)
        PROVE  \/ \E e \in edges : Linked(edges, e) /\ e[2] = c /\ d = e[1]
               \/ hops = 2 /\ \E e, f \in edges : Chain(edges, c, e, f) /\ d = e[1]
    <3>1. ASSUME NEW e \in edges, Linked(edges, e), e[2] = c, p = <<e>>
          PROVE  d = e[1]
      BY <1>3, <2>2, <3>1
    <3>2. ASSUME NEW e \in edges, NEW f \in edges, Chain(edges, c, e, f), p = <<e, f>>
          PROVE  d = e[1] \/ (d = f[1] /\ Linked(edges, f) /\ f[2] = c)
      BY <1>4, <1>5, <2>2, <3>2
    <3>3. QED
      BY <1>2, <3>1, <3>2
  <2>3. ASSUME NEW e \in edges, Linked(edges, e), e[2] = c, d = e[1]
        PROVE  \E p \in paths : d \in starts(p)
    BY <1>2, <1>3, <2>3
  <2>4. ASSUME hops = 2, NEW e \in edges, NEW f \in edges, Chain(edges, c, e, f), d = e[1]
        PROVE  \E p \in paths : d \in starts(p)
    <3>1. <<e, f>> \in paths
      BY <1>2, <2>4
    <3>2. d \in starts(<<e, f>>)
      BY <1>4, <2>4
    <3>3. QED
      BY <3>1, <3>2
  <2>5. QED
    BY <2>1, <2>2, <2>3, <2>4
<1>8. \A d : d \in ones <=> d \in Known \ {c} /\ \E e \in near : G!Ends(e) = {c, d}
  BY DEF ones
<1>9. \A d : d \in loops <=> \E e \in near : e[1] = e[2] /\ d = e[1]
  BY DEF loops
<1>10. \A d : d \in r.related <=> d \in ones \/ d \in loops \/ d \in UNION { starts(p) : p \in paths }
  BY <1>1
<1>11. \A e : e \in r.rels <=> e \in near \/ e \in UNION { parts(p) : p \in paths }
  BY <1>1
<1>12. QED
  BY <1>1, <1>6, <1>7, <1>8, <1>9, <1>10, <1>11 DEF r, near, ReadWith, RelatedTo

(* Both ends of an edge are shown with the concept, and an edge at the     *)
(* concept is in its record.                                               *)
LEMMA RecordFacts ==
  ASSUME NEW edges, NEW c \in Known, NEW hops \in 1 .. 2
  PROVE  LET r == G!Record(edges, c, hops) IN
         /\ r.concept = c /\ r.related \subseteq Known /\ r.rels \subseteq edges
         /\ \A e \in r.rels : G!Ends(e) \subseteq Known /\ G!Ends(e) \subseteq {c} \cup r.related
         /\ \A e \in edges : c \in G!Ends(e) /\ G!Ends(e) \subseteq Known => e \in r.rels
<1> DEFINE r == G!Record(edges, c, hops)
           near == G!Adjacent(edges, c)
<1>0. /\ r.concept = c
      /\ \A e : e \in r.rels <=> ReadWith(edges, c, hops, e)
      /\ \A d : d \in r.related <=> RelatedTo(edges, c, hops, d)
  BY RecordParts
<1> HIDE DEF r
<1>1. /\ r.concept = c
      /\ \A e : e \in r.rels <=>
           \/ e \in near
           \/ e \in edges /\ Linked(edges, e) /\ e[2] = c
           \/ hops = 2 /\ e \in edges /\ \E f \in edges : Chain(edges, c, e, f)
      /\ \A d : d \in r.related <=>
           \/ d \in Known \ {c} /\ \E e \in near : G!Ends(e) = {c, d}
           \/ \E e \in near : e[1] = e[2] /\ d = e[1]
           \/ \E e \in edges : Linked(edges, e) /\ e[2] = c /\ d = e[1]
           \/ hops = 2 /\ \E e, f \in edges : Chain(edges, c, e, f) /\ d = e[1]
  BY <1>0 DEF ReadWith, RelatedTo
<1>2. \A e : e \in near <=> e \in edges /\ c \in G!Ends(e) /\ G!Ends(e) \subseteq Known
  BY DEF G!Adjacent
<1>3. \A e : G!Ends(e) = {e[1], e[2]}
  BY DEF G!Ends
<1> HIDE DEF near
<1>4. r.related \subseteq Known /\ r.rels \subseteq edges
  BY <1>1, <1>2, <1>3 DEF Linked, Chain
<1>5. ASSUME NEW e \in r.rels
      PROVE  G!Ends(e) \subseteq Known /\ G!Ends(e) \subseteq {c} \cup r.related
  <2>1. CASE e \in near
    <3>1. CASE e[1] = c
      <4>1. e[2] = c \/ e[2] \in Known \ {c}
        BY <1>2, <1>3, <2>1
      <4>2. G!Ends(e) = {c, e[2]}
        BY <1>3, <3>1
      <4>3. QED
        BY <1>1, <1>2, <2>1, <4>1, <4>2
    <3>2. CASE e[1] # c
      <4>1. e[2] = c /\ e[1] \in Known \ {c}
        BY <1>2, <1>3, <2>1, <3>2
      <4>2. G!Ends(e) = {c, e[1]}
        BY <1>3, <4>1
      <4>3. QED
        BY <1>1, <1>2, <2>1, <4>1, <4>2
    <3>3. QED
      BY <3>1, <3>2
  <2>2. CASE e \in edges /\ Linked(edges, e) /\ e[2] = c
    <3>1. e[1] \in r.related
      BY <1>1, <2>2
    <3>2. QED
      BY <1>3, <2>2, <3>1 DEF Linked
  <2>3. ASSUME hops = 2, e \in edges, NEW f \in edges, Chain(edges, c, e, f)
        PROVE  G!Ends(e) \subseteq Known /\ G!Ends(e) \subseteq {c} \cup r.related
    <3>1. e[1] \in r.related
      BY <1>1, <2>3
    <3>2. e[2] = f[1] /\ Linked(edges, f) /\ f[2] = c /\ Linked(edges, e)
      BY <2>3 DEF Chain
    <3>3. f[1] \in r.related
      BY <1>1, <3>2
    <3>4. QED
      BY <1>3, <3>1, <3>2, <3>3 DEF Linked
  <2>4. QED
    BY <1>1, <2>1, <2>2, <2>3
<1>6. \A e \in edges : c \in G!Ends(e) /\ G!Ends(e) \subseteq Known => e \in r.rels
  BY <1>1, <1>2
<1>7. QED
  BY <1>1, <1>4, <1>5, <1>6 DEF r

LEMMA InboundFacts ==
  ASSUME NEW rels, NEW targets, NEW d
  PROVE  d \in G!Inbound(rels, targets) <=>
           \E e \in rels : e[3] = G!Prerequisite /\ e[1] # e[2] /\ e[2] \in targets /\ d = e[1]
BY DEF G!Inbound

(* The breadth-first distances are those of the graph.                     *)
LEMMA DistanceFacts ==
  ASSUME NEW Any, NEW Kinds, NEW edges \in SUBSET (Any \X Any \X Kinds), NEW c \in Known,
         NEW hops \in 1 .. 2
  PROVE  LET r == G!Record(edges, c, hops) IN
         /\ G!At(r, hops, 1) = G!Distance1(edges, c)
         /\ hops = 2 => G!At(r, hops, 2) = G!Distance2(edges, c)
         /\ hops = 1 => G!At(r, hops, 2) = {}
<1> DEFINE r == G!Record(edges, c, hops)
           D1 == G!Distance1(edges, c)
           D2 == G!Distance2(edges, c)
           one == G!Inbound(r.rels, {r.concept}) \ {r.concept}
           two == IF hops = 2 THEN G!Inbound(r.rels, one) \ ({r.concept} \cup one) ELSE {}
<1>1. /\ r.concept = c /\ r.related \subseteq Known /\ r.rels \subseteq edges
      /\ \A e \in r.rels : G!Ends(e) \subseteq Known
      /\ \A e \in edges : c \in G!Ends(e) /\ G!Ends(e) \subseteq Known => e \in r.rels
  BY RecordFacts
<1>2. /\ \A e \in edges : hops = 2 /\ (\E f \in edges : Chain(edges, c, e, f)) => e \in r.rels
      /\ \A e \in edges : Linked(edges, e) /\ e[2] = c => e[1] \in r.related
      /\ hops = 2 => \A e, f \in edges : Chain(edges, c, e, f) => e[1] \in r.related
  BY RecordParts DEF ReadWith, RelatedTo
<1>3. G!Hops(r, hops) = [ d \in one \cup two |-> IF d \in one THEN 1 ELSE 2 ]
  BY DEF G!Hops
<1>4. \A n : G!At(r, hops, n) = { d \in r.related \cap DOMAIN G!Hops(r, hops) : G!Hops(r, hops)[d] = n }
  BY DEF G!At
<1>5. \A e : G!Ends(e) = {e[1], e[2]}
  BY DEF G!Ends
<1>6. \A e \in edges : e = <<e[1], e[2], e[3]>>
  OBVIOUS
<1>7. \A m, d : G!Leads(edges, m, d) <=>
        <<d, m, G!Prerequisite>> \in edges /\ d \in Known /\ m \in Known /\ m # d
  BY DEF G!Leads
<1>8. \A d : d \in D1 <=> G!Leads(edges, c, d)
  BY <1>7 DEF G!Distance1
<1>9. \A d : d \in D2 <=> /\ d \in Known /\ d \notin D1 /\ d # c
                          /\ \E m \in D1 : G!Leads(edges, m, d)
  BY DEF G!Distance2
<1> HIDE DEF r, D1, D2
<1>10. one = D1
  <2>1. ASSUME NEW d \in one PROVE d \in D1
    <3>1. PICK e \in r.rels : e[3] = G!Prerequisite /\ e[1] # e[2] /\ e[2] = c /\ d = e[1]
      BY <1>1, InboundFacts
    <3>2. e = <<d, c, G!Prerequisite>> /\ e \in edges /\ d \in Known
      BY <1>1, <1>5, <1>6, <3>1
    <3>3. QED
      BY <1>7, <1>8, <3>1, <3>2
  <2>2. ASSUME NEW d \in D1 PROVE d \in one
    <3> DEFINE e == <<d, c, G!Prerequisite>>
    <3>1. e \in edges /\ d \in Known /\ d # c /\ e[1] = d /\ e[2] = c /\ e[3] = G!Prerequisite
      BY <1>7, <1>8
    <3> HIDE DEF e
    <3>2. e \in r.rels
      BY <1>1, <1>5, <3>1
    <3>3. d \in G!Inbound(r.rels, {r.concept})
      BY <1>1, <3>1, <3>2, InboundFacts
    <3>4. QED
      BY <1>1, <3>1, <3>3
  <2> HIDE DEF one
  <2>3. QED
    BY <2>1, <2>2
<1> HIDE DEF one
<1>11. hops = 2 => two = D2
  <2> SUFFICES ASSUME hops = 2 PROVE two = D2
    OBVIOUS
  <2>1. two = G!Inbound(r.rels, D1) \ ({c} \cup D1)
    BY <1>1, <1>10
  <2>2. ASSUME NEW d \in two PROVE d \in D2
    <3>1. PICK e \in r.rels : e[3] = G!Prerequisite /\ e[1] # e[2] /\ e[2] \in D1 /\ d = e[1]
      BY <2>1, InboundFacts
    <3>2. e = <<d, e[2], G!Prerequisite>> /\ e \in edges /\ d \in Known /\ e[2] \in Known
      BY <1>1, <1>5, <1>6, <3>1
    <3>3. G!Leads(edges, e[2], d)
      BY <1>7, <3>1, <3>2
    <3>4. QED
      BY <1>9, <2>1, <3>1, <3>2, <3>3
  <2>3. ASSUME NEW d \in D2 PROVE d \in two
    <3>1. PICK m \in D1 : G!Leads(edges, m, d)
      BY <1>9
    <3> DEFINE e == <<d, m, G!Prerequisite>>
               f == <<m, c, G!Prerequisite>>
    <3>2. /\ e \in edges /\ d \in Known /\ m \in Known /\ m # d
          /\ e[1] = d /\ e[2] = m /\ e[3] = G!Prerequisite
      BY <1>7, <3>1
    <3>3. f \in edges /\ m # c /\ f[1] = m /\ f[2] = c /\ f[3] = G!Prerequisite
      BY <1>7, <1>8
    <3> HIDE DEF e, f
    <3>4. Chain(edges, c, e, f)
      BY <1>5, <3>2, <3>3 DEF Chain, Linked
    <3>5. d \in G!Inbound(r.rels, D1)
      BY <1>2, <3>2, <3>3, <3>4, InboundFacts
    <3>6. QED
      BY <1>9, <2>1, <3>5
  <2> HIDE DEF two
  <2>4. QED
    BY <2>2, <2>3
<1>12. D1 \subseteq r.related
  <2> SUFFICES ASSUME NEW d \in D1 PROVE d \in r.related
    OBVIOUS
  <2> DEFINE e == <<d, c, G!Prerequisite>>
  <2>1. e \in edges /\ d \in Known /\ e[1] = d /\ e[2] = c /\ e[3] = G!Prerequisite
    BY <1>7, <1>8
  <2> HIDE DEF e
  <2>2. Linked(edges, e)
    BY <1>5, <2>1 DEF Linked
  <2>3. QED
    BY <1>2, <2>1, <2>2
<1>13. hops = 2 => D2 \subseteq r.related
  <2> SUFFICES ASSUME hops = 2, NEW d \in D2 PROVE d \in r.related
    OBVIOUS
  <2>1. PICK m \in D1 : G!Leads(edges, m, d)
    BY <1>9
  <2> DEFINE e == <<d, m, G!Prerequisite>>
             f == <<m, c, G!Prerequisite>>
  <2>2. /\ e \in edges /\ d \in Known /\ m \in Known /\ m # d
        /\ e[1] = d /\ e[2] = m /\ e[3] = G!Prerequisite
    BY <1>7, <2>1
  <2>3. f \in edges /\ f[1] = m /\ f[2] = c /\ f[3] = G!Prerequisite
    BY <1>7, <1>8
  <2> HIDE DEF e, f
  <2>4. Chain(edges, c, e, f)
    BY <1>5, <2>2, <2>3 DEF Chain, Linked
  <2>5. QED
    BY <1>2, <2>2, <2>3, <2>4
<1>14. D1 \cap two = {} /\ (hops = 1 => two = {})
  BY <1>9, <1>10, <1>11
<1> HIDE DEF two
<1>15. /\ DOMAIN G!Hops(r, hops) = D1 \cup two
       /\ \A d \in D1 : G!Hops(r, hops)[d] = 1
       /\ \A d \in two : G!Hops(r, hops)[d] = 2
  BY <1>3, <1>10, <1>14
<1>16. G!At(r, hops, 1) = D1
  BY <1>4, <1>12, <1>15
<1>17. hops = 2 => G!At(r, hops, 2) = D2
  BY <1>4, <1>11, <1>13, <1>15
<1>18. hops = 1 => G!At(r, hops, 2) = {}
  BY <1>4, <1>14, <1>15
<1>19. QED
  BY <1>16, <1>17, <1>18 DEF r, D1, D2

(* How many of S come before x: a finite set of numbers has one member at  *)
(* each rank below its size.                                               *)
Place(S, x) == Cardinality({ y \in S : y < x })

LEMMA RankFacts ==
  ASSUME NEW S \in SUBSET Nat, IsFiniteSet(S)
  PROVE  /\ Cardinality(S) \in Nat
         /\ \A x \in S : Place(S, x) \in 0 .. (Cardinality(S) - 1)
         /\ \A x, y \in S : Place(S, x) = Place(S, y) => x = y
<1> DEFINE Before(x) == { y \in S : y < x }
<1>1. \A x : IsFiniteSet(Before(x)) /\ Cardinality(Before(x)) \in Nat
  <2>1. \A x : Before(x) \in SUBSET S
    OBVIOUS
  <2> HIDE DEF Before
  <2>2. QED
    BY <2>1, FS_Subset, FS_CardinalityType
<1>2. \A T \in SUBSET S, x \in S : Before(x) \subseteq T /\ x \in T => Cardinality(Before(x)) < Cardinality(T)
  <2> SUFFICES ASSUME NEW T \in SUBSET S, NEW x \in S, Before(x) \subseteq T, x \in T
               PROVE  Cardinality(Before(x)) < Cardinality(T)
    OBVIOUS
  <2>1. x \notin Before(x)
    OBVIOUS
  <2>2. IsFiniteSet(T) /\ Cardinality(T) \in Nat
    BY FS_Subset, FS_CardinalityType
  <2> HIDE DEF Before
  <2>3. QED
    BY <1>1, <2>1, <2>2, FS_Subset
<1>3. Cardinality(S) \in Nat
  BY FS_CardinalityType
<1>4. \A x \in S : Cardinality(Before(x)) < Cardinality(S)
  BY <1>2
<1>5. ASSUME NEW x \in S, NEW y \in S, x < y
      PROVE  Cardinality(Before(x)) < Cardinality(Before(y))
  <2>1. \A z \in S : z < x => z < y
    BY <1>5
  <2>2. Before(y) \in SUBSET S /\ Before(x) \subseteq Before(y) /\ x \in Before(y)
    BY <1>5, <2>1
  <2> HIDE DEF Before
  <2>3. QED
    BY <1>2, <2>2
<1>6. \A x : Place(S, x) = Cardinality(Before(x))
  BY DEF Place
<1> HIDE DEF Before
<1>7. \A x, y \in S : x # y => x < y \/ y < x
  OBVIOUS
<1>8. \A x, y \in S : x # y => Place(S, x) # Place(S, y)
  BY <1>1, <1>5, <1>6, <1>7
<1>9. QED
  BY <1>1, <1>3, <1>4, <1>6, <1>8

LEMMA CountBelow ==
  ASSUME NEW n \in Nat
  PROVE  IsFiniteSet(0 .. (n - 1)) /\ Cardinality(0 .. (n - 1)) = n
<1> DEFINE last == n - 1
<1>1. last \in Int /\ (0 > last => n = 0) /\ (~(0 > last) => last - 0 + 1 = n)
  OBVIOUS
<1> HIDE DEF last
<1>2. IsFiniteSet(0 .. last) /\ Cardinality(0 .. last) = IF 0 > last THEN 0 ELSE last - 0 + 1
  BY <1>1, FS_Interval
<1>3. QED
  BY <1>1, <1>2 DEF last

(* The first names in the order are as many as the limit and the names     *)
(* allow.                                                                  *)
LEMMA FirstNamesFacts ==
  ASSUME NameLimit \in Nat, NEW S \in SUBSET Nat, IsFiniteSet(S)
  PROVE  /\ G!FirstNames(S) \subseteq S
         /\ Cardinality(G!FirstNames(S)) = G!Least(NameLimit, Cardinality(S))
<1> DEFINE n == G!Least(NameLimit, Cardinality(S))
           places == 0 .. (Cardinality(S) - 1)
           first == 0 .. (n - 1)
           firsts == G!FirstNames(S)
           rank == [ x \in S |-> Place(S, x) ]
           order == [ x \in firsts |-> Place(S, x) ]
<1>1. /\ Cardinality(S) \in Nat
      /\ \A x \in S : Place(S, x) \in places
      /\ \A x, y \in S : Place(S, x) = Place(S, y) => x = y
  BY RankFacts
<1>2. n \in Nat /\ n <= Cardinality(S) /\ n <= NameLimit /\ (n = Cardinality(S) \/ n = NameLimit)
  BY <1>1 DEF G!Least
<1>3. firsts = { x \in S : Place(S, x) < NameLimit }
  BY SameInGraphs DEF G!FirstNames, Place
<1>4. rank \in Surjection(S, places)
  <2>1. rank \in Injection(S, places)
    BY <1>1 DEF Injection, IsInjective
  <2>2. IsFiniteSet(places) /\ Cardinality(places) = Cardinality(S)
    BY <1>1, CountBelow
  <2> HIDE DEF rank, places
  <2>3. QED
    BY <2>1, <2>2, FS_Injection
<1>5. \A i \in places : \E x \in S : Place(S, x) = i
  BY <1>4 DEF Surjection
<1> HIDE DEF n, firsts, rank
<1>6. \A x \in firsts : x \in S /\ Place(S, x) \in first
  BY <1>1, <1>2, <1>3
<1>7. \A i \in first : \E x \in firsts : Place(S, x) = i
  <2> TAKE i \in first
  <2>1. i \in places /\ i < NameLimit
    BY <1>1, <1>2
  <2>2. QED
    BY <1>3, <1>5, <2>1
<1>8. order \in Injection(firsts, first)
  BY <1>1, <1>6 DEF Injection, IsInjective
<1>9. order \in Surjection(firsts, first)
  BY <1>6, <1>7 DEF Surjection
<1>10. IsFiniteSet(first) /\ Cardinality(first) = n
  BY <1>2, CountBelow
<1> HIDE DEF order, first
<1>11. Cardinality(firsts) = n
  BY <1>8, <1>9, <1>10, FS_Injection
<1>12. QED
  BY <1>3, <1>11 DEF n, firsts

(* A search is extended by the names of what leads to the concepts that    *)
(* were asked about (_build_expanded_query), in any graph.                 *)
THEOREM SearchesAreExtended ==
  ASSUME G!GraphReadsAssumption, NEW Any, NEW Kinds, NEW edges \in SUBSET (Any \X Any \X Kinds),
         NEW asked \in Seq(Known), NEW hops \in 1 .. 2
  PROVE  G!SearchExtended(edges, asked, hops)
<1> DEFINE records == G!Records(edges, asked, hops)
           D1(i) == G!Distance1(edges, asked[i])
           D2(i) == G!Distance2(edges, asked[i])
           Names(S) == { Named[d] : d \in S }
           direct == UNION { Names(D1(i)) : i \in DOMAIN asked }
           second == UNION { Names(D2(i)) : i \in DOMAIN asked }
           further == second \ direct
           names == G!Expansion(records, hops)
<1>a. direct = G!DirectNames(edges, asked) /\ further = G!FurtherNames(edges, asked)
  BY DEF G!DirectNames, G!FurtherNames
<1>1. DOMAIN records = DOMAIN asked /\ \A i \in DOMAIN asked : records[i] = G!Record(edges, asked[i], hops)
  BY DEF G!Records
<1>2. \A i \in DOMAIN asked : asked[i] \in Known
  OBVIOUS
<1> HIDE DEF records
<1>3. \A i \in DOMAIN asked :
        /\ G!At(records[i], hops, 1) = D1(i)
        /\ hops = 2 => G!At(records[i], hops, 2) = D2(i)
        /\ hops = 1 => G!At(records[i], hops, 2) = {}
  <2>1. \A c \in Known : LET r == G!Record(edges, c, hops) IN
          /\ G!At(r, hops, 1) = G!Distance1(edges, c)
          /\ hops = 2 => G!At(r, hops, 2) = G!Distance2(edges, c)
          /\ hops = 1 => G!At(r, hops, 2) = {}
    BY DistanceFacts
  <2>2. QED
    BY <1>1, <1>2, <2>1
<1>4. \A m : G!NamesAt(records, hops, m) = UNION { Names(G!At(records[i], hops, m)) : i \in DOMAIN asked }
  BY <1>1 DEF G!NamesAt
<1>5. \A i : D1(i) \subseteq Known /\ D2(i) \subseteq Known
  BY DEF G!Distance1, G!Distance2
<1> HIDE DEF D1, D2
<1>6. G!NamesAt(records, hops, 1) = direct
  BY <1>3, <1>4
<1>7. hops = 2 => G!NamesAt(records, hops, 2) = second
  BY <1>3, <1>4
<1>8. hops = 1 => G!NamesAt(records, hops, 2) = {}
  BY <1>3, <1>4
<1>9. /\ names.direct = G!FirstNames(direct)
      /\ names.background = G!FirstNames(G!NamesAt(records, hops, 2) \ direct)
  BY <1>6 DEF G!Expansion, G!OneHopNames, G!TwoHopNames
<1>10. \A T : T \subseteq Names(Known) => T \in SUBSET Nat /\ IsFiniteSet(T)
  <2>1. IsFiniteSet(Known) /\ Named \in [Known -> Nat]
    BY SameInGraphs DEF G!GraphReadsAssumption
  <2>2. Named \in Surjection(Known, Names(Known)) /\ Names(Known) \subseteq Nat
    BY <2>1 DEF Surjection
  <2> HIDE DEF Names
  <2>3. IsFiniteSet(Names(Known))
    BY <2>1, <2>2, FS_Surjection
  <2>4. QED
    BY <2>2, <2>3, FS_Subset
<1>11. \A i : Names(D1(i)) \subseteq Names(Known) /\ Names(D2(i)) \subseteq Names(Known)
  BY <1>5
<1> HIDE DEF names, Names
<1>12. direct \subseteq Names(Known) /\ second \subseteq Names(Known) /\ further \subseteq Names(Known)
  BY <1>11
<1> HIDE DEF direct, second
<1>13. NameLimit \in Nat
  BY DEF G!GraphReadsAssumption
<1>14. /\ names.direct \subseteq direct
       /\ Cardinality(names.direct) = G!Least(NameLimit, Cardinality(direct))
  BY <1>9, <1>10, <1>12, <1>13, FirstNamesFacts
<1>15. hops = 2 => names.background = G!FirstNames(further)
  BY <1>7, <1>9
<1>16. hops = 2 => /\ names.background \subseteq further
                   /\ Cardinality(names.background) = G!Least(NameLimit, Cardinality(further))
  <2> HIDE DEF further
  <2>1. QED
    BY <1>10, <1>12, <1>13, <1>15, FirstNamesFacts
<1>17. hops = 1 => names.background = {}
  <2>1. \A T : G!FirstNames(T) \subseteq T
    BY DEF G!FirstNames
  <2>2. QED
    BY <1>8, <1>9, <2>1
<1>18. hops = 1 \/ hops = 2
  OBVIOUS
<1> HIDE DEF further
<1>19. /\ names.direct \subseteq direct
       /\ G!Cardinality(names.direct) = G!Least(NameLimit, G!Cardinality(direct))
       /\ names.background \subseteq further
       /\ hops = 2 => G!Cardinality(names.background) = G!Least(NameLimit, G!Cardinality(further))
       /\ hops = 1 => names.background = {}
  <2>1. /\ G!Cardinality(names.direct) = Cardinality(names.direct)
        /\ G!Cardinality(direct) = Cardinality(direct)
        /\ G!Cardinality(names.background) = Cardinality(names.background)
        /\ G!Cardinality(further) = Cardinality(further)
    BY SameInGraphs
  <2>2. names.background \subseteq further
    BY <1>16, <1>17, <1>18
  <2>3. QED
    BY <1>14, <1>16, <1>17, <2>1, <2>2
<1>20. QED
  BY <1>a, <1>19 DEF G!SearchExtended, records, names

LEMMA LeastMember ==
  ASSUME NEW S \in SUBSET Nat, S # {}
  PROVE  \E x \in S : \A y \in S : x <= y
<1> DEFINE less == { ss \in Nat \X Nat : ss[1] < ss[2] }
<1>1. IsWellFoundedOn(less, Nat)
  BY NatLessThanWellFounded DEF OpToRel
<1>2. \A x, y \in Nat : x < y => <<x, y>> \in less
  OBVIOUS
<1> HIDE DEF less
<1>3. PICK x \in S : \A y \in S : <<y, x>> \notin less
  BY <1>1, WFMin
<1>4. ASSUME NEW y \in S PROVE x <= y
  <2>1. x \in Nat /\ y \in Nat /\ ~(y < x)
    BY <1>2, <1>3
  <2>2. QED
    BY <2>1
<1>5. QED
  BY <1>4

(* The groups of concepts that are kept: what was asked about comes before *)
(* all that is related to it.                                              *)
LEMMA GroupFacts ==
  ASSUME NEW n \in Nat, NEW f \in [1 .. n -> SUBSET Known], NEW g \in [1 .. n -> SUBSET Known]
  PROVE  /\ DOMAIN (f \o g) = 1 .. (n + n)
         /\ \A i \in 1 .. n : (f \o g)[i] = f[i] /\ (f \o g)[n + i] = g[i]
         /\ \A j \in 1 .. (n + n) : j \in 1 .. n \/ \E i \in 1 .. n : j = n + i
<1>1. f \in Seq(SUBSET Known) /\ g \in Seq(SUBSET Known) /\ Len(f) = n /\ Len(g) = n
  OBVIOUS
<1>2. /\ Len(f \o g) = n + n /\ f \o g \in Seq(SUBSET Known)
      /\ \A i \in 1 .. (n + n) : (f \o g)[i] = IF i <= n THEN f[i] ELSE g[i - n]
  BY <1>1
<1>3. \A i \in 1 .. n : i \in 1 .. (n + n) /\ i <= n /\ n + i \in 1 .. (n + n) /\ ~(n + i <= n) /\ (n + i) - n = i
  OBVIOUS
<1>4. \A j \in 1 .. (n + n) : j \in 1 .. n \/ (j - n \in 1 .. n /\ j = n + (j - n))
  OBVIOUS
<1>5. QED
  BY <1>2, <1>3, <1>4

(* When something only related to what was asked about is kept, all that   *)
(* was asked about is.                                                     *)
LEMMA AskedComeFirst ==
  ASSUME NEW n \in Nat, NEW f \in [1 .. n -> SUBSET Known], NEW g \in [1 .. n -> SUBSET Known],
         NEW S, NEW limit, G!FirstOf(S, f \o g, limit)
  PROVE  \A d \in S :
           \/ \E i \in 1 .. n : d \in f[i]
           \/ (\E i \in 1 .. n : d \in g[i]) /\ (\A i \in 1 .. n : f[i] \subseteq S)
<1> DEFINE groups == f \o g
<1>1. /\ DOMAIN groups = 1 .. (n + n)
      /\ \A i \in 1 .. n : groups[i] = f[i] /\ groups[n + i] = g[i]
      /\ \A j \in 1 .. (n + n) : j \in 1 .. n \/ \E i \in 1 .. n : j = n + i
  BY GroupFacts
<1> HIDE DEF groups
<1>2. /\ S \subseteq UNION { groups[i] : i \in DOMAIN groups }
      /\ \A j \in DOMAIN groups : \A i \in 1 .. (j - 1) :
           S \cap (groups[j] \ UNION { groups[k] : k \in 1 .. (j - 1) }) # {} => groups[i] \subseteq S
  BY DEF G!FirstOf, groups
<1> SUFFICES ASSUME NEW d \in S, \A i \in 1 .. n : d \notin f[i]
             PROVE  (\E i \in 1 .. n : d \in g[i]) /\ (\A i \in 1 .. n : f[i] \subseteq S)
  OBVIOUS
<1> DEFINE at == { j \in 1 .. (n + n) : d \in groups[j] }
<1>3. at \in SUBSET Nat /\ at # {}
  BY <1>1, <1>2
<1>4. PICK j \in at : \A k \in at : j <= k
  <2> HIDE DEF at
  <2>1. QED
    BY <1>3, LeastMember
<1>5. j \in 1 .. (n + n) /\ d \in groups[j] /\ \A k \in 1 .. (j - 1) : d \notin groups[k]
  BY <1>4
<1>6. PICK m \in 1 .. n : j = n + m
  BY <1>1, <1>5
<1>7. \A i \in 1 .. n : i \in 1 .. (j - 1)
  BY <1>6
<1>8. d \in S \cap (groups[j] \ UNION { groups[k] : k \in 1 .. (j - 1) })
  BY <1>5
<1>9. \A i \in 1 .. n : groups[i] \subseteq S
  BY <1>1, <1>2, <1>5, <1>7, <1>8
<1>10. QED
  BY <1>1, <1>5, <1>6, <1>9

(* What is kept of a graph to show it is bounded and whole                 *)
(* (bound_graph_context), whatever is asked and however it is cut.         *)
THEOREM DisplaysAreBounded ==
  ASSUME G!GraphReadsAssumption, NEW edges, IsFiniteSet(edges),
         NEW asked \in Seq(Known), NEW hops \in 1 .. 2
  PROVE  G!DisplayBounded(edges, asked, hops)
<1> DEFINE n == Len(asked)
           records == G!Records(edges, asked, hops)
           concepts == [ i \in 1 .. n |-> {asked[i]} ]
           related == [ i \in 1 .. n |-> records[i].related ]
<1>1. /\ n \in Nat /\ DOMAIN asked = 1 .. n /\ DOMAIN records = 1 .. n
      /\ \A i \in 1 .. n : asked[i] \in Known /\ records[i] = G!Record(edges, asked[i], hops)
  BY DEF G!Records
<1> HIDE DEF n, records
<1>2. \A i \in 1 .. n :
        /\ records[i].concept = asked[i] /\ records[i].related \subseteq Known /\ records[i].rels \subseteq edges
        /\ \A e \in records[i].rels : G!Ends(e) \subseteq Known /\ G!Ends(e) \subseteq {asked[i]} \cup records[i].related
        /\ \A e \in edges : asked[i] \in G!Ends(e) /\ G!Ends(e) \subseteq Known => e \in records[i].rels
  BY <1>1, RecordFacts
<1>3. /\ concepts \in [1 .. n -> SUBSET Known] /\ related \in [1 .. n -> SUBSET Known]
      /\ G!NodeGroups(records) = concepts \o related
  BY <1>1, <1>2 DEF G!NodeGroups
<1>4. /\ \A i \in 1 .. n : concepts[i] = {asked[i]}
      /\ \A i \in 1 .. n : related[i] = records[i].related
  OBVIOUS
<1> HIDE DEF concepts, related
<1>5. IsFiniteSet(Known) /\ MaxNodes \in Nat /\ MaxEdges \in Nat
  BY SameInGraphs DEF G!GraphReadsAssumption
<1> SUFFICES ASSUME NEW nodes \in SUBSET Known, G!FirstOf(nodes, G!NodeGroups(records), MaxNodes),
                    NEW kept \in SUBSET edges, G!FirstOf(kept, G!EdgeGroups(records, nodes), MaxEdges)
             PROVE  LET display == G!Shown(records, nodes, kept)
                        here(i) == {display[i].concept} \cup display[i].related
                    IN  /\ G!Cardinality(nodes) <= MaxNodes /\ G!Cardinality(kept) <= MaxEdges
                        /\ nodes = UNION { here(i) : i \in DOMAIN display }
                        /\ kept = UNION { display[i].rels : i \in DOMAIN display }
                        /\ \A i \in DOMAIN display : \A e \in display[i].rels : e \in edges /\ G!Ends(e) \subseteq here(i)
  BY DEF G!DisplayBounded, records
<1>6. \A d \in nodes : \/ \E i \in 1 .. n : d = asked[i]
                       \/ /\ \E i \in 1 .. n : d \in records[i].related
                          /\ \A i \in 1 .. n : asked[i] \in nodes
  <2>1. \A d \in nodes :
          \/ \E i \in 1 .. n : d \in concepts[i]
          \/ (\E i \in 1 .. n : d \in related[i]) /\ (\A i \in 1 .. n : concepts[i] \subseteq nodes)
    <3>1. concepts \in [1 .. n -> SUBSET Known]
      BY <1>3
    <3>2. related \in [1 .. n -> SUBSET Known]
      BY <1>3
    <3>3. G!FirstOf(nodes, concepts \o related, MaxNodes)
      BY <1>3
    <3>4. n \in Nat
      BY <1>1
    <3>5. QED
      BY <3>1, <3>2, <3>3, <3>4, AskedComeFirst
  <2>2. QED
    BY <1>4, <2>1
<1>7. \A e \in kept : \E i \in 1 .. n : e \in records[i].rels /\ G!Ends(e) \subseteq nodes
  <2>1. kept \subseteq UNION { { e \in records[i].rels : G!Ends(e) \subseteq nodes } : i \in 1 .. n }
    BY <1>1 DEF G!FirstOf, G!EdgeGroups
  <2>2. QED
    BY <2>1
<1>8. Cardinality(nodes) <= MaxNodes /\ Cardinality(kept) <= MaxEdges
  <2>1. \A S, all, limit : IsFiniteSet(all) /\ limit \in Nat /\ Cardinality(S) = G!Least(limit, Cardinality(all))
          => Cardinality(S) <= limit
    <3> SUFFICES ASSUME NEW S, NEW all, NEW limit \in Nat, IsFiniteSet(all),
                        Cardinality(S) = G!Least(limit, Cardinality(all))
                 PROVE  Cardinality(S) <= limit
      OBVIOUS
    <3>1. Cardinality(all) \in Nat
      BY FS_CardinalityType
    <3>2. QED
      BY <3>1 DEF G!Least
  <2> DEFINE allNodes == UNION { G!NodeGroups(records)[i] : i \in DOMAIN G!NodeGroups(records) }
             allEdges == UNION { G!EdgeGroups(records, nodes)[i] : i \in DOMAIN G!EdgeGroups(records, nodes) }
  <2>2. /\ Cardinality(nodes) = G!Least(MaxNodes, Cardinality(allNodes))
        /\ Cardinality(kept) = G!Least(MaxEdges, Cardinality(allEdges))
    <3>1. /\ G!Cardinality(nodes) = G!Least(MaxNodes, G!Cardinality(allNodes))
          /\ G!Cardinality(kept) = G!Least(MaxEdges, G!Cardinality(allEdges))
      BY DEF G!FirstOf
    <3> HIDE DEF allNodes, allEdges
    <3>2. QED
      BY <3>1, SameInGraphs
  <2>3. allNodes \subseteq Known
    <3> DEFINE groups == concepts \o related
    <3>1. /\ DOMAIN groups = 1 .. (n + n)
          /\ \A i \in 1 .. n : groups[i] = concepts[i] /\ groups[n + i] = related[i]
          /\ \A j \in 1 .. (n + n) : j \in 1 .. n \/ \E i \in 1 .. n : j = n + i
      <4>1. concepts \in [1 .. n -> SUBSET Known]
        BY <1>3
      <4>2. related \in [1 .. n -> SUBSET Known]
        BY <1>3
      <4>3. n \in Nat
        BY <1>1
      <4>4. QED
        BY <4>1, <4>2, <4>3, GroupFacts
    <3> HIDE DEF groups
    <3>2. ASSUME NEW j \in DOMAIN groups PROVE groups[j] \subseteq Known
      <4>1. \A i \in 1 .. n : concepts[i] \in SUBSET Known /\ related[i] \in SUBSET Known
        BY <1>3
      <4>2. \A i \in 1 .. n : groups[i] \in SUBSET Known /\ groups[n + i] \in SUBSET Known
        BY <3>1, <4>1
      <4>3. QED
        BY <3>1, <4>2
    <3>3. allNodes = UNION { groups[j] : j \in DOMAIN groups }
      BY <1>3 DEF groups
    <3> HIDE DEF allNodes
    <3>4. QED
      BY <3>2, <3>3
  <2>4. allEdges \subseteq edges
    BY <1>1, <1>2 DEF G!EdgeGroups
  <2> HIDE DEF allNodes, allEdges
  <2>5. IsFiniteSet(allNodes) /\ IsFiniteSet(allEdges)
    BY <1>5, <2>3, <2>4, FS_Subset
  <2>6. QED
    BY <1>5, <2>1, <2>2, <2>5
<1> DEFINE display == G!Shown(records, nodes, kept)
           whole == { i \in 1 .. n : asked[i] \in nodes }
<1>9. /\ DOMAIN display = whole
      /\ \A i \in whole : /\ display[i].concept = asked[i]
                          /\ display[i].related = records[i].related \cap nodes
                          /\ display[i].rels = records[i].rels \cap kept
  BY <1>1, <1>2 DEF G!Shown
<1>10. \A i : i \in whole <=> i \in 1 .. n /\ asked[i] \in nodes
  OBVIOUS
<1> HIDE DEF display, whole
<1>11. \A d \in nodes : \E i \in whole : d = asked[i] \/ d \in records[i].related
  BY <1>6, <1>10
<1>12. \A i \in whole : {display[i].concept} \cup display[i].related \subseteq nodes
  BY <1>9, <1>10
<1>13. nodes = UNION { {display[i].concept} \cup display[i].related : i \in whole }
  <2>1. \A d \in nodes : \E i \in whole : d \in {display[i].concept} \cup display[i].related
    BY <1>9, <1>11
  <2>2. QED
    BY <1>12, <2>1
<1>14. \A e \in kept : \E i \in whole : e \in records[i].rels
  <2> TAKE e \in kept
  <2>1. PICK i \in 1 .. n : e \in records[i].rels /\ G!Ends(e) \subseteq nodes
    BY <1>7
  <2>2. CASE i \in whole
    BY <2>1, <2>2
  <2>3. CASE i \notin whole
    <3>1. e[1] \in G!Ends(e) /\ e[1] \in nodes
      BY <2>1 DEF G!Ends
    <3>2. PICK k \in 1 .. n : e[1] = asked[k]
      BY <1>6, <1>10, <2>3, <3>1
    <3>3. k \in whole
      BY <1>10, <3>1, <3>2
    <3>4. e \in records[k].rels
      BY <1>2, <2>1, <3>1, <3>2
    <3>5. QED
      BY <3>3, <3>4
  <2>4. QED
    BY <2>2, <2>3
<1>15. kept = UNION { display[i].rels : i \in whole }
  BY <1>9, <1>14
<1>16. \A i \in whole : \A e \in display[i].rels :
         e \in edges /\ G!Ends(e) \subseteq {display[i].concept} \cup display[i].related
  BY <1>2, <1>7, <1>9, <1>10
<1>17. G!Cardinality(nodes) <= MaxNodes /\ G!Cardinality(kept) <= MaxEdges
  BY <1>8, SameInGraphs
<1>18. QED
  BY <1>9, <1>13, <1>15, <1>16, <1>17 DEF display
=============================================================================
