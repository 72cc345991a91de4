------------------------------- MODULE MCStores -------------------------------
(***************************************************************************)
(* What the stores hold and what readers are shown of it.  Each behaviour  *)
(* is of one "part", and the variables of the others stay as they are at   *)
(* first: the projection of an upload with its fence (GraphProjection), a  *)
(* question beside two documents (Query), the dashboard of two courses     *)
(* (Dashboard) and the pages of its upload list (UploadPages).             *)
(***************************************************************************)
EXTENDS GraphProjection, TLC

CONSTANTS x, y, None

VARIABLES part,
          rows, points, nodes, question, wasReady,
          server, selected, pending, list, jobs, answer, loading, refreshing, flight,
          status, changes, cursor, trail, page, shown, next, reading, fetching, acks, walk

\* Two digests, contents or courses; each part is the same with the two exchanged.
Two == {x, y}
Symmetry == Permutations(Two)

askVars == <<rows, points, nodes, question, wasReady>>
Asking == INSTANCE Query WITH
  graph <- nodes, Docs <- {1, 2}, Contents <- Two, MaxAttempts <- 2, CandidateLimit <- 2

browserVars == <<server, selected, pending, list, jobs, answer, loading, refreshing, flight>>
Browser == INSTANCE Dashboard WITH
  Courses <- Two, MaxChanges <- 2, MaxInFlight <- 2

\* Four documents, of which two were created at the same time and two have the same content.
pageVars == <<status, changes, cursor, trail, page, shown, next, reading, fetching, acks, walk>>
Paging == INSTANCE UploadPages WITH
  refreshing <- reading, flight <- fetching, Rows <- 1 .. 4, Created <- <<1, 2, 2, 3>>,
  Content <- <<"a", "b", "c", "b">>, Limit <- 1, MaxChanges <- 2, MaxInFlight <- 2,
  Initially <- {<<"none", "failed", "none", "ready">>, <<"ready", "ready", "none", "failed">>}

ASSUME /\ Asking!QueryAssumption
       /\ Browser!DashboardAssumption /\ Paging!UploadPagesAssumption /\ Paging!InitiallyAssumption

Unused == <<>>

MCInit ==
  /\ part \in {"projection", "query", "dashboard", "pages"}
  /\ Init /\ Browser!Init /\ Paging!Init
  /\ IF part = "query" THEN Asking!Init
     ELSE rows = Unused /\ points = Unused /\ nodes = Unused /\ question = Unused /\ wasReady = Unused
  /\ part # "dashboard" => \A course \in Two : server.docs[course].status = "none"
  /\ part # "pages" => status[1] = "none"

MCNext ==
  \/ part = "projection" /\ Next /\ UNCHANGED <<askVars, browserVars, pageVars, part>>
  \/ part = "query" /\ Asking!Next /\ UNCHANGED <<vars, browserVars, pageVars, part>>
  \/ part = "dashboard" /\ Browser!Next /\ UNCHANGED <<vars, askVars, pageVars, part>>
  \/ part = "pages" /\ Paging!Next /\ UNCHANGED <<vars, askVars, browserVars, part>>

MCSpec == MCInit /\ [][MCNext]_<<vars, askVars, browserVars, pageVars, part>>

\* Query: an answer cites one execution of each document that was READY, and the course list
\* counts the documents that a question is answered from.
CitesOneReadyExecution ==
  part = "query" => Asking!CitesOneReadyExecution /\ Asking!CountsWhatIsAsked

\* Dashboard: an answer that is shown is about the course that is selected.
ShowsWhatWasAsked == Browser!ShowsWhatWasAsked

\* UploadPages: a walk through the pages passes nothing by.
WalkPassesNothingBy == Paging!WalkPassesNothingBy
===============================================================================
