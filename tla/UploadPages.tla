------------------------------ MODULE UploadPages ------------------------------
(***************************************************************************)
(* The pages of the upload list (paginated_uploads), and the reviewer who  *)
(* walks through them on the dashboard (changeUploadPage, refreshUploads)  *)
(* while documents come, change and go.  A cursor is the row it encodes:   *)
(* its time of creation and its identifier.  `walk` is a history: what was *)
(* listed ever since the first page was read, and what was shown since.    *)
(***************************************************************************)
EXTENDS Integers, Sequences, FiniteSets

CONSTANTS Rows, None,
          Created,          \* created_at, which does not follow the order of the commits
          Content,          \* the course and content; old rows may have the same
          Initially,        \* the states of the rows to begin with
          Limit,            \* rows of a page
          MaxChanges, MaxInFlight       \* bounds

UploadPagesAssumption ==
  /\ Rows \subseteq Nat /\ IsFiniteSet(Rows) /\ None \notin Rows /\ Created \in [Rows -> Nat]
  /\ Limit \in Nat \ {0} /\ MaxChanges \in Nat /\ MaxInFlight \in Nat \ {0}

VARIABLES status, changes,
          cursor,           \* uploadCursorRef
          trail, page,      \* uploadCursorTrail, uploadPage
          shown, next,      \* uploadJobs, nextUploadCursor
          refreshing, flight,
          acks,             \* uploads and removals that the reviewer waits for
          walk

client == <<cursor, trail, page, shown, next>>
vars == <<status, changes, client, refreshing, flight, acks, walk>>

Statuses == {"none", "active", "ready", "failed", "removed"}
Steps == {-1, 0, 1}

InitiallyAssumption ==
  \A t \in Initially : \A r \in Rows : t[r] \in {"none", "ready", "failed"}

-----------------------------------------------------------------------------
\* The server.

Rank(r) == CASE status[r] = "active" -> 0 [] status[r] = "ready" -> 1 [] status[r] = "failed" -> 2

Older(r, s) == Created[r] < Created[s] \/ (Created[r] = Created[s] /\ r < s)

Stored == { r \in Rows : status[r] \notin {"none", "removed"} }

\* One row for each content: the one that is active, else ready, else the newest.
Canonical ==
  { r \in Stored : \A s \in Stored \ {r} :
      Content[s] = Content[r] => Rank(r) < Rank(s) \/ (Rank(r) = Rank(s) /\ Older(s, r)) }

Listed(c) == IF c = None THEN Canonical ELSE { r \in Canonical : Older(r, c) }

Items(c) == { r \in Listed(c) : Cardinality({ s \in Listed(c) : Older(r, s) }) < Limit }

(* A variant with a plausible bug: the cursor is the first row of the next *)
(* page, though a page begins after its cursor.                            *)
NextCursorTooFar(c) ==
  LET rest == Listed(c) \ Items(c)
  IN  IF rest = {} THEN None ELSE CHOOSE r \in rest : \A s \in rest \ {r} : Older(s, r)

\* The last row of the page, if there are more.
NextCursor(c) ==
  IF Listed(c) = Items(c) THEN None
  ELSE CHOOSE r \in Items(c) : \A s \in Items(c) \ {r} : Older(r, s)

-----------------------------------------------------------------------------
Unread == {}
Request(c, step) ==
  [cursor |-> c, step |-> step, current |-> TRUE, done |-> FALSE,
   items |-> Unread, next |-> None, since |-> Unread]

\* refreshUploads: a new version.
Refreshed(c, step) ==
  /\ Cardinality(flight) < MaxInFlight
  /\ flight' = { [f EXCEPT !.current = FALSE] : f \in flight } \cup {Request(c, step)}
  /\ refreshing' = TRUE

\* What is not listed any more has not been listed ever since.
StillListed ==
  /\ walk' = [walk EXCEPT !.since = @ \cap Canonical']
  /\ flight' = { [f EXCEPT !.since = @ \cap Canonical'] : f \in flight }

Init ==
  /\ status \in Initially
  /\ changes = 0 /\ acks = {}
  /\ cursor = None /\ trail = <<None>> /\ page = 0 /\ shown = {} /\ next = None
  /\ refreshing = TRUE /\ flight = {Request(None, 0)}
  /\ walk = [since |-> {}, seen |-> {}]

-----------------------------------------------------------------------------
\* The documents change: by this reviewer, by another, by their processing.

Change(r, to) ==
  /\ changes < MaxChanges /\ changes' = changes + 1
  /\ status' = [status EXCEPT ![r] = to]
  /\ StillListed /\ UNCHANGED <<client, refreshing>>

\* It is this reviewer's doing, or not.
Waits(kind, r) ==
  \/ acks' = acks
  \/ Cardinality(acks) + Cardinality(flight) < MaxInFlight /\ acks' = acks \cup {<<kind, r>>}

\* The same content is not stored again, but tried again: what failed, or has no complete graph.
Upload(r) ==
  /\ \/ status[r] = "none" /\ \A s \in Stored : Content[s] # Content[r]
     \/ status[r] \in {"failed", "ready"}
  /\ Waits("upload", r) /\ Change(r, "active")

\* Others, and the retention loop, remove what this reviewer is not shown; and what is removed
\* here may have left the page while its removal was under way.
Remove(r) ==
  /\ status[r] \in {"ready", "failed"}
  /\ Waits("removal", r) /\ Change(r, "removed")

Process(r) ==
  /\ status[r] = "active" /\ (Change(r, "ready") \/ Change(r, "failed")) /\ UNCHANGED acks

-----------------------------------------------------------------------------
\* The reviewer and the answers.

\* Also while a page is being read, which is given up then.
Refresh == Refreshed(cursor, 0) /\ UNCHANGED <<status, changes, client, acks, walk>>

\* changeUploadPage.
Turn(step) ==
  /\ ~refreshing
  /\ \/ step = 1 /\ next # None /\ Refreshed(next, 1)
     \/ step = -1 /\ page > 0 /\ Refreshed(trail[page], -1)
  /\ UNCHANGED <<status, changes, client, acks, walk>>

Serve(f) ==
  /\ ~f.done
  /\ flight' = (flight \ {f}) \cup {[f EXCEPT !.done = TRUE, !.items = Items(f.cursor),
                                              !.next = NextCursor(f.cursor), !.since = Canonical]}
  /\ UNCHANGED <<status, changes, client, refreshing, acks, walk>>

\* A stale answer is ignored.
Arrive(f) ==
  /\ f.done /\ flight' = flight \ {f} /\ UNCHANGED <<status, changes, acks>>
  /\ IF ~f.current THEN UNCHANGED <<client, refreshing, walk>>
     ELSE /\ cursor' = f.cursor /\ shown' = f.items /\ next' = f.next
          /\ refreshing' = FALSE
          /\ page' = page + f.step
          /\ trail' = IF f.step = 1 THEN Append(SubSeq(trail, 1, page'), f.cursor) ELSE trail
          /\ walk' = IF f.cursor = None THEN [since |-> f.since, seen |-> f.items]
                                        ELSE [walk EXCEPT !.seen = @ \cup f.items]

Fail(f) ==
  /\ flight' = flight \ {f}
  /\ refreshing' = (refreshing /\ ~f.current)
  /\ UNCHANGED <<status, changes, client, acks, walk>>

\* handleUploadCreated: back to the first page, which is read again.
UploadArrives(r) ==
  /\ <<"upload", r>> \in acks /\ acks' = acks \ {<<"upload", r>>}
  /\ cursor' = None /\ trail' = <<None>> /\ page' = 0
  /\ shown' = shown \cup {r}
  /\ Refreshed(None, 0)
  /\ UNCHANGED <<status, changes, next, walk>>

\* The page that is shown is read again.
RemovalArrives(r) ==
  /\ <<"removal", r>> \in acks /\ acks' = acks \ {<<"removal", r>>}
  /\ shown' = shown \ {r}
  /\ Refreshed(cursor, 0)
  /\ UNCHANGED <<status, changes, cursor, trail, page, next, walk>>

Next ==
  \/ \E r \in Rows : Upload(r) \/ Remove(r) \/ Process(r) \/ UploadArrives(r) \/ RemovalArrives(r)
  \/ Refresh \/ \E step \in Steps : Turn(step)
  \/ \E f \in flight : Serve(f) \/ Arrive(f) \/ Fail(f)

Spec == Init /\ [][Next]_vars

-----------------------------------------------------------------------------
(***************************************************************************)
(* A walk passes nothing by: what has been listed ever since the first     *)
(* page was read, and is not left for the pages to come, has been shown,   *)
(* whatever came, changed or went in between.                              *)
(***************************************************************************)
WalkPassesNothingBy ==
  ~refreshing => \A r \in walk.since : (next = None \/ ~Older(r, next)) => r \in walk.seen
===============================================================================
