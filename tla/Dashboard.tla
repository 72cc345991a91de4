------------------------------- MODULE Dashboard -------------------------------
(***************************************************************************)
(* The reviewer's dashboard (Dashboard.tsx): the course that is selected,  *)
(* the answer and the uploads it shows, and the requests it has in flight, *)
(* which are read by the server and answered in any order, while documents *)
(* are processed.  Each course has one document here, and the list of      *)
(* uploads one page.  A request that its version (requestVersion,          *)
(* uploadRefreshVersion) tells is stale is one that is not `current`.      *)
(***************************************************************************)
EXTENDS Integers, FiniteSets

CONSTANTS Courses, None,
          MaxChanges,       \* bound on the changes of the documents
          MaxInFlight       \* bound on the requests in flight

DashboardAssumption ==
  /\ None \notin Courses /\ IsFiniteSet(Courses)
  /\ MaxChanges \in Nat /\ MaxInFlight \in Nat \ {0}

VARIABLES server,      \* the documents, and how often one has changed
          selected,    \* courseId
          pending,     \* pendingCourseSelection
          list,        \* courses: the documents that the course list was read from
          jobs,        \* uploadJobs
          answer,      \* response: the course it is about
          loading, refreshing,       \* isLoading, isRefreshing
          flight       \* the requests

vars == <<server, selected, pending, list, jobs, answer, loading, refreshing, flight>>

Statuses == {"none", "active", "ready", "failed"}
Document == [status : Statuses, task : 0 .. MaxChanges]
NoDocument == [status |-> "none", task |-> 0]
Snapshots == [docs : [Courses -> Document], time : 0 .. MaxChanges]
Blank == [docs |-> [ c \in Courses |-> NoDocument ], time |-> 0]
NotRead == [docs |-> [ c \in Courses |-> NoDocument ], time |-> -1]

Kinds == {"query", "upload", "remove", "refresh", "poll", "courses"}
Request(kind, about, saved) ==
  [kind |-> kind, id |-> 0, current |-> TRUE, about |-> about, saved |-> saved,
   items |-> NotRead, list |-> NotRead]

TypeOK ==
  /\ server \in Snapshots /\ list \in Snapshots
  /\ selected \in Courses \cup {None} /\ pending \in Courses \cup {None} /\ answer \in Courses \cup {None}
  /\ jobs \in [Courses -> Document]
  /\ loading \in BOOLEAN /\ refreshing \in BOOLEAN
  /\ \A r \in flight : r.kind \in Kinds /\ r.about \subseteq Courses /\ r.current \in BOOLEAN

-----------------------------------------------------------------------------
\* What the page does at once.

Listed(l) == { c \in Courses : l.docs[c].status = "ready" }

Stale(f, kind) == { IF r.kind = kind THEN [r EXCEPT !.current = FALSE] ELSE r : r \in f }

\* Two requests that ask the same are two: each has the first free number.
Free(f) == { id \in 1 .. MaxInFlight : \A r \in f : r.id # id }
Send(f, r) ==
  /\ Cardinality(f) < MaxInFlight
  /\ \E id \in Free(f) : (\A n \in Free(f) : id <= n) /\ flight' = f \cup {[r EXCEPT !.id = id]}

(* A variant with a plausible bug: a question in flight is not given up    *)
(* with the course it was about.                                           *)
SelectKeepingQuestion(want, explicit, f) ==
  \E c \in (IF want \in Listed(list') THEN {want}
            ELSE IF Listed(list') = {} THEN {None} ELSE Listed(list')) :
    /\ selected' = c
    /\ IF explicit \/ c # selected \/ c = None
       THEN answer' = None /\ loading' = FALSE /\ flight' = f
       ELSE UNCHANGED <<answer, loading>> /\ flight' = f

\* selectCourse, called with `want` or not, and the effect that follows: a course without a READY
\* document is left for one that has, the last updated.
Select(want, explicit, f) ==
  \E c \in (IF want \in Listed(list') THEN {want}
            ELSE IF Listed(list') = {} THEN {None} ELSE Listed(list')) :
    /\ selected' = c
    /\ IF explicit \/ c # selected \/ c = None
       THEN answer' = None /\ loading' = FALSE /\ flight' = Stale(f, "query")
       ELSE UNCHANGED <<answer, loading>> /\ flight' = f

\* refreshUploads: a new version, two requests.
Refreshed(f) == Stale(f, "refresh") \cup {Request("refresh", {}, None)}

Init ==
  /\ server \in { s \in Snapshots : s.time = 0 /\ \A c \in Courses : s.docs[c].task = 0
                                    /\ s.docs[c].status \in {"none", "ready"} }
  /\ selected = None /\ pending = None /\ answer = None
  /\ list = Blank /\ jobs = [ c \in Courses |-> NoDocument ]
  /\ loading = FALSE /\ refreshing = TRUE
  /\ flight = {Request("refresh", {}, None)}

-----------------------------------------------------------------------------
\* The reviewer.

\* From the list of courses, or by the button of an upload.
Choose(c) ==
  /\ c \in Listed(list) /\ (~refreshing \/ jobs[c].status # "none")
  /\ list' = list /\ Select(c, TRUE, flight)
  /\ UNCHANGED <<server, pending, jobs, refreshing>>

\* handleSubmit, after canSubmitQuery.
Ask ==
  /\ selected \in Listed(list) /\ ~loading
  /\ Send(Stale(flight, "query"), Request("query", {selected}, None))
  /\ loading' = TRUE /\ answer' = None
  /\ UNCHANGED <<server, selected, pending, list, jobs, refreshing>>

\* The button is there while a reading of the lists is out, which is given up then.
Refresh ==
  /\ Cardinality(flight) < MaxInFlight
  /\ flight' = Refreshed(flight) /\ refreshing' = TRUE
  /\ UNCHANGED <<server, selected, pending, list, jobs, answer, loading>>

\* An upload (UploadModal), or a retry from the list: of several rows, and of one row again.
Upload(c) ==
  /\ Send(flight, Request("upload", {c}, None))
  /\ UNCHANGED <<server, selected, pending, list, jobs, answer, loading, refreshing>>

\* The button knows the course that is selected when it is pressed.
Remove(c) ==
  /\ jobs[c].status \in {"ready", "failed"} /\ \A r \in flight : r.kind # "remove"
  /\ Send(flight, Request("remove", {c}, selected))
  /\ UNCHANGED <<server, selected, pending, list, jobs, answer, loading, refreshing>>

\* The interval of the jobs that are shown as active, which does not wait for the last answer.
Poll ==
  LET active == { c \in Courses : jobs[c].status = "active" }
  IN  /\ active # {}
      /\ Send(flight, [Request("poll", active, pending) EXCEPT !.items = [NotRead EXCEPT !.docs = jobs]])
      /\ UNCHANGED <<server, selected, pending, list, jobs, answer, loading, refreshing>>

-----------------------------------------------------------------------------
\* The server.

\* Each upload leaves one change for its end.
Unfinished == Cardinality({ c \in Courses : server.docs[c].status = "active" })

Process(c, to) ==
  /\ server.docs[c].status = "active"
  /\ server' = [docs |-> [server.docs EXCEPT ![c].status = to], time |-> server.time + 1]
  /\ UNCHANGED <<selected, pending, list, jobs, answer, loading, refreshing, flight>>

Becomes(r, read) == flight' = (flight \ {r}) \cup {read}

\* A new document, or the retry of one that failed or is READY without a complete graph.
Accepted(c) ==
  LET doc == server.docs[c]
  IN  /\ doc.status # "active" /\ server.time + 1 + Unfinished < MaxChanges
      /\ server' = [docs |-> [server.docs EXCEPT ![c] = [status |-> "active", task |-> doc.task + 1]],
                    time |-> server.time + 1]

Removed(c) ==
  /\ server.docs[c].status \in {"ready", "failed"} /\ server.time + Unfinished < MaxChanges
  /\ server' = [docs |-> [server.docs EXCEPT ![c].status = "none"], time |-> server.time + 1]

\* What other reviewers do, and the retention loop.
Elsewhere(c) ==
  /\ Accepted(c) \/ Removed(c)
  /\ UNCHANGED <<selected, pending, list, jobs, answer, loading, refreshing, flight>>

\* An upload of what is there already changes nothing.
ServeUpload(r) ==
  \E c \in r.about :
    /\ r.kind = "upload" /\ r.items.time = -1
    /\ Accepted(c) \/ (server.docs[c].status # "none" /\ server' = server)
    /\ Becomes(r, [r EXCEPT !.items = server'])
    /\ UNCHANGED <<selected, pending, list, jobs, answer, loading, refreshing>>

ServeRemoval(r) ==
  \E c \in r.about :
    /\ r.kind = "remove" /\ r.items.time = -1 /\ Removed(c)
    /\ Becomes(r, [r EXCEPT !.items = server'])
    /\ UNCHANGED <<selected, pending, list, jobs, answer, loading, refreshing>>

\* One of the reads of a request.
Serve(r) ==
  /\ \/ r.kind \in {"refresh", "query"} /\ r.items.time = -1 /\ Becomes(r, [r EXCEPT !.items = server])
     \/ r.kind \in {"refresh", "courses"} /\ r.list.time = -1 /\ Becomes(r, [r EXCEPT !.list = server])
     \* The status of an attempt that is over is its own.
     \/ /\ r.kind = "poll" /\ r.items.time = -1
        /\ LET Now(c) == IF c \in r.about /\ server.docs[c].task = r.items.docs[c].task
                         THEN server.docs[c] ELSE r.items.docs[c]
           IN  Becomes(r, [r EXCEPT !.items = [docs |-> [ c \in Courses |-> Now(c) ], time |-> server.time]])
  /\ UNCHANGED <<server, selected, pending, list, jobs, answer, loading, refreshing>>

-----------------------------------------------------------------------------
\* The answers.

Done(r, kind) == r.kind = kind /\ r.items.time # -1

QueryArrives(r) ==
  /\ Done(r, "query") /\ flight' = flight \ {r}
  /\ IF r.current THEN answer' = (CHOOSE c \in r.about : TRUE) /\ loading' = FALSE
                  ELSE UNCHANGED <<answer, loading>>
  /\ UNCHANGED <<server, selected, pending, list, jobs, refreshing>>

RefreshArrives(r) ==
  /\ Done(r, "refresh") /\ r.list.time # -1
  /\ IF r.current
     THEN /\ jobs' = r.items.docs /\ list' = r.list /\ refreshing' = FALSE
          /\ Select(selected, FALSE, flight \ {r})
     ELSE /\ flight' = flight \ {r} /\ UNCHANGED <<selected, list, jobs, answer, loading, refreshing>>
  /\ UNCHANGED <<server, pending>>

\* handleUploadCreated; a READY duplicate is selected at once.
UploadArrives(r) ==
  \E c \in r.about :
    /\ Done(r, "upload") /\ UNCHANGED <<server, list>>
    /\ jobs' = [jobs EXCEPT ![c] = [r.items.docs[c] EXCEPT !.status = IF @ = "ready" THEN @ ELSE "active"]]
    /\ refreshing' = TRUE
    /\ IF r.items.docs[c].status = "ready"
       THEN pending' = None /\ Select(c, TRUE, Refreshed(flight \ {r}))
       ELSE pending' = c /\ flight' = Refreshed(flight \ {r}) /\ UNCHANGED <<selected, answer, loading>>

RemovalArrives(r) ==
  \E c \in r.about :
    /\ Done(r, "remove")
    /\ jobs' = [jobs EXCEPT ![c] = NoDocument]
    /\ answer' = IF c = r.saved THEN None ELSE answer
    /\ flight' = Refreshed(flight \ {r}) /\ refreshing' = TRUE
    /\ UNCHANGED <<server, selected, pending, list, loading>>

\* The jobs that are still shown with the task that was asked for; when one is over, the courses.
PollArrives(r) ==
  LET over == { c \in r.about : r.items.docs[c].status # "active" }
      Shows(c) == jobs[c].status # "none" /\ jobs[c].task = r.items.docs[c].task
  IN  /\ Done(r, "poll")
      /\ jobs' = [ c \in Courses |-> IF c \in r.about /\ Shows(c) THEN r.items.docs[c] ELSE jobs[c] ]
      /\ flight' = (flight \ {r}) \cup (IF over = {} THEN {}
                      ELSE {[Request("courses", { c \in over : r.items.docs[c].status = "failed" }, r.saved)
                               EXCEPT !.items = r.items, !.id = r.id]})
      /\ UNCHANGED <<server, selected, pending, list, answer, loading, refreshing>>

\* The selection that was pending when the interval was set.
CoursesArrive(r) ==
  /\ r.kind = "courses" /\ r.list.time # -1
  /\ list' = r.list
  /\ LET chosen == r.saved \in Listed(r.list)
     IN  /\ pending' = IF chosen \/ r.saved \in r.about THEN None ELSE pending
         /\ Select(IF chosen THEN r.saved ELSE selected, chosen, flight \ {r})
  /\ UNCHANGED <<server, jobs, refreshing>>

\* An error message; what waits for this request waits no more.
Fails(r) ==
  /\ flight' = flight \ {r}
  /\ loading' = IF r.kind = "query" /\ r.current THEN FALSE ELSE loading
  /\ refreshing' = IF r.kind = "refresh" /\ r.current THEN FALSE ELSE refreshing
  /\ UNCHANGED <<server, selected, pending, list, jobs, answer>>

-----------------------------------------------------------------------------
Arrives(r) ==
  \/ QueryArrives(r) \/ RefreshArrives(r) \/ UploadArrives(r) \/ RemovalArrives(r)
  \/ PollArrives(r) \/ CoursesArrive(r)

Next ==
  \/ \E c \in Courses : Choose(c) \/ Upload(c) \/ Remove(c)
                        \/ Process(c, "ready") \/ Process(c, "failed") \/ Elsewhere(c)
  \/ Ask \/ Refresh \/ Poll
  \/ \E r \in flight : ServeUpload(r) \/ ServeRemoval(r) \/ Serve(r) \/ Arrives(r) \/ Fails(r)

Spec == Init /\ [][Next]_vars

-----------------------------------------------------------------------------
(***************************************************************************)
(* An answer that is shown is about the course that is selected, however   *)
(* late it came; and the page says that it is waiting exactly while the    *)
(* request it waits for is out (requestVersion, uploadRefreshVersion).     *)
(***************************************************************************)
ShowsWhatWasAsked ==
  /\ TypeOK
  /\ answer \in {None, selected}
  /\ loading <=> \E r \in flight : r.kind = "query" /\ r.current
  /\ refreshing <=> \E r \in flight : r.kind = "refresh" /\ r.current
===============================================================================
