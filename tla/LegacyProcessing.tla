--------------------------- MODULE LegacyProcessing ---------------------------
(***************************************************************************)
(* One document with projection fencing off, which is the default: the     *)
(* remote writes of process_document and of the removal are sent without   *)
(* the row's lock, so that only the statements between them find out that  *)
(* an execution is no longer current.  Processes have one worker each and  *)
(* pick up what is dispatchable; the coordinator is DocumentLifecycle's.   *)
(* A remote statement takes effect before the next one or never.           *)
(***************************************************************************)
EXTENDS UploadRow, FiniteSets

CONSTANTS Workers,         \* worker processes; each is the lease owner of what it executes
          MaxFaults        \* bound on executions that lose the row while they are alive

ASSUME WorkersAssumption == Workers # {} /\ NoOwner \notin Workers /\ MaxFaults \in Nat

VARIABLES row,
          up,              \* the processes that run; instance_id is new in each
          job,             \* the statement a worker has reached, and its task
          retrying,        \* the attempt whose source the retry request checks, 0 if none
          vectors,         \* the attempt that wrote the points: their ids are the chunks'
          graph,           \* what is in Neo4j: <<attempt, part of its graph>>
          remover,         \* the next step of a removal
          faults

vars == <<row, up, job, retrying, vectors, graph, remover, faults>>

\* Each concept and each relationship is a transaction of its own.
Parts == {"concepts", "relationships"}
GraphOf(task) == {task} \X Parts

Following ==
  [claimed           |-> "cleanup_vectors", cleanup_vectors   |-> "EXTRACTING",
   EXTRACTING        |-> "EXTRACTED",       EXTRACTED         |-> "CHUNKING",
   CHUNKING          |-> "reserve_chunks",  reserve_chunks    |-> "CHUNKED",
   CHUNKED           |-> "EMBEDDING",       EMBEDDING         |-> "upsert_chunks",
   upsert_chunks     |-> "EMBEDDED",        EMBEDDED          |-> "BUILDING_GRAPH",
   BUILDING_GRAPH    |-> "extract_graph",   extract_graph     |-> "cleanup_graph",
   cleanup_graph     |-> "store_concepts",  store_concepts    |-> "store_relationships",
   store_relationships |-> "GRAPH_BUILT",   GRAPH_BUILT       |-> "mark_completed",
   failing           |-> "drop_vectors",    drop_vectors      |-> "drop_graph",
   drop_graph        |-> "mark_failed"]

Failing == {"failing", "drop_vectors", "drop_graph", "mark_failed"}
Steps == (DOMAIN Following \ Failing) \cup {"mark_completed"}
Remote == {"cleanup_vectors", "upsert_chunks", "cleanup_graph", "store_concepts",
           "store_relationships", "drop_vectors", "drop_graph"}
\* Statements that lock the row and look at task, owner and status.
Locking == (Steps \cap ActiveStages) \cup {"claimed", "reserve_chunks", "mark_completed"}

Idle == [at |-> "idle", task |-> 0]
IsCurrent(w) == Current(row, job[w].task, w)
Works(w) == w \in up
At(w, step) == Works(w) /\ job[w].at = step

Moved(w, step) == job' = [job EXCEPT ![w].at = step]
Proceed(w) == Moved(w, Following[job[w].at])
Ends(w) == job' = [job EXCEPT ![w] = Idle]

-----------------------------------------------------------------------------
\* process_document with the flag off.

Claim(w) ==
  /\ Works(w) /\ job[w] = Idle
  /\ Claimable(row, row.attempt, w)
  /\ row' = Leased(row, w)
  /\ job' = [job EXCEPT ![w] = [at |-> "claimed", task |-> row.attempt]]
  /\ UNCHANGED <<up, retrying, vectors, graph, remover, faults>>

Check(w) ==
  /\ Works(w) /\ job[w].at \in Locking \ {"mark_completed"} /\ IsCurrent(w)
  /\ row' = IF job[w].at \in ActiveStages THEN Staged(row, job[w].at) ELSE row
  /\ Proceed(w)
  /\ UNCHANGED <<up, retrying, vectors, graph, remover, faults>>

\* A locked statement says so, or the heartbeat's event, or a section row that is not saved.
Superseded(w) ==
  /\ Works(w) /\ ~IsCurrent(w)
  /\ job[w].at \in Locking \cup {"cleanup_vectors", "extract_graph", "cleanup_graph"}
  /\ Ends(w)
  /\ UNCHANGED <<row, up, retrying, vectors, graph, remover, faults>>

Extract(w) ==
  /\ At(w, "extract_graph")
  /\ Proceed(w)
  /\ UNCHANGED <<row, up, retrying, vectors, graph, remover, faults>>

\* What a remote statement of this task makes of the stores: a relationship needs its ends.
Effect(step, task) ==
  /\ vectors' = CASE step \in {"cleanup_vectors", "drop_vectors"} -> 0
                  [] step = "upsert_chunks"                       -> task
                  [] OTHER                                        -> vectors
  /\ graph' = CASE step \in {"cleanup_graph", "drop_graph"} -> {}
                [] step = "store_concepts"                  -> graph \cup {<<task, "concepts">>}
                [] step = "store_relationships"             -> graph \cup { <<task, "relationships">> :
                                                            p \in { q \in graph : q[2] = "concepts" } }
                [] OTHER                                    -> graph

Write(w) ==
  /\ Works(w) /\ job[w].at \in Remote
  /\ Effect(job[w].at, job[w].task)
  /\ Proceed(w)
  /\ UNCHANGED <<row, up, retrying, remover, faults>>

\* The answer of the commit may be lost: the failure path asks about the row first.
Complete(w) ==
  /\ At(w, "mark_completed") /\ IsCurrent(w) /\ row.stage = "GRAPH_BUILT"
  /\ \E g \in GraphStatuses, rebuild \in {"open", "exhausted"} : row' = Completed(row, g, rebuild)
  /\ Ends(w) \/ Moved(w, "failing")
  /\ UNCHANGED <<up, retrying, vectors, graph, remover, faults>>

Raise(w) ==
  /\ Works(w) /\ job[w].at \in Steps \ {"claimed"}
  /\ Moved(w, "failing")
  /\ UNCHANGED <<row, up, retrying, vectors, graph, remover, faults>>

(* A variant with a plausible bug: the cleanup is begun without asking.    *)
FailureBeginsUnasked(w) ==
  /\ At(w, "failing")
  /\ Proceed(w)
  /\ UNCHANGED <<row, up, retrying, vectors, graph, remover, faults>>

\* A heartbeat tells whether this execution may still clean up; then the lock is given back.
FailureBegins(w) ==
  /\ At(w, "failing")
  /\ IF IsCurrent(w) THEN row' = [row EXCEPT !.lease = "live"] /\ Proceed(w)
                     ELSE UNCHANGED row /\ Ends(w)
  /\ UNCHANGED <<up, retrying, vectors, graph, remover, faults>>

\* cleanup_upload fails at one of its statements: that is logged.
CleanupFails(w) ==
  /\ Works(w) /\ job[w].at \in {"drop_vectors", "drop_graph"}
  /\ Moved(w, "mark_failed")
  /\ UNCHANGED <<row, up, retrying, vectors, graph, remover, faults>>

Fail(w) ==
  /\ At(w, "mark_failed")
  /\ IF IsCurrent(w) THEN \E retryable \in BOOLEAN : row' = Failed(row, retryable)
                     ELSE UNCHANGED row
  /\ Ends(w)
  /\ UNCHANGED <<up, retrying, vectors, graph, remover, faults>>

\* PostgreSQL does not answer the failure path, or the first read: the lease runs out.
NotRecorded(w) ==
  /\ Works(w) /\ job[w].at \in {"claimed", "failing", "mark_failed"}
  /\ Ends(w)
  /\ UNCHANGED <<row, up, retrying, vectors, graph, remover, faults>>

\* Cancelled at shutdown: the lease is given back if it is still this execution's.
Cancel(w) ==
  /\ Works(w) /\ Cardinality(up) > 1 /\ job[w].at \in Steps
  /\ up' = up \ {w}
  /\ row' = IF job[w].at # "claimed" /\ IsCurrent(w) THEN Unleased(row) ELSE row
  /\ Ends(w)
  /\ UNCHANGED <<retrying, vectors, graph, remover, faults>>

Kill(w) ==
  /\ Works(w) /\ Cardinality(up) > 1
  /\ up' = up \ {w}
  /\ Ends(w)
  /\ UNCHANGED <<row, retrying, vectors, graph, remover, faults>>

-----------------------------------------------------------------------------
\* Leases, recovery, retries.

Executing(w) == job[w] # Idle /\ IsCurrent(w)

Heartbeat(w) ==
  /\ job[w].at \in (Steps \cup Failing) \ {"claimed"} /\ IsCurrent(w) /\ row.lease = "expired"
  /\ row' = [row EXCEPT !.lease = "live"]
  /\ UNCHANGED <<up, job, retrying, vectors, graph, remover, faults>>

\* An execution that is alive loses its lease only when its process stalls.
LeaseExpires ==
  /\ row.lease = "live"
  /\ row' = [row EXCEPT !.lease = "expired"]
  /\ IF \E w \in Workers : Executing(w)
     THEN faults < MaxFaults /\ faults' = faults + 1 ELSE UNCHANGED faults
  /\ UNCHANGED <<up, job, retrying, vectors, graph, remover>>

Recover ==
  /\ Interrupted(row)
  /\ row' = IF row.attempt < MaxProcessingAttempts THEN NextAttempt(row) ELSE Failed(row, FALSE)
  /\ UNCHANGED <<up, job, retrying, vectors, graph, remover, faults>>

RetryUpload ==
  /\ retrying = 0 /\ CanReprocess(row)
  /\ row' = NextAttempt(row)
  /\ retrying' = row.attempt + 1
  /\ UNCHANGED <<up, job, vectors, graph, remover, faults>>

\* The source is there; or it is not, and mark_failed names the task but no owner.
RetryChecked ==
  /\ retrying # 0
  /\ retrying' = 0
  /\ \/ UNCHANGED <<row, faults>>
     \/ /\ Active(row) /\ row.attempt = retrying
        /\ \E retryable \in BOOLEAN : row' = Failed(row, retryable)
        /\ IF row.owner = NoOwner THEN UNCHANGED faults
           ELSE faults < MaxFaults /\ faults' = faults + 1
  /\ UNCHANGED <<up, job, vectors, graph, remover>>

-----------------------------------------------------------------------------
\* Removal: its remote steps are those of the failure path, and it leaves no tombstones.

AfterRemoval == [drop_vectors |-> "drop_graph", drop_graph |-> "object", object |-> "row"]

RequestRemoval ==
  /\ remover = "none" /\ row.stage \in DeletableStages
  /\ row' = MarkedDeleting(row)
  /\ remover' = "drop_vectors"
  /\ UNCHANGED <<up, job, retrying, vectors, graph, faults>>

Remove ==
  /\ remover \in DOMAIN AfterRemoval
  /\ Effect(remover, row.attempt)
  /\ remover' = AfterRemoval[remover]
  /\ UNCHANGED <<row, up, job, retrying, faults>>

RemoveRow ==
  /\ remover = "row"
  /\ row' = Removed(row)
  /\ remover' = "none"
  /\ UNCHANGED <<up, job, retrying, vectors, graph, faults>>

RemovalFails ==
  /\ remover # "none"
  /\ remover' = "none"
  /\ UNCHANGED <<row, up, job, retrying, vectors, graph, faults>>

-----------------------------------------------------------------------------
Init ==
  /\ row = NewRow
  /\ up = Workers
  /\ job = [w \in Workers |-> Idle]
  /\ retrying = 0 /\ vectors = 0 /\ graph = {}
  /\ remover = "none" /\ faults = 0

Next ==
  \/ \E w \in Workers :
       \/ Claim(w) \/ Check(w) \/ Superseded(w) \/ Extract(w) \/ Write(w) \/ Complete(w)
       \/ Raise(w) \/ FailureBegins(w) \/ CleanupFails(w) \/ Fail(w) \/ NotRecorded(w)
       \/ Cancel(w) \/ Kill(w) \/ Heartbeat(w)
  \/ LeaseExpires \/ Recover \/ RetryUpload \/ RetryChecked
  \/ RequestRemoval \/ Remove \/ RemoveRow \/ RemovalFails

Spec == Init /\ [][Next]_vars

-----------------------------------------------------------------------------
TypeOK ==
  /\ row \in Rows(Workers)
  /\ up \subseteq Workers /\ up # {}
  /\ job \in [Workers -> {Idle} \cup [at : Steps \cup Failing, task : Attempts]]
  /\ retrying \in Attempts \cup {0}
  /\ vectors \in Attempts \cup {0}
  /\ graph \subseteq Attempts \X Parts
  /\ remover \in {"none", "row"} \cup DOMAIN AfterRemoval
  /\ faults \in 0 .. MaxFaults

(***************************************************************************)
(* README.md: "PostgreSQL leases/heartbeats, task-token fencing, restart   *)
(* recovery, retries, and idempotent cleanup protect against lost or stale *)
(* work": a READY document has the vectors and the whole graph of the      *)
(* attempt that made it READY, and no other attempt's.                     *)
(***************************************************************************)
ReadyIsWhole ==
  row.stage = "READY" /\ ~row.deleting => vectors = row.attempt /\ graph = GraphOf(row.attempt)

(***************************************************************************)
(* Without fences the stores still match the row, whatever is killed, shut *)
(* down, fails half way or is not recorded, as long as no execution lost   *)
(* the row while it was alive: what an attempt left behind is gone when a  *)
(* later one is READY, and everything is when the document is removed.     *)
(***************************************************************************)
StoresMatchRow ==
  /\ TypeOK
  /\ faults = 0 => /\ ReadyIsWhole
                   /\ row.stage = "REMOVED" => vectors = 0 /\ graph = {}
=============================================================================
