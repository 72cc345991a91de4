-------------------------- MODULE DocumentLifecycle --------------------------
(***************************************************************************)
(* One uploaded document from its first task to its removal, with graph    *)
(* projection fencing on: several API/worker processes, each with a        *)
(* bounded queue, a dispatcher and a few workers, share the document's     *)
(* PostgreSQL row and two remote stores (Qdrant vectors, Neo4j graph).     *)
(*                                                                         *)
(* A worker step that needs the row's lock is one action: the lock is held *)
(* from the check of task, owner and status until the remote operation has *)
(* been drained (_with_current_attempt, run_async_safely).  What a lock    *)
(* cannot hold is a request the store accepted from a caller that then     *)
(* died, or that saw only an error: it goes into "late" and is applied at  *)
(* any later time, or never.                                               *)
(*                                                                         *)
(* An instance is one process incarnation (instance_id is a fresh uuid), so*)
(* one that went down does not come back.  The "superseded" event of the   *)
(* heartbeat loop is left out: wherever _ensure_current reads it, the next *)
(* statement takes the row lock and tests the same condition for itself.   *)
(***************************************************************************)
EXTENDS UploadRow, ProjectionFence, Sequences, FiniteSets

CONSTANTS Instances, Workers,
          Home,            \* the instance each worker belongs to
          QueueCapacity,   \* processing_queue_capacity
          Batches,         \* bound on the document's graph batches
          LateKinds,       \* remote operations that may outlive their caller
          MaxLate,         \* bound on operations in flight without a caller
          MaxFaults        \* bound on leases lost by a live owner and failures not recorded

ASSUME HomeAssumption == Home \in [Workers -> Instances]
ASSUME OwnerAssumption == NoOwner \notin Instances
ASSUME BoundsAssumption ==
  QueueCapacity \in Nat \ {0} /\ Batches \in Nat /\ MaxLate \in Nat /\ MaxFaults \in Nat

VARIABLES
  row,          \* document_uploads
  history,      \* processing_attempts: the stage of every attempt
  checkpoints,  \* graph_extraction_checkpoints: batches saved
  tombstones,   \* vector_deletion_tombstones: tasks to sweep for ever
  life,         \* is the process up, stopping or down
  queue,        \* the coordinator's asyncio.Queue of tasks
  queued,       \* its _queued keys
  retrying,     \* the attempt a retry request of the process is checking, 0 if none
  job,          \* what each worker is doing, and for which task
  vectors,      \* execution tokens that have points in Qdrant
  graph,        \* the attempt whose concepts are in Neo4j, 0 if none
  fence,        \* (:GraphProjectionFence)
  late,         \* accepted remote operations whose caller is gone
  remover,      \* the next remote step of a removal, "none" if no one is at it
  faults

record == <<row, history, checkpoints, tombstones>>
coordinator == <<life, queue, queued, retrying>>
stores == <<vectors, graph, fence>>
vars == <<record, coordinator, job, stores, late, remover, faults>>

-----------------------------------------------------------------------------
(* process_document, statement by statement: a stage name is the set_stage *)
(* call for that stage.                                                    *)
Following ==
  [cleanup_vectors  |-> "EXTRACTING",     EXTRACTING     |-> "EXTRACTED",
   EXTRACTED        |-> "CHUNKING",       CHUNKING       |-> "reserve_chunks",
   reserve_chunks   |-> "CHUNKED",        CHUNKED        |-> "EMBEDDING",
   EMBEDDING        |-> "upsert_chunks",  upsert_chunks  |-> "EMBEDDED",
   EMBEDDED         |-> "BUILDING_GRAPH", BUILDING_GRAPH |-> "extract_graph",
   extract_graph    |-> "replace_graph",  replace_graph  |-> "GRAPH_BUILT",
   GRAPH_BUILT      |-> "mark_completed", mark_completed |-> "clear_checkpoints"]

Steps == DOMAIN Following
StageSteps == Steps \cap ActiveStages
KindOf == [cleanup_vectors |-> "delete_all", upsert_chunks |-> "upsert",
           replace_graph |-> "baseline"]

Idle == [at |-> "idle", task |-> 0]
Jobs == {Idle} \cup [at : Steps \cup {"claimed", "clear_checkpoints", "failing"}, task : Attempts]

-----------------------------------------------------------------------------
(* The remote stores.                                                      *)

OpKinds == {"delete_all", "delete", "upsert", "baseline", "abort", "tombstone"}
Op(kind, task) == [kind |-> kind, task |-> task]

(* An attempt publishes one graph, so its task names the digest.           *)
GraphWrite(op) ==
  [mode |-> op.kind, generation |-> op.task, task |-> op.task,
   digest |-> IF op.kind = "baseline" THEN op.task ELSE NoDigest]

Refused(op) == op.kind \in {"baseline", "abort"} /\ ~Admits(fence, GraphWrite(op))

Apply(op) ==
  /\ vectors' = CASE op.kind = "upsert"     -> vectors \cup {op.task}
                  [] op.kind = "delete_all" -> {}
                  [] op.kind = "delete"     -> vectors \ {op.task}
                  [] OTHER                  -> vectors
  /\ fence' = CASE op.kind = "tombstone"           -> Close(fence)
                [] op.kind \in {"baseline", "abort"} -> Advance(fence, GraphWrite(op))
                [] OTHER                           -> fence
  /\ graph' = CASE op.kind = "baseline"              -> op.task
                [] op.kind \in {"abort", "tombstone"} -> 0
                [] OTHER                             -> graph

(* Some of ops were accepted by a store whose answer nobody awaits.        *)
MayOutlive(ops) ==
  /\ \E kept \in SUBSET {op \in ops : op.kind \in LateKinds} : late' = late \cup kept
  /\ Cardinality(late') <= MaxLate

IsCurrent(w) == Current(row, job[w].task, Home[w])

(* What worker w may have sent, under the row lock, and not seen answered; *)
(* see CleanUp for the requests of the failure path.                       *)
InFlight(w) ==
  IF IsCurrent(w) /\ job[w].at \in DOMAIN KindOf
  THEN {Op(KindOf[job[w].at], job[w].task)} ELSE {}

LateLands ==
  \E op \in late :
    /\ late' = late \ {op}
    /\ IF Refused(op) THEN UNCHANGED stores ELSE Apply(op)
    /\ UNCHANGED <<record, coordinator, job, remover, faults>>

-----------------------------------------------------------------------------
(* The coordinator.                                                        *)

Up(i) == life[i] = "up"
Works(w) == Up(Home[w])

(* A variant with a plausible bug: no deduplication.                       *)
SubmittedTwice(i, task) == life[i] # "down" /\ Len(queue[i]) < QueueCapacity

(* submit: deduplicated by key, deferred when stopped or full.             *)
Submitted(i, task) ==
  task \notin queued[i] /\ life[i] # "down" /\ Len(queue[i]) < QueueCapacity

Submit(i, task) ==
  IF Submitted(i, task)
  THEN /\ queue' = [queue EXCEPT ![i] = Append(@, task)]
       /\ queued' = [queued EXCEPT ![i] = @ \cup {task}]
  ELSE UNCHANGED <<queue, queued>>

(* A variant with a plausible bug: the interrupted attempt stays open.     *)
RecoverOnlyRow(i) ==
  /\ Up(i) /\ Len(queue[i]) < QueueCapacity
  /\ Interrupted(row)
  /\ IF row.attempt < MaxProcessingAttempts
     THEN /\ row' = NextAttempt(row)
          /\ history' = [history EXCEPT ![row.attempt + 1] = "UPLOADED"]
     ELSE row' = Failed(row, FALSE) /\ UNCHANGED history
  /\ UNCHANGED <<checkpoints, tombstones, coordinator, job, stores, late, remover, faults>>

(* A dispatcher sweep recovers, commits, then lists what to submit; it does*)
(* neither when the queue is full.                                         *)
Recover(i) ==
  /\ Up(i) /\ Len(queue[i]) < QueueCapacity
  /\ Interrupted(row)
  /\ IF row.attempt < MaxProcessingAttempts
     THEN /\ row' = NextAttempt(row)
          /\ history' = [history EXCEPT ![row.attempt] = "FAILED",
                                        ![row.attempt + 1] = "UPLOADED"]
     ELSE /\ row' = Failed(row, FALSE)
          /\ history' = [history EXCEPT ![row.attempt] = "FAILED"]
  /\ UNCHANGED <<checkpoints, tombstones, coordinator, job, stores, late, remover, faults>>

Dispatch(i) ==
  /\ Up(i) /\ Dispatchable(row) /\ Submitted(i, row.attempt)
  /\ Submit(i, row.attempt)
  /\ UNCHANGED <<record, life, retrying, job, stores, late, remover, faults>>

(* The worker is done with its task: the finally clause of _worker_loop.   *)
Release(w) ==
  /\ job' = [job EXCEPT ![w] = Idle]
  /\ queued' = [queued EXCEPT ![Home[w]] = @ \ {job[w].task}]

Pop(w) ==
  /\ Works(w) /\ job[w] = Idle /\ queue[Home[w]] # <<>>
  /\ queue' = [queue EXCEPT ![Home[w]] = Tail(@)]

Claim(w) ==
  LET task == Head(queue[Home[w]]) IN
  /\ Pop(w)
  /\ Claimable(row, task, Home[w])
  /\ row' = Leased(row, Home[w])
  /\ job' = [job EXCEPT ![w] = [at |-> "claimed", task |-> task]]
  /\ UNCHANGED <<history, checkpoints, tombstones, life, queued, retrying, stores, late,
                 remover, faults>>

(* The row is another's, has moved on, or is locked right now (skip_locked)*)
ClaimRefused(w) ==
  /\ Pop(w)
  /\ queued' = [queued EXCEPT ![Home[w]] = @ \ {Head(queue[Home[w]])}]
  /\ UNCHANGED <<record, life, retrying, job, stores, late, remover, faults>>

-----------------------------------------------------------------------------
(* process_document.                                                       *)

At(w, step) == Works(w) /\ job[w].at = step
Proceed(w) == job' = [job EXCEPT ![w].at = Following[job[w].at]]

(* The first read, before any cleanup handler is in place.                 *)
Begin(w) ==
  /\ At(w, "claimed") /\ IsCurrent(w)
  /\ job' = [job EXCEPT ![w].at = "cleanup_vectors"]
  /\ UNCHANGED <<record, coordinator, stores, late, remover, faults>>

(* That read raises: the worker's loop logs it, and the lease is left.     *)
BeginFails(w) ==
  /\ At(w, "claimed")
  /\ faults < MaxFaults /\ faults' = faults + 1
  /\ Release(w)
  /\ UNCHANGED <<record, life, queue, retrying, stores, late, remover>>

(* A locked check that fails: ProcessingAttemptSuperseded.                 *)
Superseded(w) ==
  /\ Works(w) /\ job[w].at \in Steps \cup {"claimed"}
  /\ ~IsCurrent(w)
  /\ Release(w)
  /\ UNCHANGED <<record, life, queue, retrying, stores, late, remover, faults>>

SetStage(w) ==
  /\ Works(w) /\ job[w].at \in StageSteps /\ IsCurrent(w)
  /\ row' = Staged(row, job[w].at)
  /\ history' = [history EXCEPT ![row.attempt] = job[w].at]
  /\ Proceed(w)
  /\ UNCHANGED <<checkpoints, tombstones, coordinator, stores, late, remover, faults>>

ReserveChunks(w) ==
  /\ At(w, "reserve_chunks") /\ IsCurrent(w)
  /\ Proceed(w)
  /\ UNCHANGED <<record, coordinator, stores, late, remover, faults>>

(* A variant with a plausible bug: the remote write without the row lock.  *)
UnfencedWrite(w) ==
  /\ Works(w) /\ job[w].at \in DOMAIN KindOf
  /\ LET op == Op(KindOf[job[w].at], job[w].task) IN ~Refused(op) /\ Apply(op)
  /\ Proceed(w)
  /\ UNCHANGED <<record, coordinator, late, remover, faults>>

(* cleanup_vectors, upsert_chunks_to_qdrant and replace_graph_extraction   *)
(* under _with_current_attempt.                                            *)
FencedWrite(w) ==
  /\ Works(w) /\ job[w].at \in DOMAIN KindOf /\ IsCurrent(w)
  /\ LET op == Op(KindOf[job[w].at], job[w].task) IN ~Refused(op) /\ Apply(op)
  /\ Proceed(w)
  /\ UNCHANGED <<record, coordinator, late, remover, faults>>

(* on_batch_completed.                                                     *)
SaveCheckpoint(w) ==
  /\ At(w, "extract_graph") /\ IsCurrent(w)
  /\ checkpoints < Batches
  /\ checkpoints' = checkpoints + 1
  /\ UNCHANGED <<row, history, tombstones, coordinator, job, stores, late, remover, faults>>

(* Extraction ends by itself, with whatever batches it could get.          *)
GraphExtracted(w) ==
  /\ At(w, "extract_graph")
  /\ Proceed(w)
  /\ UNCHANGED <<record, coordinator, stores, late, remover, faults>>

(* mark_completed; an answer lost after the commit sends the worker to its *)
(* failure path, which finds the row no longer active.                     *)
Complete(w) ==
  /\ At(w, "mark_completed") /\ IsCurrent(w)
  /\ row.stage = "GRAPH_BUILT"
  /\ history' = [history EXCEPT ![row.attempt] = "READY"]
  /\ \E g \in GraphStatuses, rebuild \in Rebuilds :
       /\ g = "GRAPH_READY" => checkpoints = Batches /\ rebuild = "open"
       /\ row' = Completed(row, g, rebuild)
       /\ \/ /\ g = "GRAPH_READY"
             /\ Proceed(w)
             /\ UNCHANGED queued
          \/ /\ g # "GRAPH_READY"
             /\ Release(w)
          \/ /\ job' = [job EXCEPT ![w].at = "failing"]
             /\ UNCHANGED queued
  /\ UNCHANGED <<checkpoints, tombstones, life, queue, retrying, stores, late, remover, faults>>

(* clear_graph_checkpoints checks neither task nor owner; its own failure  *)
(* is only logged.                                                         *)
ClearCheckpoints(w) ==
  /\ At(w, "clear_checkpoints")
  /\ checkpoints' \in {0, checkpoints}
  /\ Release(w)
  /\ UNCHANGED <<row, history, tombstones, life, queue, retrying, stores, late, remover, faults>>

(* Any statement may raise, a remote one without saying what it did.       *)
Raise(w) ==
  /\ Works(w) /\ job[w].at \in Steps
  /\ job' = [job EXCEPT ![w].at = "failing"]
  /\ MayOutlive(InFlight(w))
  /\ UNCHANGED <<record, coordinator, stores, remover, faults>>

(* cleanup_graph_attempt, then cleanup_vectors of this task unless the     *)
(* first one raised; errors are logged and change nothing else.            *)
CleanUp(w) ==
  LET abort == Op("abort", job[w].task)
      delete == Op("delete", job[w].task)
  IN \/ MayOutlive({abort}) /\ UNCHANGED stores
     \/ /\ ~Refused(abort)
        /\ fence' = Advance(fence, GraphWrite(abort))
        /\ graph' = 0
        /\ \/ vectors' = vectors \ {job[w].task} /\ UNCHANGED late
           \/ UNCHANGED vectors /\ MayOutlive({delete})

(* fail_current, to the end even when its process is stopping.             *)
Fail(w) ==
  /\ job[w].at = "failing" /\ IsCurrent(w)
  /\ CleanUp(w)
  /\ \E retryable \in BOOLEAN : row' = Failed(row, retryable)
  /\ history' = [history EXCEPT ![row.attempt] = "FAILED"]
  /\ Release(w)
  /\ UNCHANGED <<checkpoints, tombstones, life, queue, retrying, remover, faults>>

(* PostgreSQL refuses mark_failed after the cleanup: the row stays active  *)
(* until its lease runs out.                                               *)
FailureNotRecorded(w) ==
  /\ job[w].at = "failing" /\ IsCurrent(w)
  /\ faults < MaxFaults /\ faults' = faults + 1
  /\ CleanUp(w)
  /\ Release(w)
  /\ UNCHANGED <<record, life, queue, retrying, remover>>

(* "Skipped cleanup for superseded attempt".                               *)
FailureSuperseded(w) ==
  /\ job[w].at = "failing" /\ ~IsCurrent(w)
  /\ Release(w)
  /\ UNCHANGED <<record, life, queue, retrying, stores, late, remover, faults>>

-----------------------------------------------------------------------------
(* Leases, crashes and shutdown.                                           *)

Executing(w) == job[w] # Idle /\ IsCurrent(w)

(* The heartbeat task runs from the first step to the end of the failure   *)
(* path.                                                                   *)
Heartbeat(w) ==
  /\ job[w].at \in Steps \cup {"failing"} /\ IsCurrent(w)
  /\ row.lease = "expired"
  /\ row' = [row EXCEPT !.lease = "live"]
  /\ UNCHANGED <<history, checkpoints, tombstones, coordinator, job, stores, late, remover,
                 faults>>

LeaseExpires ==
  /\ row.lease = "live"
  /\ ~\E w \in Workers : Executing(w)
  /\ row' = [row EXCEPT !.lease = "expired"]
  /\ UNCHANGED <<history, checkpoints, tombstones, coordinator, job, stores, late, remover,
                 faults>>

(* The owner is alive, but its heartbeat waited longer than the lease: for *)
(* the row lock its own remote operation holds, or for the event loop.     *)
LeaseLost ==
  /\ row.lease = "live"
  /\ \E w \in Workers : Executing(w)
  /\ faults < MaxFaults /\ faults' = faults + 1
  /\ row' = [row EXCEPT !.lease = "expired"]
  /\ UNCHANGED <<history, checkpoints, tombstones, coordinator, job, stores, late, remover>>

SomeOtherUp(i) == \E other \in Instances \ {i} : Up(other)

(* Everything the process held is gone, the requests it had sent are not.  *)
GoDown(i) ==
  /\ life' = [life EXCEPT ![i] = "down"]
  /\ queue' = [queue EXCEPT ![i] = <<>>]
  /\ queued' = [queued EXCEPT ![i] = {}]
  /\ retrying' = [retrying EXCEPT ![i] = 0]
  /\ job' = [w \in Workers |-> IF Home[w] = i THEN Idle ELSE job[w]]
  /\ UNCHANGED <<record, remover, faults>>

WorkersOf(i) == {w \in Workers : Home[w] = i}

(* A process that is killed in its failure path has got as far as CleanUp. *)
Crash(i) ==
  /\ life[i] # "down" /\ SomeOtherUp(i)
  /\ \/ MayOutlive(UNION {InFlight(w) : w \in WorkersOf(i)}) /\ UNCHANGED stores
     \/ \E w \in WorkersOf(i) : job[w].at = "failing" /\ IsCurrent(w) /\ CleanUp(w)
  /\ GoDown(i)

(* stop(): the workers are cancelled; the last one gone, so is the process.*)
Stop(i) ==
  /\ Up(i) /\ SomeOtherUp(i)
  /\ life' = [life EXCEPT ![i] = "stopping"]
  /\ UNCHANGED <<record, queue, queued, retrying, job, stores, late, remover, faults>>

(* CancelledError at the statement the worker waits for: a remote call is  *)
(* drained first, then the lease is given back if it is still the worker's.*)
Cancel(w) ==
  /\ life[Home[w]] = "stopping"
  /\ job[w].at \in Steps \cup {"claimed", "clear_checkpoints"}
  /\ row' = IF job[w].at # "claimed" /\ IsCurrent(w) THEN Unleased(row) ELSE row
  /\ MayOutlive(InFlight(w))
  /\ Release(w)
  /\ UNCHANGED <<history, checkpoints, tombstones, life, queue, retrying, stores, remover,
                 faults>>

Stopped(i) ==
  /\ life[i] = "stopping"
  /\ \A w \in WorkersOf(i) : job[w] = Idle
  /\ GoDown(i)
  /\ UNCHANGED <<stores, late>>

-----------------------------------------------------------------------------
(* The retry endpoint: a new attempt, then the source check, then submit.  *)

RetryUpload(i) ==
  /\ life[i] # "down" /\ retrying[i] = 0
  /\ CanReprocess(row)
  /\ row.stage = "READY" => row.rebuild # "notDue"
  /\ row' = NextAttempt(row)
  /\ history' = [history EXCEPT ![row.attempt + 1] = "UPLOADED"]
  /\ retrying' = [retrying EXCEPT ![i] = row.attempt + 1]
  /\ UNCHANGED <<checkpoints, tombstones, life, queue, queued, job, stores, late, remover,
                 faults>>

RetryQueued(i) ==
  /\ retrying[i] # 0
  /\ Submit(i, retrying[i])
  /\ retrying' = [retrying EXCEPT ![i] = 0]
  /\ UNCHANGED <<record, life, job, stores, late, remover, faults>>

(* The source is missing, or storage cannot say: mark_failed names the task*)
(* but no owner, so it also ends an attempt a worker has already claimed.  *)
RetrySourceFails(i) ==
  /\ retrying[i] # 0
  /\ retrying' = [retrying EXCEPT ![i] = 0]
  /\ IF Active(row) /\ row.attempt = retrying[i]
     THEN /\ \E retryable \in BOOLEAN : row' = Failed(row, retryable)
          /\ history' = [history EXCEPT ![row.attempt] = "FAILED"]
     ELSE UNCHANGED <<row, history>>
  /\ UNCHANGED <<checkpoints, tombstones, life, queue, queued, job, stores, late, remover,
                 faults>>

(* graph_retry_not_before passes.                                          *)
RetryDue ==
  /\ row.rebuild = "notDue"
  /\ row' = [row EXCEPT !.rebuild = "open"]
  /\ UNCHANGED <<history, checkpoints, tombstones, coordinator, job, stores, late, remover,
                 faults>>

-----------------------------------------------------------------------------
(* Removal, by the endpoint or resumed by the retention sweep.  Once the   *)
(* flag is committed the admission lock and the row's lock are held to the *)
(* end, so one removal is at work at a time.                               *)

(* A variant with a plausible bug: only the current task has a tombstone.  *)
RequestRemovalOfTask ==
  /\ remover = "none"
  /\ row.stage \in DeletableStages
  /\ row' = MarkedDeleting(row)
  /\ tombstones' = tombstones \cup {row.attempt}
  /\ remover' = "vectors"
  /\ UNCHANGED <<history, checkpoints, coordinator, job, stores, late, faults>>

RequestRemoval ==
  /\ remover = "none"
  /\ row.stage \in DeletableStages
  /\ row' = MarkedDeleting(row)
  /\ tombstones' = tombstones \cup {n \in Attempts : history[n] # "none"}
  /\ remover' = "vectors"
  /\ UNCHANGED <<history, checkpoints, coordinator, job, stores, late, faults>>

RemovalOp == [vectors |-> Op("delete_all", row.attempt), graph |-> Op("tombstone", row.attempt)]
NextRemoval == [vectors |-> "graph", graph |-> "object", object |-> "row"]

(* cleanup_upload(permanent=True), then the source object.                 *)
RemoveRemote ==
  /\ remover \in DOMAIN NextRemoval
  /\ IF remover \in DOMAIN RemovalOp THEN Apply(RemovalOp[remover]) ELSE UNCHANGED stores
  /\ remover' = NextRemoval[remover]
  /\ UNCHANGED <<record, coordinator, job, late, faults>>

(* delete_document: attempts and checkpoints cascade, tombstones do not.   *)
RemoveRow ==
  /\ remover = "row"
  /\ row' = Removed(row)
  /\ history' = [n \in Attempts |-> "none"]
  /\ checkpoints' = 0
  /\ remover' = "none"
  /\ UNCHANGED <<tombstones, coordinator, job, stores, late, faults>>

(* An error, or the process dies: rollback, the flag stays.                *)
RemovalFails ==
  /\ remover # "none"
  /\ remover' = "none"
  /\ MayOutlive(IF remover \in DOMAIN RemovalOp THEN {RemovalOp[remover]} ELSE {})
  /\ UNCHANGED <<record, coordinator, job, stores, faults>>

(* VectorCleanupService.reconcile, again every RECHECK_SECONDS.            *)
SweepVectors(task) ==
  /\ task \in tombstones
  /\ row.stage = "REMOVED"
  /\ vectors' = vectors \ {task}
  /\ UNCHANGED <<record, coordinator, job, graph, fence, late, remover, faults>>

-----------------------------------------------------------------------------
Init ==
  /\ row = NewRow
  /\ history = [n \in Attempts |-> IF n = 1 THEN "UPLOADED" ELSE "none"]
  /\ checkpoints = 0
  /\ tombstones = {}
  /\ life = [i \in Instances |-> "up"]
  /\ queue = [i \in Instances |-> <<>>]
  /\ queued = [i \in Instances |-> {}]
  /\ retrying = [i \in Instances |-> 0]
  /\ job = [w \in Workers |-> Idle]
  /\ vectors = {} /\ graph = 0 /\ fence = NewFence
  /\ late = {}
  /\ remover = "none"
  /\ faults = 0

WorkerStep(w) ==
  \/ Begin(w) \/ Superseded(w) \/ SetStage(w) \/ ReserveChunks(w) \/ FencedWrite(w)
  \/ SaveCheckpoint(w) \/ GraphExtracted(w) \/ Complete(w) \/ ClearCheckpoints(w)
  \/ Raise(w) \/ Fail(w) \/ FailureSuperseded(w) \/ Cancel(w)

Next ==
  \/ \E i \in Instances :
       \/ Recover(i) \/ Dispatch(i)
       \/ RetryUpload(i) \/ RetryQueued(i) \/ RetrySourceFails(i)
       \/ Crash(i) \/ Stop(i) \/ Stopped(i)
  \/ \E w \in Workers :
       \/ Claim(w) \/ ClaimRefused(w) \/ WorkerStep(w) \/ Heartbeat(w)
       \/ BeginFails(w) \/ FailureNotRecorded(w)
  \/ LeaseExpires \/ LeaseLost \/ RetryDue
  \/ RequestRemoval \/ RemoveRemote \/ RemoveRow \/ RemovalFails
  \/ \E task \in Attempts : SweepVectors(task)
  \/ LateLands

Spec == Init /\ [][Next]_vars

(* The dispatcher and the retention loop are timers; an asyncio task that  *)
(* can run does run; the clock runs on.  A claim succeeds again and again  *)
(* only if the row is not locked at each try, and a removal ends only if   *)
(* the stores do not fail every one of its steps for ever: strong fairness.*)
Fairness ==
  /\ \A i \in Instances : WF_vars(Recover(i)) /\ WF_vars(Dispatch(i))
  /\ \A w \in Workers : WF_vars(Claim(w) \/ ClaimRefused(w)) /\ SF_vars(Claim(w))
                         /\ WF_vars(WorkerStep(w))
  /\ WF_vars(LeaseExpires)
  /\ WF_vars(row.deleting /\ RequestRemoval)
  /\ SF_vars(remover = "vectors" /\ RemoveRemote)
  /\ SF_vars(remover = "graph" /\ RemoveRemote)
  /\ SF_vars(remover = "object" /\ RemoveRemote)
  /\ SF_vars(RemoveRow)
  /\ \A task \in Attempts : WF_vars(SweepVectors(task))

FairSpec == Spec /\ Fairness

-----------------------------------------------------------------------------
TypeOK ==
  /\ row \in Rows(Instances)
  /\ history \in [Attempts -> Stages \cup {"none"}]
  /\ checkpoints \in 0..Batches
  /\ tombstones \subseteq Attempts
  /\ life \in [Instances -> {"up", "stopping", "down"}]
  /\ queue \in [Instances -> Seq(Attempts)]
  /\ queued \in [Instances -> SUBSET Attempts]
  /\ retrying \in [Instances -> Attempts \cup {0}]
  /\ job \in [Workers -> Jobs]
  /\ vectors \subseteq Attempts
  /\ graph \in Attempts \cup {0}
  /\ fence \in Fences(Attempts, Attempts)
  /\ late \subseteq [kind : OpKinds, task : Attempts]
  /\ remover \in {"none", "vectors", "graph", "object", "row"}
  /\ faults \in 0..MaxFaults

(* Two executions never both pass the row's check, although one instance   *)
(* may claim an expired lease of its own again and all its workers use one *)
(* owner name: what keeps them apart then is the coordinator's key set.    *)
OneExecution ==
  \A v, w \in Workers : Executing(v) /\ Executing(w) => v = w

(* A key is held exactly while its task waits in the queue or is in a      *)
(* worker's hands: a key lost lets a task run twice, a key left behind     *)
(* would keep its task from ever being submitted again.                    *)
KeysMatchWork ==
  \A i \in Instances :
    /\ queued[i] = {queue[i][n] : n \in DOMAIN queue[i]}
                     \cup {job[w].task : w \in {v \in Workers : Home[v] = i /\ job[v] # Idle}}
    /\ \A m, n \in DOMAIN queue[i] : queue[i][m] = queue[i][n] => m = n
    /\ Len(queue[i]) <= QueueCapacity

(* However workers of one process and of several claim, lose and re-claim  *)
(* work, the coordinator keeps it exclusive: one execution, and a key for  *)
(* each task that waits or is executed.                                    *)
WorkIsExclusive == TypeOK /\ OneExecution /\ KeysMatchWork

(* A READY document has the vectors of the attempt that made it READY: the *)
(* only ones READY retrieval reads.                                        *)
ReadyVectorsCurrent ==
  row.stage = "READY" /\ ~row.deleting => row.attempt \in vectors

(* A READY document shows its own attempt's graph, unless an abort of the  *)
(* very same attempt arrived after it.                                     *)
ReadyGraphCurrent ==
  row.stage = "READY" /\ ~row.deleting =>
    /\ fence.generation = row.attempt /\ ~fence.deleted
    /\ graph = row.attempt \/ fence.aborted

(* Whatever arrives late, a READY document has what readers look for: its  *)
(* own attempt's vectors, and its own attempt's graph.                     *)
ReadyIsCurrent == ReadyVectorsCurrent /\ ReadyGraphCurrent

(* The comment in prepare_stale_recoveries: "Fresh UPLOADED rows have not  *)
(* started yet and keep their original attempt", so that an attempt number *)
(* names one execution and an attempt that was aborted is never READY.     *)
ReadyNeverAborted ==
  row.stage = "READY" => ~(fence.aborted /\ fence.generation = row.attempt)

(* Once the row is gone no concept of the document is in the graph.        *)
RemovedGraphStaysGone == row.stage = "REMOVED" => graph = 0

(* The attempt history agrees with the row: the current attempt shows its  *)
(* stage, every earlier one has ended, no later one exists.                *)
HistorySettled ==
  row.stage # "REMOVED" =>
    \A n \in Attempts :
      IF n = row.attempt THEN history[n] = row.stage
      ELSE IF n < row.attempt THEN history[n] \in DeletableStages
      ELSE history[n] = "none"

(* A vector that a late request may still bring back, or that a failed     *)
(* cleanup left, has a tombstone once its document is gone.                *)
OrphansAreTracked ==
  row.stage = "REMOVED" =>
    vectors \cup {op.task : op \in {o \in late : o.kind = "upsert"}} \subseteq tombstones

(* What a removed document leaves is nothing, or known to the sweep, also  *)
(* while requests of dead executions may still arrive.                     *)
RemovedStaysGone == RemovedGraphStaysGone /\ OrphansAreTracked

(* A saved batch is never lost to a failure, a retry or a recovery: only a *)
(* complete graph or the removal of the document drops checkpoints.        *)
CheckpointsKept ==
  [][checkpoints' < checkpoints =>
       row'.stage = "REMOVED" \/ (row.stage = "READY" /\ row.graphStatus = "GRAPH_READY")]_vars

(* Whatever stops or crashes, work that was accepted ends in READY or      *)
(* FAILED: the sweep recovers what a lost execution left, up to the limit. *)
WorkSettles == Active(row) ~> ~Active(row)

(* A requested removal is carried out, whichever of its steps failed first:*)
(* the retention loop resumes it until the row is gone.                    *)
RemovalCompletes == row.deleting ~> row.stage = "REMOVED"

(* Vectors that an accepted request brings back after the removal are swept*)
(* away by the tombstones, and from some time on there are none.           *)
VectorsDrained == row.stage = "REMOVED" ~> [](vectors = {})

(* A requested removal ends and leaves nothing behind for good, although   *)
(* its steps fail and requests of dead executions come late (retention     *)
(* loop, vector tombstones).                                               *)
RemovalLeavesNothing == RemovalCompletes /\ VectorsDrained

-----------------------------------------------------------------------------
(* What its owner is told of the document, and what readers find, who look *)
(* for READY documents that are not being removed.                         *)
OutcomeOf(r, stage, n) ==
  CASE stage = "none"         -> "none"
    [] stage \in ActiveStages -> "open"
    [] stage = "FAILED"       -> IF n = r.attempt /\ ~r.retryable THEN "rejected" ELSE "failed"
    [] OTHER                  -> IF n = r.attempt /\ r.graphStatus = "GRAPH_READY"
                                 THEN "complete" ELSE "partial"
Outcome == [n \in Attempts |-> OutcomeOf(row, history[n], n)]
Removal == IF row.stage = "REMOVED" THEN "done" ELSE IF row.deleting THEN "requested" ELSE "none"
Found == row.stage = "READY" /\ ~row.deleting
Passages == IF Found /\ row.attempt \in vectors THEN row.attempt ELSE 0
Concepts == IF Found THEN graph ELSE 0

Promise == INSTANCE UploadJob WITH
  attempt <- row.attempt, outcome <- Outcome, saved <- checkpoints, removal <- Removal,
  passages <- Passages, concepts <- Concepts

(***************************************************************************)
(* However processes, leases, lost answers and late requests interleave,   *)
(* the document moves as UploadJob says: its attempts follow each other and*)
(* end once, a complete or rejected one is not tried again, saved batches  *)
(* stay, what is found is the READY attempt's own, and a removal is final. *)
(***************************************************************************)
PromiseKept == Promise!Spec
=============================================================================
