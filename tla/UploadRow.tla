------------------------------ MODULE UploadRow ------------------------------
(***************************************************************************)
(* One row of document_uploads and what UploadService's transactions do to *)
(* it.  Every transaction locks the row first, so each is one function of  *)
(* the row.  The task UUID is minted exactly where attempt_count changes   *)
(* (create_upload, prepare_stale_recoveries, retry_upload): the attempt    *)
(* number stands for both.  status is a function of stage: active, ready,  *)
(* failed, or no row at all ("REMOVED").                                   *)
(***************************************************************************)
EXTENDS Naturals, Sequences

CONSTANTS NoOwner,                     \* lease_owner is null
          MaxProcessingAttempts,       \* MAX_PROCESSING_ATTEMPTS
          MaxGraphProcessingAttempts   \* MAX_GRAPH_PROCESSING_ATTEMPTS

ASSUME AttemptLimitsAssumption ==
  /\ MaxProcessingAttempts \in Nat \ {0}
  /\ MaxGraphProcessingAttempts \in Nat
  /\ MaxProcessingAttempts <= MaxGraphProcessingAttempts

Attempts == 1..MaxGraphProcessingAttempts

ActiveStages == {"UPLOADED", "EXTRACTING", "EXTRACTED", "CHUNKING", "CHUNKED", "EMBEDDING",
                 "EMBEDDED", "BUILDING_GRAPH", "GRAPH_BUILT"}
DeletableStages == {"READY", "FAILED"}
Stages == ActiveStages \cup DeletableStages \cup {"REMOVED"}

(* The lease as the database clock sees it.                                *)
Leases == {"none", "live", "expired"}
GraphStatuses == {"GRAPH_READY", "GRAPH_PARTIAL", "READY_WITHOUT_GRAPH"}

(* What result_json says of another graph attempt: possible, possible once *)
(* graph_retry_not_before has passed, or recovery_exhausted.               *)
Rebuilds == {"open", "notDue", "exhausted"}

Rows(Owners) ==
  [stage : Stages, attempt : Attempts, owner : Owners \cup {NoOwner}, lease : Leases,
   retryable : BOOLEAN, graphStatus : GraphStatuses \cup {"none"}, rebuild : Rebuilds,
   deleting : BOOLEAN]

NewRow ==
  [stage |-> "UPLOADED", attempt |-> 1, owner |-> NoOwner, lease |-> "none",
   retryable |-> FALSE, graphStatus |-> "none", rebuild |-> "open", deleting |-> FALSE]

Active(r) == r.stage \in ActiveStages

(* _get_current_upload with a lease owner, and the status test after it.   *)
Current(r, task, owner) == Active(r) /\ r.attempt = task /\ r.owner = owner

(* list_dispatchable.                                                      *)
Dispatchable(r) == r.stage = "UPLOADED" /\ r.lease # "live"

(* A variant with a plausible bug: only released leases, not expired ones. *)
InterruptedUnleased(r) == Active(r) /\ r.stage # "UPLOADED" /\ r.lease = "none"

(* What prepare_stale_recoveries looks for.                                *)
Interrupted(r) == Active(r) /\ r.stage # "UPLOADED" /\ r.lease # "live"

(* claim_for_processing: the owner of a live lease may claim again.        *)
Claimable(r, task, owner) ==
  /\ r.attempt = task
  /\ r.stage = "UPLOADED"
  /\ r.lease = "live" => r.owner = owner

(* A variant with a plausible bug: the state of the graph is not tested.   *)
CanReprocessComplete(r) ==
  /\ ~r.deleting
  /\ \/ r.stage = "FAILED" /\ r.retryable /\ r.attempt < MaxProcessingAttempts
     \/ /\ r.stage = "READY" /\ r.rebuild # "exhausted"
        /\ r.attempt < MaxGraphProcessingAttempts

CanReprocess(r) ==
  /\ ~r.deleting
  /\ \/ /\ r.stage = "FAILED" /\ r.retryable
        /\ r.attempt < MaxProcessingAttempts
     \/ /\ r.stage = "READY"
        /\ r.graphStatus \in {"GRAPH_PARTIAL", "READY_WITHOUT_GRAPH"}
        /\ r.rebuild # "exhausted"
        /\ r.attempt < MaxGraphProcessingAttempts

Leased(r, owner) == [r EXCEPT !.owner = owner, !.lease = "live"]
Unleased(r) == [r EXCEPT !.owner = NoOwner, !.lease = "none"]

(* set_stage renews the lease with every stage.                            *)
Staged(r, stage) == [r EXCEPT !.stage = stage, !.lease = "live"]

NextAttempt(r) ==
  [Unleased(r) EXCEPT !.stage = "UPLOADED", !.attempt = r.attempt + 1, !.retryable = FALSE,
                      !.graphStatus = "none", !.rebuild = "open"]

Completed(r, graphStatus, rebuild) ==
  [Unleased(r) EXCEPT !.stage = "READY", !.graphStatus = graphStatus, !.rebuild = rebuild,
                      !.retryable = FALSE]

(* mark_failed: only an attempt below the limit stays retryable.           *)
Failed(r, retryable) ==
  [Unleased(r) EXCEPT !.stage = "FAILED",
                      !.retryable = retryable /\ r.attempt < MaxProcessingAttempts]

(* lock_for_deletion: the removal flag lives in result_json.               *)
MarkedDeleting(r) == [r EXCEPT !.deleting = TRUE]

(* delete_document: what is left is the attempt number, in the tombstones. *)
Removed(r) == [NewRow EXCEPT !.stage = "REMOVED", !.attempt = r.attempt, !.deleting = TRUE]
=============================================================================
