-------------------------- MODULE GraphContinuation --------------------------
(***************************************************************************)
(* Graph continuation jobs: a READY document whose graph stopped at a      *)
(* provider's limit is given a job that finishes the extraction later and  *)
(* publishes the better graph.  A worker's claim is a token and a lease;   *)
(* what it may do is tested again in each of its transactions              *)
(* (_locked_claim).  The remote write is bracketed by two records: an      *)
(* intent committed before it and a receipt committed with the completion, *)
(* after the marker that the write leaves in Neo4j was read.               *)
(*                                                                         *)
(* The document's attempts and the store are those of GraphProjection,     *)
(* where any transaction once sent may commit at any time, repeatedly or   *)
(* never.  There is one document and so one job, and a job is named by the *)
(* attempt it was staged for; its claim token is the number of the claim.  *)
(***************************************************************************)
EXTENDS Naturals, FiniteSets

CONSTANTS Workers,
          Baselines,      \* the hash an attempt's own graph may have
          Drafts,         \* the hash a finished draft may have
          NoTask, NoDigest,
          MaxAttempts,          \* MAX_GRAPH_PROCESSING_ATTEMPTS
          DocumentAttempts      \* bound on the attempts of the document itself

ASSUME MaxAttemptsAssumption == MaxAttempts \in Nat \ {0}
ASSUME DocumentAttemptsAssumption == DocumentAttempts \in 1..MaxAttempts
ASSUME NoTaskAssumption == NoTask \notin Nat
ASSUME DisjointAssumption == Baselines \cap Drafts = {} /\ NoDigest \notin Baselines \cup Drafts

VARIABLES attempt, phase, sent, tombstone, committed, fence, concepts, markers

Projection == INSTANCE GraphProjection WITH Digests <- Baselines \cup Drafts

VARIABLES
  result,    \* result_json of a READY row: the graph it counts, may it be rebuilt, and now
  aged,      \* the document is older than the retention period
  gone,      \* the row is deleted
  job,       \* graph_continuation_jobs
  draft,     \* graph_publication_drafts: the job's digest
  intents,   \* graph_publication_intents: the digest by job
  receipts,  \* graph_publication_receipts
  cleanups,  \* graph_publication_cleanup_receipts
  worker     \* the step and the claim of each worker

document == <<attempt, phase, result, aged, gone>>
store == <<sent, tombstone, committed, fence, concepts, markers>>
evidence == <<intents, receipts, cleanups>>
vars == <<document, store, job, draft, evidence, worker>>

Attempts == 1..MaxAttempts
Statuses == {"pending", "running", "stopped", "completed"}
Reasons == {"none", "superseded", "retention_expired", "attempt_limit", "incompatible_snapshot"}

NoJob == [task |-> 0, status |-> "stopped", why |-> "none", tries |-> 0, lease |-> "none",
          due |-> FALSE, body |-> FALSE, changed |-> FALSE]

(* stage_for_ready: no claim yet, not due before the provider's reset.     *)
NewJob(task) ==
  [NoJob EXCEPT !.task = task, !.status = "pending", !.body = TRUE]

(* max_attempts: what the document's own attempts have left over.          *)
MaxTries(task) == MaxAttempts - task

NoResult == [digest |-> NoDigest, open |-> FALSE, due |-> FALSE]
Off == [at |-> "idle", task |-> 0, try |-> 0]

Stop(j, reason) == [j EXCEPT !.status = "stopped", !.why = reason, !.lease = "none"]

-----------------------------------------------------------------------------
(* What the transactions test.                                             *)

(* A publishing worker keeps the document's row locked from its last check *)
(* to its commit.                                                          *)
RowFree == \A w \in Workers : worker[w].at # "publishing"

(* can_reprocess of a READY row.                                           *)
Rebuildable == result.open /\ attempt < MaxAttempts
Ready == phase = "ready" /\ Rebuildable
Current == Ready /\ job.task = attempt

(* The snapshot is there and still matches the batches it was made for.    *)
Intact == job.body /\ ~job.changed

(* _locked_claim.                                                          *)
Holds(w) ==
  /\ Current /\ worker[w].task = job.task
  /\ job.status = "running" /\ worker[w].try = job.tries
  /\ job.lease = "live"

MarkerSeen == [generation |-> attempt, digest |-> draft] \in markers

(* A variant with a plausible bug: a job whose worker was lost is not due. *)
DuePendingOnly == job.status = "pending" /\ job.due

DueNow ==
  \/ job.status = "pending" /\ job.due
  \/ job.status = "running" /\ job.lease = "expired"

StopReason ==
  IF ~Current THEN "superseded"
  ELSE IF aged THEN "retention_expired"
  ELSE IF job.tries >= MaxTries(job.task) THEN "attempt_limit"
  ELSE IF ~Intact THEN "incompatible_snapshot"
  ELSE "none"

-----------------------------------------------------------------------------
(* The document.                                                           *)

Unprocessed == UNCHANGED <<aged, gone, job, draft, evidence, worker>>

(* An execution's own steps: baseline, failure, cleanup, renewed claim.    *)
Process ==
  /\ \/ Projection!SendBaseline /\ \A t \in sent' \ sent : t.digest \in Baselines
     \/ Projection!SendAbort
     \/ Projection!MarkFailed
     \/ Projection!ClaimAgain
  /\ UNCHANGED result /\ Unprocessed

(* mark_completed; with a provider's limit and room for one more snapshot  *)
(* it stages a job in the same transaction, in place of an older attempt's.*)
MarkReady ==
  /\ Projection!MarkReady
  /\ \E t \in Projection!SentInMode("baseline") \cap committed, open, due, limited \in BOOLEAN :
       /\ result' = [digest |-> t.digest, open |-> open, due |-> due /\ ~limited]
       /\ \/ /\ limited /\ open /\ attempt < MaxAttempts
             /\ job' = NewJob(attempt)
             /\ draft' = NoDigest
          \/ UNCHANGED <<job, draft>>
  /\ UNCHANGED <<aged, gone, evidence, worker>>

(* retry_upload of a READY or FAILED row, prepare_stale_recoveries of an   *)
(* active one.                                                             *)
NextAttempt ==
  /\ RowFree /\ attempt < DocumentAttempts
  /\ phase = "ready" => Rebuildable /\ result.due
  /\ Projection!NextAttempt
  /\ result' = NoResult
  /\ Unprocessed

RetryDue ==
  /\ phase = "ready" /\ ~result.due
  /\ result' = [result EXCEPT !.due = TRUE]
  /\ UNCHANGED <<attempt, phase, store>> /\ Unprocessed

(* Time and a release are looked at only where a job reads them.           *)
RetentionPasses ==
  /\ phase = "ready" /\ job.task = attempt
  /\ ~aged /\ aged' = TRUE
  /\ UNCHANGED <<attempt, phase, result, gone, store, job, draft, evidence, worker>>

RequestRemoval ==
  /\ RowFree
  /\ Projection!RequestRemoval
  /\ UNCHANGED result /\ Unprocessed

SendTombstone == Projection!SendTombstone /\ UNCHANGED result /\ Unprocessed

(* delete_document, after its tombstone was acknowledged: job and draft    *)
(* cascade, intents and receipts have no foreign key.                      *)
RemoveRow ==
  /\ RowFree
  /\ phase = "removing" /\ fence.deleted /\ ~gone
  /\ gone' = TRUE
  /\ job' = NoJob /\ draft' = NoDigest /\ result' = NoResult
  /\ UNCHANGED <<attempt, phase, aged, store, evidence, worker>>

Land == Projection!Land /\ UNCHANGED result /\ Unprocessed
LandTombstone == Projection!LandTombstone /\ UNCHANGED result /\ Unprocessed

-----------------------------------------------------------------------------
(* A worker and its claim.                                                 *)

To(w, step) == worker' = [worker EXCEPT ![w].at = step]
Leave(w) == worker' = [worker EXCEPT ![w] = Off]

(* The provider's reset, and the lease as the database clock sees it.      *)
JobDue ==
  /\ job.status = "pending" /\ ~job.due
  /\ job' = [job EXCEPT !.due = TRUE]
  /\ UNCHANGED <<document, store, draft, evidence, worker>>

LeaseExpires ==
  /\ job.lease = "live"
  /\ job' = [job EXCEPT !.lease = "expired"]
  /\ UNCHANGED <<document, store, draft, evidence, worker>>

(* A release with other batch settings: every snapshot's contract differs. *)
Reconfigure ==
  /\ phase = "ready" /\ job.task = attempt /\ ~job.changed
  /\ job' = [job EXCEPT !.changed = TRUE]
  /\ UNCHANGED <<document, store, draft, evidence, worker>>

(* claim_next, in an idle worker.                                          *)
Claim(w) ==
  /\ worker[w] = Off /\ RowFree /\ ~gone
  /\ DueNow
  /\ IF StopReason # "none"
     THEN job' = Stop(job, StopReason) /\ UNCHANGED worker
     ELSE /\ job' = [job EXCEPT !.status = "running", !.tries = @ + 1, !.lease = "live",
                                !.why = "none"]
          /\ worker' = [worker EXCEPT ![w] = [at |-> "claimed", task |-> job.task,
                                              try |-> job.tries + 1]]
  /\ UNCHANGED <<document, store, draft, evidence>>

(* process: a saved draft is resumed without new provider work.            *)
Begin(w) ==
  /\ worker[w].at = "claimed" /\ Holds(w) /\ Intact
  /\ To(w, IF draft = NoDigest THEN "extracting" ELSE "drafted")
  /\ UNCHANGED <<document, store, job, draft, evidence>>

(* extract: a result that was not deferred, under a renewed lease.         *)
Extracted(w) ==
  /\ worker[w].at = "extracting" /\ Holds(w)
  /\ To(w, "extracted")
  /\ UNCHANGED <<document, store, job, draft, evidence>>

(* defer: the provider is at its limit again and said until when.          *)
Defer(w) ==
  /\ worker[w].at = "extracting" /\ Holds(w)
  /\ job' = IF job.tries >= MaxTries(job.task) THEN Stop(job, "attempt_limit")
            ELSE [job EXCEPT !.status = "pending", !.due = FALSE, !.lease = "none"]
  /\ Leave(w)
  /\ UNCHANGED <<document, store, draft, evidence>>

(* prepare_publication and save_publication_draft: one immutable draft.    *)
SaveDraft(w) ==
  /\ worker[w].at = "extracted" /\ Holds(w) /\ Intact
  /\ draft' \in Drafts
  /\ draft \in {NoDigest, draft'}
  /\ To(w, "drafted")
  /\ UNCHANGED <<document, store, job, evidence>>

(* stage_publication_intent, committed before any remote write.            *)
CommitIntent(w) ==
  /\ worker[w].at = "drafted" /\ Holds(w) /\ Intact
  /\ draft # NoDigest /\ intents[job.task] \in {NoDigest, draft}
  /\ intents' = [intents EXCEPT ![job.task] = draft]
  /\ To(w, "intended")
  /\ UNCHANGED <<document, store, job, draft, receipts, cleanups>>

(* A variant with a plausible bug: the claim is not tested again.          *)
PublishUnclaimed(w) ==
  /\ worker[w].at = "intended" /\ RowFree
  /\ draft # NoDigest /\ intents[worker[w].task] = draft
  /\ sent' = IF MarkerSeen THEN sent ELSE sent \cup {Projection!Write("publication", draft)}
  /\ To(w, "publishing")
  /\ UNCHANGED <<document, tombstone, committed, fence, concepts, markers, job, draft, evidence>>

(* publish_publication takes the row lock again, checks everything again   *)
(* and sends the write, unless its marker is already there.                *)
Publish(w) ==
  /\ worker[w].at = "intended" /\ RowFree /\ Holds(w) /\ Intact
  /\ draft # NoDigest /\ intents[job.task] = draft
  /\ sent' = IF MarkerSeen THEN sent ELSE sent \cup {Projection!Write("publication", draft)}
  /\ To(w, "publishing")
  /\ UNCHANGED <<document, tombstone, committed, fence, concepts, markers, job, draft, evidence>>

(* _stage_completed_result and the receipt, in one transaction.            *)
Completed ==
  /\ receipts' = receipts \cup {job.task}
  /\ job' = [job EXCEPT !.status = "completed", !.why = "none", !.lease = "none"]
  /\ \E open \in BOOLEAN : result' = [digest |-> draft, open |-> open, due |-> TRUE]
  /\ UNCHANGED <<attempt, phase, aged, gone, store, draft, intents, cleanups>>

(* A variant with a plausible bug: the marker is not read back.            *)
CompleteUnseen(w) ==
  /\ worker[w].at = "publishing" /\ Holds(w) /\ Intact
  /\ draft # NoDigest /\ intents[job.task] = draft
  /\ Completed
  /\ Leave(w)

(* complete_publication, if the lease has outlasted the remote write.      *)
Complete(w) ==
  /\ worker[w].at = "publishing" /\ Holds(w) /\ Intact
  /\ draft # NoDigest /\ intents[job.task] = draft
  /\ MarkerSeen
  /\ Completed
  /\ Leave(w)

(* An error, a fence's refusal, lost authority, no capacity, cancellation  *)
(* or the end of the process: the claim is left to its lease, an open      *)
(* transaction rolls back, and a request in flight stays in flight.        *)
GiveUp(w) ==
  /\ worker[w].at # "idle"
  /\ Leave(w)
  /\ UNCHANGED <<document, store, job, draft, evidence>>

-----------------------------------------------------------------------------
(* Maintenance and retention.                                              *)

Exhausted ==
  /\ job.tries >= MaxTries(job.task)
  /\ \/ job.status = "stopped" /\ job.why = "attempt_limit"
     \/ job.status = "running" /\ job.lease = "expired"

(* A variant with a plausible bug: the intent alone is taken as evidence.  *)
ReconcileUnseen ==
  /\ RowFree /\ Current /\ ~aged /\ Exhausted /\ Intact
  /\ draft # NoDigest /\ intents[job.task] = draft
  /\ Completed
  /\ UNCHANGED worker

(* reconcile_exhausted_publication reads the marker and writes no graph.   *)
Reconcile ==
  /\ RowFree /\ Current /\ ~aged /\ Exhausted /\ Intact
  /\ draft # NoDigest /\ intents[job.task] = draft
  /\ MarkerSeen
  /\ Completed
  /\ UNCHANGED worker

Unresolved(task) == intents[task] # NoDigest /\ task \notin receipts

(* A variant with a plausible bug: unresolved intents are not looked at.   *)
PruneAll ==
  /\ RowFree
  /\ job.task # 0 /\ job.status \in {"stopped", "completed"}
  /\ job' = [job EXCEPT !.body = FALSE] /\ draft' = NoDigest
  /\ UNCHANGED <<document, store, evidence, worker>>

(* prune_terminal_drafts and prune_terminal_snapshots, in one transaction. *)
Prune ==
  /\ RowFree
  /\ job.task # 0 /\ job.status \in {"stopped", "completed"} /\ ~Unresolved(job.task)
  /\ job' = [job EXCEPT !.body = FALSE] /\ draft' = NoDigest
  /\ UNCHANGED <<document, store, evidence, worker>>

(* A variant with a plausible bug: only acknowledged publications are      *)
(* cleaned up.                                                             *)
CleanUpAcknowledged(task) ==
  /\ gone /\ task \in receipts /\ task \notin cleanups
  /\ Projection!LandTombstone
  /\ cleanups' = cleanups \cup {task}
  /\ UNCHANGED <<result, aged, gone, job, draft, intents, receipts, worker>>

(* reconcile_deleted_source_publication: the tombstone once more, then the *)
(* receipt.                                                                *)
CleanUpIntent(task) ==
  /\ gone /\ intents[task] # NoDigest /\ task \notin cleanups
  /\ Projection!LandTombstone
  /\ cleanups' = cleanups \cup {task}
  /\ UNCHANGED <<result, aged, gone, job, draft, intents, receipts, worker>>

-----------------------------------------------------------------------------
Init ==
  /\ Projection!Init
  /\ result = NoResult /\ aged = FALSE /\ gone = FALSE
  /\ job = NoJob /\ draft = NoDigest
  /\ intents = [task \in Attempts |-> NoDigest]
  /\ receipts = {} /\ cleanups = {}
  /\ worker = [w \in Workers |-> Off]

WorkerStep(w) ==
  \/ Begin(w) \/ Extracted(w) \/ Defer(w) \/ SaveDraft(w) \/ CommitIntent(w)
  \/ Publish(w) \/ Complete(w) \/ GiveUp(w)

Next ==
  \/ Process \/ MarkReady \/ NextAttempt \/ RetryDue \/ RetentionPasses
  \/ RequestRemoval \/ SendTombstone \/ RemoveRow
  \/ Land \/ LandTombstone
  \/ JobDue \/ LeaseExpires \/ Reconfigure
  \/ \E w \in Workers : Claim(w) \/ WorkerStep(w)
  \/ Reconcile \/ Prune
  \/ \E task \in Attempts : CleanUpIntent(task)

Spec == Init /\ [][Next]_vars

(* Idle workers poll for due jobs, asyncio tasks run, clocks run on, and   *)
(* the maintenance and retention loops come round.                         *)
Fairness ==
  /\ WF_vars(JobDue)
  /\ WF_vars(LeaseExpires /\ ~\E w \in Workers : Holds(w))
  /\ \A w \in Workers : WF_vars(Claim(w)) /\ WF_vars(WorkerStep(w))
  /\ WF_vars(Reconcile)
  /\ \A task \in Attempts : WF_vars(CleanUpIntent(task))

FairSpec == Spec /\ Fairness

-----------------------------------------------------------------------------
Results == [digest : Baselines \cup Drafts \cup {NoDigest}, open : BOOLEAN, due : BOOLEAN]
Jobs ==
  [task : Attempts \cup {0}, status : Statuses, why : Reasons, tries : 0..MaxAttempts,
   lease : {"none", "live", "expired"}, due : BOOLEAN, body : BOOLEAN, changed : BOOLEAN]
Steps == {"idle", "claimed", "extracting", "extracted", "drafted", "intended", "publishing"}
Claims == [at : Steps, task : Attempts \cup {0}, try : 0..MaxAttempts]

(* The check constraints of graph_continuation_jobs.                       *)
JobOK ==
  /\ job \in Jobs
  /\ job.status = "running" <=> job.lease # "none"
  /\ job.task # 0 => job.tries <= MaxTries(job.task) /\ MaxTries(job.task) >= 1

TypeOK ==
  /\ result \in Results
  /\ aged \in BOOLEAN /\ gone \in BOOLEAN
  /\ JobOK
  /\ draft \in Drafts \cup {NoDigest}
  /\ intents \in [Attempts -> Drafts \cup {NoDigest}]
  /\ receipts \subseteq Attempts /\ cleanups \subseteq Attempts
  /\ worker \in [Workers -> Claims]

(* A publication is never in flight, nor in the store, without a committed *)
(* intent that names it: the breadcrumb a crash leaves is always enough to *)
(* find what was written.                                                  *)
IntentNamesPublication ==
  \A t \in sent : t.mode = "publication" => intents[t.generation] = t.digest

(* A receipt, and with it a completed job, means that the store committed  *)
(* that very publication.                                                  *)
ReceiptIsTrue ==
  /\ \A task \in receipts :
       [mode |-> "publication", generation |-> task, task |-> task, digest |-> intents[task]]
         \in committed
  /\ job.status = "completed" => job.task \in receipts

(* What PostgreSQL says of a READY document's graph is what Neo4j holds,   *)
(* or an intent without a receipt says that it may not be: the two part    *)
(* only where recovery will look.  (An execution that began a cleanup of   *)
(* the same attempt is the exception stated in GraphProjection.)           *)
ResultDescribesGraph ==
  phase = "ready" /\ Projection!SentInMode("abort") = {} =>
    \/ concepts = [generation |-> attempt, digest |-> result.digest]
    \/ Unresolved(attempt) /\ concepts = [generation |-> attempt, digest |-> intents[attempt]]

(* As long as a publication of the current attempt may have happened and   *)
(* has no receipt, its draft and snapshot are there to finish it with.     *)
EvidenceKept ==
  phase = "ready" /\ Unresolved(attempt) =>
    job.task = attempt /\ job.body /\ draft = intents[attempt]

(* A job that has stopped gets no further claim: only one that ran out of  *)
(* tries may still be completed, on the evidence of its last one.          *)
StoppedForGood ==
  [][job.status = "stopped" /\ job.task # 0 /\ job'.task = job.task =>
       \/ job'.status = "stopped" /\ job'.why = job.why
       \/ job'.status = "completed" /\ job.why = "attempt_limit"]_vars

(* The projection under continuation jobs is the one GraphProjection       *)
(* describes, so that what is proved of it holds here.                     *)
ProjectionSpec == Projection!Spec

(* A job ends, whatever becomes of its workers.                            *)
JobEnds == job.status \in {"pending", "running"} ~> job.status \in {"stopped", "completed"}

(* A publication that reached the store is acknowledged in PostgreSQL,     *)
(* even if the last permitted try died after the remote commit, unless the *)
(* document moved on, outlived its retention or the settings changed.      *)
PublicationRecorded ==
  \A task \in Attempts :
    (phase = "ready" /\ attempt = task /\ \E m \in markers : m.generation = task)
      ~> (task \in receipts \/ phase # "ready" \/ aged \/ job.changed)

(* Every intent of a removed document is cleaned up after.                 *)
IntentsCleanedUp ==
  \A task \in Attempts : gone /\ intents[task] # NoDigest ~> task \in cleanups

(* No intent stays open: what it announced is acknowledged while the       *)
(* document is there, and cleaned up when it is gone.                      *)
IntentsAreClosed == PublicationRecorded /\ IntentsCleanedUp
=============================================================================
