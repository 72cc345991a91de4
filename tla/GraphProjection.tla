-------------------------- MODULE GraphProjection --------------------------
(***************************************************************************)
(* One upload's projection in Neo4j under the writers that outlive their   *)
(* callers.  PostgreSQL authorises a write (the upload's attempt counter   *)
(* and its phase); the write itself is one managed Neo4j transaction whose *)
(* commit may come late, more than once (execute_write retries the whole   *)
(* callback after an ambiguous commit) or never, whatever has happened in  *)
(* PostgreSQL meanwhile.  "sent" holds every transaction ever started and  *)
(* Land lets any of them reach the store at any time and any number of     *)
(* times: the orders, losses and duplicates of the network are all there.  *)
(***************************************************************************)
EXTENDS ProjectionFence

CONSTANTS MaxAttempts,   \* bound on attempt_count (MAX_GRAPH_PROCESSING_ATTEMPTS)
          Digests        \* the canonical hashes a graph or a draft may have

ASSUME MaxAttemptsAssumption == MaxAttempts \in Nat \ {0}
ASSUME NoDigestAssumption == NoDigest \notin Digests
ASSUME NoTaskAssumption == NoTask \notin Nat

VARIABLES attempt,    \* document_uploads.attempt_count; it also names the attempt's task
          phase,      \* what PostgreSQL currently authorises
          sent,       \* fenced transactions started so far
          tombstone,  \* tombstone_graph_publication was called
          committed,  \* transactions the store committed at least once
          fence,      \* (:GraphProjectionFence)
          concepts,   \* the upload's Concept nodes: who wrote them and their digest
          markers     \* the upload's (:GraphPublication) nodes

vars == <<attempt, phase, sent, tombstone, committed, fence, concepts, markers>>

(* "closing" is an active row whose execution has begun to clean up.       *)
Phases == {"active", "closing", "ready", "failed", "removing"}
Attempts == 1..MaxAttempts

NoConcepts == [generation |-> 0, digest |-> NoDigest]
Stamps == [generation : Nat, digest : Digests \cup {NoDigest}]

Write(mode, digest) ==
  [mode |-> mode, generation |-> attempt, task |-> attempt, digest |-> digest]

SentInMode(mode) == {w \in sent : w.mode = mode /\ w.generation = attempt}

TypeOK ==
  /\ attempt \in Attempts
  /\ phase \in Phases
  /\ sent \subseteq Writes(Attempts, Digests)
  /\ committed \subseteq sent
  /\ tombstone \in BOOLEAN
  /\ fence \in Fences(Attempts, Digests)
  /\ concepts \in Stamps
  /\ markers \subseteq Stamps

Init ==
  /\ attempt = 1
  /\ phase = "active"
  /\ sent = {}
  /\ tombstone = FALSE
  /\ committed = {}
  /\ fence = NewFence
  /\ concepts = NoConcepts
  /\ markers = {}

-----------------------------------------------------------------------------
(* PostgreSQL: the upload row.                                             *)

(* prepare_stale_recoveries (from active) and retry_upload (from READY or  *)
(* a retryable FAILED): a new task and the next attempt number.            *)
NextAttempt ==
  /\ phase # "removing"
  /\ attempt < MaxAttempts
  /\ attempt' = attempt + 1
  /\ phase' = "active"
  /\ UNCHANGED <<sent, tombstone, committed, fence, concepts, markers>>

(* mark_completed, reached only after this attempt's replacement returned. *)
MarkReady ==
  /\ phase = "active"
  /\ SentInMode("baseline") \cap committed # {}
  /\ phase' = "ready"
  /\ UNCHANGED <<attempt, sent, tombstone, committed, fence, concepts, markers>>

(* fail_current's mark_failed, or a retry request that lost its source.    *)
MarkFailed ==
  /\ phase \in {"active", "closing"}
  /\ phase' = "failed"
  /\ UNCHANGED <<attempt, sent, tombstone, committed, fence, concepts, markers>>

(* claim_for_processing gives a row that never left UPLOADED to another    *)
(* worker under the SAME attempt, even if an execution already died in its *)
(* failure path; such an execution wrote no graph.                         *)
ClaimAgain ==
  /\ phase = "closing"
  /\ SentInMode("baseline") = {}
  /\ phase' = "active"
  /\ UNCHANGED <<attempt, sent, tombstone, committed, fence, concepts, markers>>

(* lock_for_deletion commits the irrevocable removal flag.                 *)
RequestRemoval ==
  /\ phase \in {"ready", "failed"}
  /\ phase' = "removing"
  /\ UNCHANGED <<attempt, sent, tombstone, committed, fence, concepts, markers>>

-----------------------------------------------------------------------------
(* Transactions started under the row lock of their attempt.               *)

(* One execution extracts one graph, so an attempt has one baseline.       *)
SendBaseline ==
  /\ phase = "active"
  /\ SentInMode("baseline") = {}
  /\ \E d \in Digests : sent' = sent \cup {Write("baseline", d)}
  /\ UNCHANGED <<attempt, phase, tombstone, committed, fence, concepts, markers>>

(* fail_current: cleanup_graph_attempt; the execution is over.             *)
SendAbort ==
  /\ phase = "active"
  /\ phase' = "closing"
  /\ sent' = sent \cup {Write("abort", NoDigest)}
  /\ UNCHANGED <<attempt, tombstone, committed, fence, concepts, markers>>

(* publish_publication writes the job's one immutable draft; a job can be  *)
(* reclaimed and its draft published again with the same digest.           *)
SendPublication ==
  /\ phase = "ready"
  /\ \E d \in Digests :
       /\ \A w \in SentInMode("publication") : w.digest = d
       /\ sent' = sent \cup {Write("publication", d)}
  /\ UNCHANGED <<attempt, phase, tombstone, committed, fence, concepts, markers>>

SendTombstone ==
  /\ phase = "removing"
  /\ tombstone' = TRUE
  /\ UNCHANGED <<attempt, phase, sent, committed, fence, concepts, markers>>

-----------------------------------------------------------------------------
(* Neo4j.                                                                  *)

(* One committed run of replace_graph_extraction's or cleanup_graph_       *)
(* attempt's callback: fence, delete the upload's concepts, write the new  *)
(* ones; a baseline drops the markers, a publication leaves its own.       *)
Commit(w) ==
  /\ Admits(fence, w)
  /\ fence' = Advance(fence, w)
  /\ concepts' = IF w.mode = "abort" THEN NoConcepts
                 ELSE [generation |-> w.generation, digest |-> w.digest]
  /\ markers' = IF w.mode = "publication"
                THEN markers \cup {[generation |-> w.generation, digest |-> w.digest]}
                ELSE {}
  /\ committed' = committed \cup {w}
  /\ UNCHANGED <<attempt, phase, sent, tombstone>>

(* A transaction the fence refuses raises, and rolls back: no step.        *)
Land == \E w \in sent : Commit(w)

(* tombstone_graph_publication, possibly again and again.                  *)
LandTombstone ==
  /\ tombstone
  /\ fence' = Close(fence)
  /\ concepts' = NoConcepts
  /\ markers' = {}
  /\ UNCHANGED <<attempt, phase, sent, tombstone, committed>>

-----------------------------------------------------------------------------
Next ==
  \/ NextAttempt \/ MarkReady \/ MarkFailed \/ ClaimAgain \/ RequestRemoval
  \/ SendBaseline \/ SendAbort \/ SendPublication \/ SendTombstone
  \/ Land \/ LandTombstone

Spec == Init /\ [][Next]_vars

-----------------------------------------------------------------------------
(* Safety.                                                                 *)

(* A READY upload holds the fence with its own attempt, and shows that     *)
(* attempt's graph unless an execution of the same attempt began a cleanup:*)
(* no late, repeated or reordered transaction of an older attempt takes    *)
(* the acknowledged replacement away.                                      *)
ReadyShowsItsAttempt ==
  phase = "ready" =>
    /\ fence.generation = attempt /\ ~fence.deleted
    /\ SentInMode("abort") = {} => concepts.generation = attempt

(* Once the store committed a continuation's publication the READY upload  *)
(* shows exactly that graph: the attempt's delayed baseline cannot put the *)
(* poorer graph back, a delayed abort cannot empty it.                     *)
PublicationIsNotUndone ==
  phase = "ready" =>
    \A w \in SentInMode("publication") \cap committed :
      concepts = [generation |-> attempt, digest |-> w.digest]

(* publish_publication trusts a marker instead of writing again: whenever  *)
(* a marker is readable the projection is the one that marker names.       *)
MarkerNamesProjection == markers \subseteq {concepts}

(* After the tombstone committed nothing brings the projection or a marker *)
(* back, whatever was in flight; and a closed attempt stays empty.         *)
ClosedStaysEmpty ==
  (fence.deleted \/ fence.aborted) => concepts = NoConcepts /\ markers = {}

(* The fence never goes back to an older attempt, never forgets a          *)
(* deletion, and within one attempt never forgets a publication.           *)
FenceOnlyAdvances ==
  [][/\ fence'.generation >= fence.generation
     /\ fence.deleted => fence' = fence
     /\ (fence'.generation = fence.generation /\ fence.payload # NoDigest)
          => fence'.payload = fence.payload]_vars
=============================================================================
