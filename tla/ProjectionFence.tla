-------------------------- MODULE ProjectionFence --------------------------
(***************************************************************************)
(* The generation fence of one upload's Neo4j projection: the node         *)
(* (:GraphProjectionFence {upload_id}) and the rule by which a write       *)
(* transaction is admitted.  IngestionService._fence_graph_projection runs *)
(* as the first statement of every fenced transaction; its SET takes the   *)
(* node's write lock, so the transactions of one upload are serial and     *)
(* each one reads the fence its predecessor left.                          *)
(*                                                                         *)
(* A write names the PostgreSQL attempt that authorised it (generation and *)
(* task), its mode and the digest of the graph it publishes.  The course   *)
(* of an upload never changes, so the course comparison is left out.       *)
(***************************************************************************)
EXTENDS Naturals

CONSTANTS NoTask,      \* fence.document_task_id before any write
          NoDigest     \* a digest property that is null

Modes == {"baseline", "publication", "abort"}

Writes(Tasks, Digests) ==
  [mode : Modes, generation : Nat, task : Tasks, digest : Digests \cup {NoDigest}]

Fences(Tasks, Digests) ==
  [generation : Nat, task : Tasks \cup {NoTask}, aborted : BOOLEAN, deleted : BOOLEAN,
   payload : Digests \cup {NoDigest}, baseline : Digests \cup {NoDigest}]

NewFence ==
  [generation |-> 0, task |-> NoTask, aborted |-> FALSE, deleted |-> FALSE,
   payload |-> NoDigest, baseline |-> NoDigest]

(* A variant with a plausible bug: a baseline replay after the publication.*)
SameAttemptReplays(f, w) ==
  /\ w.generation = f.generation
  /\ w.task = f.task
  /\ \/ w.mode = "publication" /\ ~f.aborted /\ f.payload \in {NoDigest, w.digest}
     \/ w.mode = "baseline" /\ ~f.aborted /\ f.baseline \in {NoDigest, w.digest}
     \/ w.mode = "abort" /\ f.payload = NoDigest

(***************************************************************************)
(* What the generation that already holds the fence may still do: replay   *)
(* its own baseline, advance to (or replay) one publication, or close      *)
(* itself as long as nothing was published.                                *)
(***************************************************************************)
SameAttemptAdmits(f, w) ==
  /\ w.generation = f.generation
  /\ w.task = f.task
  /\ \/ /\ w.mode = "publication"
        /\ ~f.aborted
        /\ f.payload \in {NoDigest, w.digest}
     \/ /\ w.mode = "baseline"
        /\ ~f.aborted
        /\ f.payload = NoDigest
        /\ f.baseline \in {NoDigest, w.digest}
     \/ /\ w.mode = "abort"
        /\ f.payload = NoDigest

(* Variants with a plausible bug: generations not compared, the deletion   *)
(* mark not tested.                                                        *)
AdmitsAnyGeneration(f, w) == ~f.deleted
AdmitsAfterDeletion(f, w) == w.generation > f.generation \/ SameAttemptAdmits(f, w)

Admits(f, w) ==
  /\ ~f.deleted
  /\ w.generation > f.generation \/ SameAttemptAdmits(f, w)

Advance(f, w) ==
  [f EXCEPT !.generation = w.generation,
            !.task = w.task,
            !.aborted = (w.mode = "abort"),
            !.payload = IF w.mode = "publication" THEN w.digest ELSE NoDigest,
            !.baseline = IF w.mode = "baseline" THEN w.digest ELSE NoDigest]

(* tombstone_graph_publication closes the fence to every later generation. *)
Close(f) == [f EXCEPT !.deleted = TRUE]
=============================================================================
