----------------------------- MODULE GraphCapacity -----------------------------
(***************************************************************************)
(* What graph continuation may store: the snapshot bodies of the jobs of   *)
(* all documents, and their drafts (GraphContinuationService.              *)
(* _snapshot_capacity, _draft_capacity).  Transactions of several          *)
(* processes measure and add under one advisory lock; bodies and jobs go   *)
(* without it, when they are pruned, replaced or their document is removed.*)
(* Each transaction holds its document's row throughout.  A limit of 0     *)
(* stands for none.                                                        *)
(***************************************************************************)
EXTENDS Integers, Totals

CONSTANTS Documents, Processes,
          Sizes,                    \* of a body, in bytes
          MaxJobs, MaxBytes,        \* graph_snapshot_max_jobs, graph_snapshot_max_bytes
          MaxDrafts, MaxDraftBytes, \* graph_draft_max_jobs, graph_draft_max_bytes
          MaxTasks                  \* attempts of a document

Nobody == "nobody"

CapacityAssumption ==
  /\ Sizes \subseteq Nat \ {0} /\ IsFiniteSet(Documents) /\ Nobody \notin Processes
  /\ {MaxJobs, MaxBytes, MaxDrafts, MaxDraftBytes, MaxTasks} \subseteq Nat

VARIABLES document,    \* the READY execution of each, 0 when it is removed
          job,         \* its task, and the sizes of its bodies: 0 without one
          lock,        \* who holds conceptgraph:graph-snapshot-admission
          transaction

vars == <<document, job, lock, transaction>>

NoJob == [task |-> 0, status |-> "none", snapshot |-> 0, draft |-> 0]
NoTransaction == [at |-> "none"]
Kinds == {"snapshot", "draft"}

Init ==
  /\ document = [ d \in Documents |-> 1 ]
  /\ job = [ d \in Documents |-> NoJob ]
  /\ lock = Nobody
  /\ transaction = [ p \in Processes |-> NoTransaction ]

Free(d) == \A p \in Processes : transaction[p].at # "none" => transaction[p].document # d

Limits(kind) == IF kind = "snapshot" THEN <<MaxJobs, MaxBytes>> ELSE <<MaxDrafts, MaxDraftBytes>>

Bodies(kind) == { d \in Documents : job[d][kind] # 0 }
Bytes(kind, S) == Total([ d \in S |-> job[d][kind] ])

\* Whether bodies of so many documents and bytes are within the limits.
Within(kind, count, bytes) ==
  LET limits == Limits(kind)
  IN  (limits[1] = 0 \/ count <= limits[1]) /\ (limits[2] = 0 \/ bytes <= limits[2])

-----------------------------------------------------------------------------
\* A transaction that adds a body: of a document that has become READY, or of a claimed job.

Wanted(d, kind) ==
  IF kind = "snapshot" THEN document[d] # 0 /\ job[d].task # document[d]
  ELSE document[d] = job[d].task /\ job[d].status = "active" /\ job[d].snapshot # 0 /\ job[d].draft = 0

Begin(p, d, kind, size) ==
  /\ transaction[p].at = "none" /\ Free(d) /\ Wanted(d, kind)
  /\ transaction' = [transaction EXCEPT ![p] = [at |-> "lock", document |-> d, kind |-> kind, size |-> size]]
  /\ UNCHANGED <<document, job, lock>>

Advance(p, at) == transaction' = [transaction EXCEPT ![p].at = at]

(* A variant with a plausible bug: usage is measured without the lock.     *)
AcquireFreely(p) ==
  /\ transaction[p].at = "lock" /\ Advance(p, "measure")
  /\ UNCHANGED <<document, job, lock>>

\* Without limits there is nothing to wait for.
Acquire(p) ==
  /\ transaction[p].at = "lock" /\ Advance(p, "measure")
  /\ IF Limits(transaction[p].kind) = <<0, 0>> THEN lock' = lock ELSE lock = Nobody /\ lock' = p
  /\ UNCHANGED <<document, job>>

\* What is committed now, without the document's own body, which would be replaced.
Measure(p) ==
  LET t == transaction[p]
      others == Bodies(t.kind) \ {t.document}
  IN  /\ t.at = "measure"
      /\ Advance(p, IF Within(t.kind, Cardinality(others) + 1, Bytes(t.kind, others) + t.size)
                    THEN "add" ELSE "refuse")
      /\ UNCHANGED <<document, job, lock>>

Release(p) ==
  /\ transaction' = [transaction EXCEPT ![p] = NoTransaction]
  /\ lock' = IF lock = p THEN Nobody ELSE lock

\* A snapshot comes with a new job, in place of an older attempt's.
Commit(p) ==
  LET t == transaction[p]
  IN  /\ t.at = "add" /\ Release(p)
      /\ job' = [job EXCEPT ![t.document] =
                   IF t.kind = "snapshot"
                   THEN [task |-> document[t.document], status |-> "active", snapshot |-> t.size, draft |-> 0]
                   ELSE [@ EXCEPT !.draft = t.size]]
      /\ UNCHANGED document

\* Refused, or rolled back: READY without a job, a job without its draft.
GiveUp(p) ==
  /\ transaction[p].at # "none" /\ Release(p)
  /\ UNCHANGED <<document, job>>

-----------------------------------------------------------------------------
\* What goes on without the lock.

Ends(d) ==
  /\ Free(d) /\ job[d].status = "active"
  /\ job' = [job EXCEPT ![d].status = "ended"]
  /\ UNCHANGED <<document, lock, transaction>>

\* prune_terminal_snapshots and prune_terminal_drafts skip locked documents.
Prune(d, kind) ==
  /\ Free(d) /\ job[d].status = "ended" /\ job[d][kind] # 0
  /\ job' = [job EXCEPT ![d][kind] = 0]
  /\ UNCHANGED <<document, lock, transaction>>

\* The document has been rebuilt, by hand.
Rebuild(d) ==
  /\ Free(d) /\ document[d] \in 1 .. MaxTasks - 1
  /\ document' = [document EXCEPT ![d] = @ + 1]
  /\ UNCHANGED <<job, lock, transaction>>

\* The job and its draft go with the row.
Remove(d) ==
  /\ Free(d) /\ document[d] # 0
  /\ document' = [document EXCEPT ![d] = 0]
  /\ job' = [job EXCEPT ![d] = NoJob]
  /\ UNCHANGED <<lock, transaction>>

Next ==
  \/ \E p \in Processes :
       \/ \E d \in Documents, kind \in Kinds, size \in Sizes : Begin(p, d, kind, size)
       \/ Acquire(p) \/ Measure(p) \/ Commit(p) \/ GiveUp(p)
  \/ \E d \in Documents : Ends(d) \/ (\E kind \in Kinds : Prune(d, kind)) \/ Rebuild(d) \/ Remove(d)

Spec == Init /\ [][Next]_vars

-----------------------------------------------------------------------------
(***************************************************************************)
(* However many processes add snapshots and drafts at a time, and whatever *)
(* is replaced, pruned or removed meanwhile, what is stored is within both *)
(* limits of its kind (stage_for_ready, save_publication_draft).           *)
(***************************************************************************)
CapacityKept == \A kind \in Kinds : Within(kind, Cardinality(Bodies(kind)), Bytes(kind, Bodies(kind)))
===============================================================================
