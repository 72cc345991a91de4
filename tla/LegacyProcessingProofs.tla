------------------------ MODULE LegacyProcessingProofs ------------------------
(***************************************************************************)
(* Theorems about LegacyProcessing for any number of processes, attempts   *)
(* and faults.  Nothing locks the row while a store is written to; that no *)
(* two executions write at the same time follows from the lease alone, and *)
(* only as long as no execution loses it alive.  And a theorem about the   *)
(* text that this processing starts from (Parsing).                        *)
(***************************************************************************)
EXTENDS LegacyProcessing, FiniteSetTheorems, TLAPS

(* What the steps of an execution find of its own in the stores.           *)
IndexedSteps == {"EMBEDDED", "BUILDING_GRAPH", "extract_graph", "cleanup_graph", "store_concepts",
                 "store_relationships", "GRAPH_BUILT", "mark_completed"}
BuiltSteps == {"GRAPH_BUILT", "mark_completed"}

Stored(step) ==
  /\ step \in IndexedSteps => vectors = row.attempt
  /\ step = "store_concepts" => graph = {}
  /\ step = "store_relationships" => graph = {<<row.attempt, "concepts">>}
  /\ step \in BuiltSteps => graph = GraphOf(row.attempt)

(* A worker executes the attempt that the row gives it, or has come to the *)
(* failure path of one that has ended and is about to find that out.       *)
Execution(w) == IsCurrent(w) /\ row.lease = "live" /\ Stored(job[w].at)
Ended(w) ==
  /\ job[w].at = "failing"
  /\ job[w].task <= row.attempt /\ (job[w].task = row.attempt => ~Active(row))

RemovalInv ==
  /\ remover # "none" => row.deleting /\ row.stage \in DeletableStages
  /\ row.stage = "REMOVED" => row.deleting

(* A removal goes through the stores one after the other.                  *)
Emptied ==
  /\ remover \in {"drop_graph", "object", "row"} \/ row.stage = "REMOVED" => vectors = 0
  /\ remover \in {"object", "row"} \/ row.stage = "REMOVED" => graph = {}

WorkInv == \A w \in Workers : job[w] # Idle => Execution(w) \/ Ended(w)

(* The inductive invariant.                                                *)
IInv == TypeOK /\ RemovalInv /\ (faults = 0 => WorkInv /\ ReadyIsWhole /\ Emptied)

-----------------------------------------------------------------------------
(* Names of steps and stages.                                              *)
LEMMA StepNames ==
  /\ \A s \in (Steps \ {"mark_completed"}) \cup {"failing", "drop_vectors", "drop_graph"} :
       Following[s] \in Steps \cup Failing
  /\ Locking \subseteq Steps
  /\ Remote \subseteq (Steps \ {"mark_completed"}) \cup {"drop_vectors", "drop_graph"}
  /\ "failing" \notin Steps /\ "failing" \notin Remote
  /\ "claimed" \in Steps /\ "mark_completed" \in Steps /\ "extract_graph" \in Steps
  /\ {"failing", "drop_vectors", "drop_graph", "mark_failed"} = Failing
BY DEF Steps, Failing, Following, Locking, Remote, ActiveStages

LEMMA StageNames ==
  /\ ActiveStages \subseteq Stages /\ DeletableStages \subseteq Stages /\ "REMOVED" \in Stages
  /\ "REMOVED" \notin ActiveStages /\ "REMOVED" \notin DeletableStages
  /\ ActiveStages \cap DeletableStages = {}
  /\ "READY" \in DeletableStages /\ "FAILED" \in DeletableStages /\ "UPLOADED" \in ActiveStages
BY DEF Stages, ActiveStages, DeletableStages

LEMMA AttemptFacts ==
  /\ 1 \in Attempts /\ 0 \notin Attempts
  /\ \A n \in Attempts : n \in Nat /\ n >= 1
  /\ \A n \in Attempts : n < MaxProcessingAttempts => n + 1 \in Attempts
  /\ \A n \in Attempts : n < MaxGraphProcessingAttempts => n + 1 \in Attempts
BY AttemptLimitsAssumption DEF Attempts

LEMMA JobFacts ==
  ASSUME job \in [Workers -> {Idle} \cup [at : Steps \cup Failing, task : Attempts]], NEW w \in Workers
  PROVE  /\ job[w] = Idle \/ job[w] \in [at : Steps \cup Failing, task : Attempts]
         /\ Idle.at = "idle" /\ Idle.task = 0 /\ Idle.at \notin Steps \cup Failing \cup Remote
         /\ job[w] # Idle <=> job[w].at \in Steps \cup Failing
         /\ job[w] # Idle => job[w].task \in Attempts
BY AttemptFacts DEF Idle, Steps, Failing, Following, Remote

-----------------------------------------------------------------------------
(* Rows: a change that keeps the fields' types keeps the row's.            *)
LEMMA RowFields ==
  ASSUME NEW r \in Rows(Workers)
  PROVE  /\ r.stage \in Stages /\ r.attempt \in Attempts /\ r.owner \in Workers \cup {NoOwner}
         /\ r.lease \in Leases /\ r.deleting \in BOOLEAN
BY DEF Rows

LEMMA LeaseRow ==
  ASSUME NEW r \in Rows(Workers), NEW l \in Leases
  PROVE  /\ [r EXCEPT !.lease = l] \in Rows(Workers)
         /\ [r EXCEPT !.lease = l].stage = r.stage /\ [r EXCEPT !.lease = l].attempt = r.attempt
         /\ [r EXCEPT !.lease = l].owner = r.owner /\ [r EXCEPT !.lease = l].deleting = r.deleting
         /\ [r EXCEPT !.lease = l].lease = l
BY DEF Rows

LEMMA LeasedRow ==
  ASSUME NEW r \in Rows(Workers), NEW w \in Workers
  PROVE  /\ Leased(r, w) \in Rows(Workers)
         /\ Leased(r, w).stage = r.stage /\ Leased(r, w).attempt = r.attempt
         /\ Leased(r, w).owner = w /\ Leased(r, w).deleting = r.deleting
         /\ Leased(r, w).lease = "live"
BY DEF Rows, Leased, Leases

LEMMA UnleasedRow ==
  ASSUME NEW r \in Rows(Workers)
  PROVE  /\ Unleased(r) \in Rows(Workers)
         /\ Unleased(r).stage = r.stage /\ Unleased(r).attempt = r.attempt
         /\ Unleased(r).owner = NoOwner /\ Unleased(r).deleting = r.deleting
BY DEF Rows, Unleased, Leases

LEMMA StagedRow ==
  ASSUME NEW r \in Rows(Workers), NEW s \in Stages
  PROVE  /\ Staged(r, s) \in Rows(Workers)
         /\ Staged(r, s).stage = s /\ Staged(r, s).attempt = r.attempt
         /\ Staged(r, s).owner = r.owner /\ Staged(r, s).deleting = r.deleting
         /\ Staged(r, s).lease = "live"
BY DEF Rows, Staged, Leases

(* A row between two executions, one field after the other.                *)
LEMMA StageField ==
  ASSUME NEW r \in Rows(Workers), NEW s \in Stages
  PROVE  /\ [r EXCEPT !.stage = s] \in Rows(Workers)
         /\ [r EXCEPT !.stage = s].stage = s /\ [r EXCEPT !.stage = s].attempt = r.attempt
         /\ [r EXCEPT !.stage = s].owner = r.owner /\ [r EXCEPT !.stage = s].deleting = r.deleting
BY DEF Rows

LEMMA AttemptField ==
  ASSUME NEW r \in Rows(Workers), NEW n \in Attempts
  PROVE  /\ [r EXCEPT !.attempt = n] \in Rows(Workers)
         /\ [r EXCEPT !.attempt = n].stage = r.stage /\ [r EXCEPT !.attempt = n].attempt = n
         /\ [r EXCEPT !.attempt = n].owner = r.owner
         /\ [r EXCEPT !.attempt = n].deleting = r.deleting
BY DEF Rows

LEMMA RetryableField ==
  ASSUME NEW r \in Rows(Workers), NEW b \in BOOLEAN
  PROVE  /\ [r EXCEPT !.retryable = b] \in Rows(Workers)
         /\ [r EXCEPT !.retryable = b].stage = r.stage
         /\ [r EXCEPT !.retryable = b].attempt = r.attempt
         /\ [r EXCEPT !.retryable = b].owner = r.owner
         /\ [r EXCEPT !.retryable = b].deleting = r.deleting
BY DEF Rows

LEMMA GraphField ==
  ASSUME NEW r \in Rows(Workers), NEW v \in GraphStatuses \cup {"none"}
  PROVE  /\ [r EXCEPT !.graphStatus = v] \in Rows(Workers)
         /\ [r EXCEPT !.graphStatus = v].stage = r.stage
         /\ [r EXCEPT !.graphStatus = v].attempt = r.attempt
         /\ [r EXCEPT !.graphStatus = v].owner = r.owner
         /\ [r EXCEPT !.graphStatus = v].deleting = r.deleting
BY DEF Rows

LEMMA RebuildField ==
  ASSUME NEW r \in Rows(Workers), NEW v \in Rebuilds
  PROVE  /\ [r EXCEPT !.rebuild = v] \in Rows(Workers)
         /\ [r EXCEPT !.rebuild = v].stage = r.stage
         /\ [r EXCEPT !.rebuild = v].attempt = r.attempt
         /\ [r EXCEPT !.rebuild = v].owner = r.owner
         /\ [r EXCEPT !.rebuild = v].deleting = r.deleting
BY DEF Rows

LEMMA NextRow ==
  ASSUME NEW r \in Rows(Workers), r.attempt + 1 \in Attempts
  PROVE  /\ NextAttempt(r) \in Rows(Workers)
         /\ NextAttempt(r).stage = "UPLOADED" /\ NextAttempt(r).attempt = r.attempt + 1
         /\ NextAttempt(r).owner = NoOwner /\ NextAttempt(r).deleting = r.deleting
<1> DEFINE u == Unleased(r)
           n == r.attempt + 1
           s == [u EXCEPT !.stage = "UPLOADED"]
           a == [s EXCEPT !.attempt = n]
           b == [a EXCEPT !.retryable = FALSE]
           h == [b EXCEPT !.graphStatus = "none"]
           g == [h EXCEPT !.rebuild = "open"]
<1>1. u \in Rows(Workers) /\ u.owner = NoOwner /\ u.deleting = r.deleting /\ n \in Attempts
  BY UnleasedRow
<1>2. NextAttempt(r) = [u EXCEPT !.stage = "UPLOADED", !.attempt = n, !.retryable = FALSE,
                                 !.graphStatus = "none", !.rebuild = "open"]
  BY Zenon DEF NextAttempt
<1> HIDE DEF u, n
<1>3. NextAttempt(r) = g
  BY <1>1, <1>2 DEF Rows
<1>4. /\ "UPLOADED" \in Stages /\ FALSE \in BOOLEAN
      /\ "none" \in GraphStatuses \cup {"none"} /\ "open" \in Rebuilds
  BY StageNames DEF Rebuilds
<1> HIDE DEF s, a, b, h, g
<1>5. s \in Rows(Workers) /\ s.stage = "UPLOADED" /\ s.owner = u.owner /\ s.deleting = u.deleting
  BY <1>1, <1>4, StageField DEF s
<1>6. /\ a \in Rows(Workers) /\ a.stage = s.stage /\ a.attempt = n
      /\ a.owner = s.owner /\ a.deleting = s.deleting
  BY <1>1, <1>5, AttemptField DEF a
<1>7. /\ b \in Rows(Workers) /\ b.stage = a.stage /\ b.attempt = a.attempt
      /\ b.owner = a.owner /\ b.deleting = a.deleting
  BY <1>4, <1>6, RetryableField DEF b
<1>8. /\ h \in Rows(Workers) /\ h.stage = b.stage /\ h.attempt = b.attempt
      /\ h.owner = b.owner /\ h.deleting = b.deleting
  BY <1>4, <1>7, GraphField DEF h
<1>9. /\ g \in Rows(Workers) /\ g.stage = h.stage /\ g.attempt = h.attempt
       /\ g.owner = h.owner /\ g.deleting = h.deleting
  BY <1>4, <1>8, RebuildField DEF g
<1>10. QED
  BY <1>1, <1>3, <1>5, <1>6, <1>7, <1>8, <1>9 DEF n

LEMMA CompletedRow ==
  ASSUME NEW r \in Rows(Workers), NEW gs \in GraphStatuses, NEW rb \in Rebuilds
  PROVE  /\ Completed(r, gs, rb) \in Rows(Workers)
         /\ Completed(r, gs, rb).stage = "READY" /\ Completed(r, gs, rb).attempt = r.attempt
         /\ Completed(r, gs, rb).owner = NoOwner /\ Completed(r, gs, rb).deleting = r.deleting
<1> DEFINE u == Unleased(r)
           s == [u EXCEPT !.stage = "READY"]
           h == [s EXCEPT !.graphStatus = gs]
           g == [h EXCEPT !.rebuild = rb]
           b == [g EXCEPT !.retryable = FALSE]
<1>1. /\ u \in Rows(Workers) /\ u.owner = NoOwner
      /\ u.attempt = r.attempt /\ u.deleting = r.deleting
  BY UnleasedRow
<1>2. Completed(r, gs, rb) = [u EXCEPT !.stage = "READY", !.graphStatus = gs, !.rebuild = rb,
                                       !.retryable = FALSE]
  BY Zenon DEF Completed
<1> HIDE DEF u
<1>3. Completed(r, gs, rb) = b
  BY <1>1, <1>2 DEF Rows
<1>4. "READY" \in Stages /\ FALSE \in BOOLEAN /\ gs \in GraphStatuses \cup {"none"}
  BY StageNames
<1> HIDE DEF s, b, h, g
<1>5. /\ s \in Rows(Workers) /\ s.stage = "READY" /\ s.attempt = u.attempt
      /\ s.owner = u.owner /\ s.deleting = u.deleting
  BY <1>1, <1>4, StageField DEF s
<1>6. /\ h \in Rows(Workers) /\ h.stage = s.stage /\ h.attempt = s.attempt
      /\ h.owner = s.owner /\ h.deleting = s.deleting
  BY <1>4, <1>5, GraphField DEF h
<1>7. /\ g \in Rows(Workers) /\ g.stage = h.stage /\ g.attempt = h.attempt
      /\ g.owner = h.owner /\ g.deleting = h.deleting
  BY <1>6, RebuildField DEF g
<1>8. /\ b \in Rows(Workers) /\ b.stage = g.stage /\ b.attempt = g.attempt
      /\ b.owner = g.owner /\ b.deleting = g.deleting
  BY <1>4, <1>7, RetryableField DEF b
<1>9. QED
  BY <1>1, <1>3, <1>5, <1>6, <1>7, <1>8

LEMMA FailedRow ==
  ASSUME NEW r \in Rows(Workers), NEW retryable \in BOOLEAN
  PROVE  /\ Failed(r, retryable) \in Rows(Workers)
         /\ Failed(r, retryable).stage = "FAILED" /\ Failed(r, retryable).attempt = r.attempt
         /\ Failed(r, retryable).owner = NoOwner /\ Failed(r, retryable).deleting = r.deleting
<1> DEFINE u == Unleased(r)
           again == retryable /\ r.attempt < MaxProcessingAttempts
           s == [u EXCEPT !.stage = "FAILED"]
           b == [s EXCEPT !.retryable = again]
<1>1. /\ u \in Rows(Workers) /\ u.owner = NoOwner
      /\ u.attempt = r.attempt /\ u.deleting = r.deleting
  BY UnleasedRow
<1>2. Failed(r, retryable) = [u EXCEPT !.stage = "FAILED", !.retryable = again]
  BY Zenon DEF Failed
<1>3. again \in BOOLEAN
  OBVIOUS
<1> HIDE DEF u, again
<1>4. Failed(r, retryable) = b
  BY <1>1, <1>2, <1>3 DEF Rows
<1> HIDE DEF s, b
<1>5. /\ s \in Rows(Workers) /\ s.stage = "FAILED" /\ s.attempt = u.attempt
      /\ s.owner = u.owner /\ s.deleting = u.deleting
  BY <1>1, StageNames, StageField DEF s, DeletableStages
<1>6. /\ b \in Rows(Workers) /\ b.stage = s.stage /\ b.attempt = s.attempt
      /\ b.owner = s.owner /\ b.deleting = s.deleting
  BY <1>3, <1>5, RetryableField DEF b
<1>7. QED
  BY <1>1, <1>4, <1>5, <1>6

LEMMA MarkedRow ==
  ASSUME NEW r \in Rows(Workers)
  PROVE  /\ MarkedDeleting(r) \in Rows(Workers)
         /\ MarkedDeleting(r).stage = r.stage /\ MarkedDeleting(r).attempt = r.attempt
         /\ MarkedDeleting(r).deleting
BY DEF Rows, MarkedDeleting

LEMMA RemovedRow ==
  ASSUME NEW r \in Rows(Workers)
  PROVE  /\ Removed(r) \in Rows(Workers)
         /\ Removed(r).stage = "REMOVED" /\ Removed(r).attempt = r.attempt
         /\ Removed(r).deleting
BY DEF Rows, Removed, NewRow, Stages, Leases, GraphStatuses, Rebuilds

-----------------------------------------------------------------------------
(* What a step does to the jobs.                                           *)
JobsOK(j) == j \in [Workers -> {Idle} \cup [at : Steps \cup Failing, task : Attempts]]

LEMMA MovedJob ==
  ASSUME JobsOK(job), NEW w \in Workers, NEW s \in Steps \cup Failing, job[w] # Idle, Moved(w, s)
  PROVE  /\ JobsOK(job')
         /\ job'[w].at = s /\ job'[w].task = job[w].task /\ job'[w] # Idle
         /\ \A v \in Workers \ {w} : job'[v] = job[v]
<1>1. job[w] \in [at : Steps \cup Failing, task : Attempts]
  BY JobFacts DEF JobsOK
<1> DEFINE j == [job[w] EXCEPT !.at = s]
<1>2. j \in [at : Steps \cup Failing, task : Attempts] /\ j.at = s /\ j.task = job[w].task
  BY <1>1
<1>3. job' = [job EXCEPT ![w] = j]
  BY DEF Moved
<1> HIDE DEF j
<1>4. job'[w] = j /\ JobsOK(job') /\ \A v \in Workers \ {w} : job'[v] = job[v]
  BY <1>2, <1>3 DEF JobsOK
<1>5. "idle" \notin Steps \cup Failing
  BY JobFacts DEF JobsOK, Idle
<1>6. job'[w] # Idle
  BY <1>2, <1>4, <1>5 DEF Idle
<1>7. QED
  BY <1>2, <1>4, <1>6

LEMMA EndedJob ==
  ASSUME JobsOK(job), NEW w \in Workers, Ends(w)
  PROVE  JobsOK(job') /\ job'[w] = Idle /\ \A v \in Workers \ {w} : job'[v] = job[v]
BY DEF JobsOK, Ends

LEMMA BegunJob ==
  ASSUME JobsOK(job), NEW w \in Workers, NEW n \in Attempts,
         job' = [job EXCEPT ![w] = [at |-> "claimed", task |-> n]]
  PROVE  /\ JobsOK(job') /\ job'[w].at = "claimed" /\ job'[w].task = n
         /\ \A v \in Workers \ {w} : job'[v] = job[v]
BY StepNames DEF JobsOK

LEMMA ProceededJob ==
  ASSUME JobsOK(job), NEW w \in Workers, Proceed(w),
         job[w].at \in (Steps \ {"mark_completed"}) \cup {"failing", "drop_vectors", "drop_graph"}
  PROVE  /\ JobsOK(job')
         /\ job'[w].at = Following[job[w].at] /\ job'[w].task = job[w].task /\ job'[w] # Idle
         /\ \A v \in Workers \ {w} : job'[v] = job[v]
<1>1. job[w] # Idle
  BY JobFacts, StepNames DEF JobsOK
<1>2. QED
  BY <1>1, StepNames, MovedJob DEF Proceed

-----------------------------------------------------------------------------
(* Type correctness and the row of a removal.                              *)
LEMMA EffectOK ==
  ASSUME NEW step, NEW task \in Attempts, Effect(step, task),
         vectors \in Attempts \cup {0}, graph \subseteq Attempts \X Parts
  PROVE  vectors' \in Attempts \cup {0} /\ graph' \subseteq Attempts \X Parts
<1>1. vectors' \in Attempts \cup {0}
  BY DEF Effect
<1>2. graph' \subseteq Attempts \X Parts
  BY DEF Effect, Parts
<1>3. QED
  BY <1>1, <1>2

LEMMA AnotherRuns ==
  ASSUME NEW w \in Workers, up \subseteq Workers, Cardinality(up) > 1
  PROVE  up \ {w} # {}
<1>1. Cardinality({}) = 0 /\ Cardinality({w}) = 1
  BY FS_EmptySet, FS_Singleton, Zenon
<1>2. up # {} /\ up # {w}
  BY <1>1
<1>3. QED
  BY <1>2

(* The part of the invariant that holds also once a lease has been lost.   *)
BaseInv == TypeOK /\ RemovalInv

LEMMA TypeStep ==
  ASSUME BaseInv, [Next]_vars
  PROVE  TypeOK'
<1> DEFINE RowOK == row' \in Rows(Workers)
           UpOK == up' \subseteq Workers /\ up' # {}
           StoresOK == vectors' \in Attempts \cup {0} /\ graph' \subseteq Attempts \X Parts
           RestOK == /\ retrying' \in Attempts \cup {0}
                     /\ remover' \in {"none", "row"} \cup DOMAIN AfterRemoval
                     /\ faults' \in 0 .. MaxFaults
           AllOK == RowOK /\ UpOK /\ JobsOK(job') /\ StoresOK /\ RestOK
<1>0. /\ row \in Rows(Workers) /\ up \subseteq Workers /\ up # {} /\ JobsOK(job)
      /\ retrying \in Attempts \cup {0} /\ vectors \in Attempts \cup {0}
      /\ graph \subseteq Attempts \X Parts /\ remover \in {"none", "row"} \cup DOMAIN AfterRemoval
      /\ faults \in 0 .. MaxFaults /\ row.attempt \in Attempts /\ MaxFaults \in Nat
  BY RowFields, WorkersAssumption, Zenon DEF BaseInv, TypeOK, JobsOK
<1>1. SUFFICES AllOK
  BY Zenon DEF TypeOK, JobsOK
<1>2. ASSUME NEW w \in Workers, Claim(w) PROVE AllOK
  <2>1. JobsOK(job')
    BY <1>0, <1>2, BegunJob, Zenon DEF Claim
  <2>2. RowOK
    BY <1>0, <1>2, LeasedRow, Zenon DEF Claim
  <2>3. QED
    BY <1>0, <1>2, <2>1, <2>2, Zenon DEF Claim
<1>3. ASSUME NEW w \in Workers, Check(w) PROVE AllOK
  <2>1. JobsOK(job')
    BY <1>0, <1>3, StepNames, ProceededJob DEF Check
  <2>2. RowOK
    BY <1>0, <1>3, StagedRow, StageNames DEF Check
  <2>3. QED
    BY <1>0, <1>3, <2>1, <2>2, Zenon DEF Check
<1>4. ASSUME NEW w \in Workers, Superseded(w) PROVE AllOK
  BY <1>0, <1>4, EndedJob, Zenon DEF Superseded
<1>5. ASSUME NEW w \in Workers, NotRecorded(w) PROVE AllOK
  BY <1>0, <1>5, EndedJob, Zenon DEF NotRecorded
<1>6. ASSUME NEW w \in Workers, Extract(w) PROVE AllOK
  <2>1. JobsOK(job')
    BY <1>0, <1>6, StepNames, ProceededJob DEF Extract, At
  <2>2. QED
    BY <1>0, <1>6, <2>1, Zenon DEF Extract
<1>7. ASSUME NEW w \in Workers, Write(w) PROVE AllOK
  <2>1. JobsOK(job')
    BY <1>0, <1>7, StepNames, ProceededJob DEF Write
  <2>2. job[w].task \in Attempts
    BY <1>0, <1>7, JobFacts DEF Write, JobsOK
  <2>3. StoresOK
    BY <1>0, <1>7, <2>2, EffectOK, Zenon DEF Write
  <2>4. QED
    BY <1>0, <1>7, <2>1, <2>3, Zenon DEF Write
<1>8. ASSUME NEW w \in Workers, Complete(w) PROVE AllOK
  <2>1. job[w] # Idle
    BY <1>0, <1>8, StepNames, JobFacts DEF Complete, At, JobsOK
  <2>2. JobsOK(job')
    BY <1>0, <1>8, <2>1, EndedJob, MovedJob DEF Complete, Failing
  <2>3. RowOK
    BY <1>0, <1>8, CompletedRow DEF Complete, Rebuilds
  <2>4. QED
    BY <1>0, <1>8, <2>2, <2>3, Zenon DEF Complete
<1>9. ASSUME NEW w \in Workers, Raise(w) PROVE AllOK
  <2>1. job[w] # Idle
    BY <1>0, <1>9, JobFacts DEF Raise, JobsOK
  <2>2. JobsOK(job')
    BY <1>0, <1>9, <2>1, MovedJob DEF Raise, Failing
  <2>3. QED
    BY <1>0, <1>9, <2>2, Zenon DEF Raise
<1>10. ASSUME NEW w \in Workers, FailureBegins(w) PROVE AllOK
  <2>1. JobsOK(job')
    BY <1>0, <1>10, EndedJob, ProceededJob DEF FailureBegins, At
  <2>2. RowOK
    BY <1>0, <1>10, LeaseRow DEF FailureBegins, Leases
  <2>3. QED
    BY <1>0, <1>10, <2>1, <2>2, Zenon DEF FailureBegins
<1>11. ASSUME NEW w \in Workers, CleanupFails(w) PROVE AllOK
  <2>1. job[w] # Idle
    BY <1>0, <1>11, StepNames, JobFacts DEF CleanupFails, JobsOK
  <2>2. JobsOK(job')
    BY <1>0, <1>11, <2>1, MovedJob DEF CleanupFails, Failing
  <2>3. QED
    BY <1>0, <1>11, <2>2, Zenon DEF CleanupFails
<1>12. ASSUME NEW w \in Workers, Fail(w) PROVE AllOK
  <2>1. JobsOK(job')
    BY <1>0, <1>12, EndedJob, Zenon DEF Fail
  <2>2. RowOK
    BY <1>0, <1>12, FailedRow, Zenon DEF Fail
  <2>3. QED
    BY <1>0, <1>12, <2>1, <2>2, Zenon DEF Fail
<1>13. ASSUME NEW w \in Workers, Cancel(w) PROVE AllOK
  <2>1. JobsOK(job')
    BY <1>0, <1>13, EndedJob, Zenon DEF Cancel
  <2>2. RowOK
    BY <1>0, <1>13, UnleasedRow, Zenon DEF Cancel
  <2>3. UpOK
    BY <1>0, <1>13, AnotherRuns DEF Cancel
  <2>4. QED
    BY <1>0, <1>13, <2>1, <2>2, <2>3, Zenon DEF Cancel
<1>14. ASSUME NEW w \in Workers, Kill(w) PROVE AllOK
  <2>1. JobsOK(job')
    BY <1>0, <1>14, EndedJob, Zenon DEF Kill
  <2>2. UpOK
    BY <1>0, <1>14, AnotherRuns DEF Kill
  <2>3. QED
    BY <1>0, <1>14, <2>1, <2>2, Zenon DEF Kill
<1>15. ASSUME NEW w \in Workers, Heartbeat(w) PROVE AllOK
  <2>1. RowOK
    BY <1>0, <1>15, LeaseRow DEF Heartbeat, Leases
  <2>2. QED
    BY <1>0, <1>15, <2>1, Zenon DEF Heartbeat
<1>16. ASSUME LeaseExpires PROVE AllOK
  <2>1. RowOK
    BY <1>0, <1>16, LeaseRow DEF LeaseExpires, Leases
  <2>2. faults' \in 0 .. MaxFaults
    BY <1>0, <1>16 DEF LeaseExpires
  <2>3. QED
    BY <1>0, <1>16, <2>1, <2>2, Zenon DEF LeaseExpires
<1>17. ASSUME Recover PROVE AllOK
  <2>1. RowOK
    BY <1>0, <1>17, NextRow, FailedRow, AttemptFacts DEF Recover
  <2>2. QED
    BY <1>0, <1>17, <2>1, Zenon DEF Recover
<1>18. ASSUME RetryUpload PROVE AllOK
  <2>1. row.attempt + 1 \in Attempts
    BY <1>0, <1>18, AttemptFacts DEF RetryUpload, CanReprocess
  <2>2. RowOK
    BY <1>0, <1>18, <2>1, NextRow, Zenon DEF RetryUpload
  <2>3. QED
    BY <1>0, <1>18, <2>1, <2>2, Zenon DEF RetryUpload
<1>19. ASSUME RetryChecked PROVE AllOK
  <2>1. RowOK
    BY <1>0, <1>19, FailedRow, Zenon DEF RetryChecked
  <2>2. faults' \in 0 .. MaxFaults
    BY <1>0, <1>19 DEF RetryChecked
  <2>3. QED
    BY <1>0, <1>19, <2>1, <2>2, Zenon DEF RetryChecked
<1>20. ASSUME RequestRemoval PROVE AllOK
  <2>1. RowOK
    BY <1>0, <1>20, MarkedRow, Zenon DEF RequestRemoval
  <2>2. remover' \in {"none", "row"} \cup DOMAIN AfterRemoval
    BY <1>20 DEF RequestRemoval, AfterRemoval
  <2>3. QED
    BY <1>0, <1>20, <2>1, <2>2, Zenon DEF RequestRemoval
<1>21. ASSUME Remove PROVE AllOK
  <2>1. StoresOK
    BY <1>0, <1>21, EffectOK, Zenon DEF Remove
  <2>2. remover' \in {"none", "row"} \cup DOMAIN AfterRemoval
    BY <1>21 DEF Remove, AfterRemoval
  <2>3. QED
    BY <1>0, <1>21, <2>1, <2>2, Zenon DEF Remove
<1>22. ASSUME RemoveRow PROVE AllOK
  <2>1. RowOK
    BY <1>0, <1>22, RemovedRow, Zenon DEF RemoveRow
  <2>2. QED
    BY <1>0, <1>22, <2>1, Zenon DEF RemoveRow
<1>23. ASSUME RemovalFails PROVE AllOK
  BY <1>0, <1>23, Zenon DEF RemovalFails
<1>24. ASSUME UNCHANGED vars PROVE AllOK
  BY <1>0, <1>24, Zenon DEF vars
<1> HIDE DEF AllOK
<1>25. QED
    BY <1>2, <1>3, <1>4, <1>5, <1>6, <1>7, <1>8, <1>9, <1>10, <1>11, <1>12, <1>13, <1>14, <1>15,
     <1>16, <1>17, <1>18, <1>19, <1>20, <1>21, <1>22, <1>23, <1>24, Zenon DEF Next

(* While the row is processed nothing removes it.                          *)
LEMMA NotRemoving ==
  ASSUME BaseInv, Active(row)
  PROVE  remover = "none" /\ row.stage # "READY" /\ row.stage # "REMOVED"
BY StageNames DEF BaseInv, RemovalInv, Active

LEMMA ProcessedRow ==
  ASSUME BaseInv, Active(row), remover' = remover, row'.stage # "REMOVED"
  PROVE  RemovalInv'
BY NotRemoving DEF RemovalInv

LEMMA KeptRow ==
  ASSUME BaseInv, remover' \in {remover, "none"},
         row'.stage = row.stage, row'.deleting = row.deleting
  PROVE  RemovalInv'
BY DEF BaseInv, RemovalInv

(* A locked statement leaves an active row active, and its lease renewed.  *)
LEMMA CheckedRow ==
  ASSUME row \in Rows(Workers), Active(row), NEW w \in Workers, Check(w)
  PROVE  /\ Active(row') /\ row'.attempt = row.attempt /\ row'.owner = row.owner
         /\ row'.lease \in {row.lease, "live"}
<1>1. CASE job[w].at \in ActiveStages
  <2>1. row' = Staged(row, job[w].at) /\ job[w].at \in Stages
    BY <1>1, StageNames DEF Check
  <2>2. QED
    BY <1>1, <2>1, StagedRow DEF Active
<1>2. CASE job[w].at \notin ActiveStages
  BY <1>2 DEF Check
<1>3. QED
  BY <1>1, <1>2

LEMMA RemovalStep ==
  ASSUME BaseInv, [Next]_vars
  PROVE  RemovalInv'
<1>1. row \in Rows(Workers) /\ row.attempt \in Attempts
  BY RowFields, Zenon DEF BaseInv, TypeOK
<1>2. ASSUME NEW w \in Workers, Claim(w) PROVE RemovalInv'
  <2>1. row'.stage = row.stage /\ row'.deleting = row.deleting
    BY <1>1, <1>2, LeasedRow, Zenon DEF Claim
  <2>2. QED
    BY <1>2, <2>1, KeptRow DEF Claim
<1>3. ASSUME NEW w \in Workers, Check(w) PROVE RemovalInv'
  <2>1. Active(row)
    BY <1>3 DEF Check, IsCurrent, Current
  <2>2. row'.stage # "REMOVED"
    BY <1>1, <1>3, <2>1, CheckedRow, StageNames, Zenon DEF Active
  <2>3. QED
    BY <1>3, <2>1, <2>2, ProcessedRow DEF Check
<1>4. ASSUME NEW w \in Workers, Superseded(w) PROVE RemovalInv'
  BY <1>4, KeptRow DEF Superseded
<1>5. ASSUME NEW w \in Workers, Extract(w) PROVE RemovalInv'
  BY <1>5, KeptRow DEF Extract
<1>6. ASSUME NEW w \in Workers, Write(w) PROVE RemovalInv'
  BY <1>6, KeptRow DEF Write
<1>7. ASSUME NEW w \in Workers, Raise(w) PROVE RemovalInv'
  BY <1>7, KeptRow DEF Raise
<1>8. ASSUME NEW w \in Workers, CleanupFails(w) PROVE RemovalInv'
  BY <1>8, KeptRow DEF CleanupFails
<1>9. ASSUME NEW w \in Workers, NotRecorded(w) PROVE RemovalInv'
  BY <1>9, KeptRow DEF NotRecorded
<1>10. ASSUME NEW w \in Workers, Kill(w) PROVE RemovalInv'
  BY <1>10, KeptRow DEF Kill
<1>11. ASSUME NEW w \in Workers, Complete(w) PROVE RemovalInv'
  <2>1. Active(row)
    BY <1>11 DEF Complete, IsCurrent, Current
  <2>2. row'.stage # "REMOVED"
    BY <1>1, <1>11, CompletedRow DEF Complete, Rebuilds
  <2>3. QED
    BY <1>11, <2>1, <2>2, ProcessedRow DEF Complete
<1>12. ASSUME NEW w \in Workers, FailureBegins(w) PROVE RemovalInv'
  <2>1. row'.stage = row.stage /\ row'.deleting = row.deleting
    BY <1>1, <1>12, LeaseRow DEF FailureBegins, Leases
  <2>2. QED
    BY <1>12, <2>1, KeptRow DEF FailureBegins
<1>13. ASSUME NEW w \in Workers, Fail(w) PROVE RemovalInv'
  <2>1. CASE IsCurrent(w)
    <3>1. Active(row)
      BY <2>1 DEF IsCurrent, Current
    <3>2. row'.stage # "REMOVED"
      BY <1>1, <1>13, <2>1, FailedRow DEF Fail
    <3>3. QED
      BY <1>13, <3>1, <3>2, ProcessedRow DEF Fail
  <2>2. CASE ~IsCurrent(w)
    BY <1>13, <2>2, KeptRow DEF Fail
  <2>3. QED
    BY <2>1, <2>2
<1>14. ASSUME NEW w \in Workers, Cancel(w) PROVE RemovalInv'
  <2>1. row'.stage = row.stage /\ row'.deleting = row.deleting
    BY <1>1, <1>14, UnleasedRow DEF Cancel
  <2>2. QED
    BY <1>14, <2>1, KeptRow DEF Cancel
<1>15. ASSUME NEW w \in Workers, Heartbeat(w) PROVE RemovalInv'
  <2>1. row'.stage = row.stage /\ row'.deleting = row.deleting
    BY <1>1, <1>15, LeaseRow DEF Heartbeat, Leases
  <2>2. QED
    BY <1>15, <2>1, KeptRow DEF Heartbeat
<1>16. ASSUME LeaseExpires PROVE RemovalInv'
  <2>1. row'.stage = row.stage /\ row'.deleting = row.deleting
    BY <1>1, <1>16, LeaseRow DEF LeaseExpires, Leases
  <2>2. QED
    BY <1>16, <2>1, KeptRow DEF LeaseExpires
<1>17. ASSUME Recover PROVE RemovalInv'
  <2>1. Active(row) /\ row'.stage # "REMOVED"
    BY <1>1, <1>17, NextRow, FailedRow, AttemptFacts DEF Recover, Interrupted
  <2>2. QED
    BY <1>17, <2>1, ProcessedRow DEF Recover
<1>18. ASSUME RetryUpload PROVE RemovalInv'
  <2>1. row.attempt + 1 \in Attempts
    BY <1>1, <1>18, AttemptFacts DEF RetryUpload, CanReprocess
  <2>2. row'.stage = "UPLOADED" /\ ~row.deleting
    BY <1>1, <1>18, <2>1, NextRow DEF RetryUpload, CanReprocess
  <2>3. QED
    BY <1>18, <2>2 DEF RetryUpload, BaseInv, RemovalInv
<1>19. ASSUME RetryChecked PROVE RemovalInv'
  <2>1. CASE UNCHANGED row
    BY <1>19, <2>1, KeptRow DEF RetryChecked
  <2>2. CASE Active(row) /\ \E retryable \in BOOLEAN : row' = Failed(row, retryable)
    <3>1. row'.stage # "REMOVED"
      BY <1>1, <2>2, FailedRow
    <3>2. QED
      BY <1>19, <2>2, <3>1, ProcessedRow DEF RetryChecked
  <2>3. QED
    BY <1>19, <2>1, <2>2 DEF RetryChecked
<1>20. ASSUME RequestRemoval PROVE RemovalInv'
  <2>1. row'.stage = row.stage /\ row'.deleting
    BY <1>1, <1>20, MarkedRow DEF RequestRemoval
  <2>2. QED
    BY <1>20, <2>1 DEF RequestRemoval, RemovalInv
<1>21. ASSUME Remove PROVE RemovalInv'
  BY <1>21 DEF Remove, AfterRemoval, BaseInv, RemovalInv
<1>22. ASSUME RemoveRow PROVE RemovalInv'
  <2>1. row'.stage = "REMOVED" /\ row'.deleting
    BY <1>1, <1>22, RemovedRow DEF RemoveRow
  <2>2. QED
    BY <1>22, <2>1 DEF RemoveRow, RemovalInv
<1>23. ASSUME RemovalFails PROVE RemovalInv'
  BY <1>23, KeptRow DEF RemovalFails
<1>24. ASSUME UNCHANGED vars PROVE RemovalInv'
  BY <1>24, KeptRow DEF vars
<1>25. QED
    BY <1>2, <1>3, <1>4, <1>5, <1>6, <1>7, <1>8, <1>9, <1>10, <1>11, <1>12, <1>13, <1>14, <1>15,
     <1>16, <1>17, <1>18, <1>19, <1>20, <1>21, <1>22, <1>23, <1>24, Zenon DEF Next

-----------------------------------------------------------------------------
(* The executions, as long as none has lost the row.                       *)
Clean == WorkInv /\ ReadyIsWhole /\ Emptied

(* Attempts only grow, and a row that is at rest is not taken up again     *)
(* under the same attempt.                                                 *)
GoesOn ==
  /\ row'.attempt \in Attempts /\ row'.attempt >= row.attempt
  /\ row'.attempt = row.attempt /\ Active(row') => Active(row)

LEMMA StaysEnded ==
  ASSUME NEW v \in Workers, JobsOK(job), row.attempt \in Attempts, GoesOn,
         Ended(v), job'[v] = job[v]
  PROVE  Ended(v)'
<1>1. job[v].task \in Attempts
  BY JobFacts DEF JobsOK, Ended, Failing
<1>2. job[v].task \in Nat /\ row.attempt \in Nat /\ row'.attempt \in Nat
  BY <1>1, AttemptFacts DEF GoesOn
<1>3. QED
  BY <1>2 DEF Ended, GoesOn

LEMMA CurrentExecutes ==
  ASSUME WorkInv, NEW w \in Workers, IsCurrent(w), job[w] # Idle
  PROVE  Execution(w)
BY DEF WorkInv, Ended, IsCurrent, Current

LEMMA StepExecutes ==
  ASSUME WorkInv, NEW w \in Workers, job[w] # Idle, job[w].at # "failing"
  PROVE  Execution(w) /\ IsCurrent(w) /\ Active(row)
BY DEF WorkInv, Ended, Execution, IsCurrent, Current

LEMMA OthersEnded ==
  ASSUME WorkInv, NEW w \in Workers, row.owner = w
  PROVE  \A v \in Workers \ {w} : job[v] # Idle => Ended(v)
BY DEF WorkInv, Execution, IsCurrent, Current

LEMMA NoneExecutes ==
  ASSUME WorkInv, row.owner \notin Workers \/ ~Active(row) \/ row.lease # "live"
  PROVE  \A v \in Workers : job[v] # Idle => Ended(v)
BY DEF WorkInv, Execution, IsCurrent, Current

(* The execution of w goes on or ends; every other one had ended before.   *)
LEMMA OneWorks ==
  ASSUME JobsOK(job), row.attempt \in Attempts, GoesOn, NEW w \in Workers,
         \A v \in Workers \ {w} : job[v] # Idle => Ended(v),
         \A v \in Workers \ {w} : job'[v] = job[v],
         job'[w] # Idle => Execution(w)' \/ Ended(w)'
  PROVE  WorkInv'
BY StaysEnded DEF WorkInv

LEMMA NoneWorks ==
  ASSUME JobsOK(job), row.attempt \in Attempts, GoesOn,
         \A v \in Workers : job[v] # Idle => Ended(v), UNCHANGED job
  PROVE  WorkInv'
BY StaysEnded DEF WorkInv

LEMMA SomeStop ==
  ASSUME WorkInv, UNCHANGED <<row, vectors, graph>>,
         \A v \in Workers : job'[v] \in {job[v], Idle}
  PROVE  WorkInv'
<1>1. ASSUME NEW v \in Workers, job'[v] # Idle PROVE Execution(v)' \/ Ended(v)'
  <2>1. job'[v] = job[v] /\ (Execution(v) \/ Ended(v))
    BY <1>1 DEF WorkInv
  <2>2. QED
    BY <2>1 DEF Execution, Ended, IsCurrent, Current, Active, Stored
<1>2. QED
  BY <1>1 DEF WorkInv

(* No step but a remote one leads to a step that needs more of the stores. *)
LEMMA StoredNext ==
  ASSUME NEW s \in ((Steps \ {"mark_completed"}) \cup {"failing", "drop_vectors", "drop_graph"}) \ Remote,
         Stored(s)
  PROVE  Stored(Following[s])
BY DEF Steps, Failing, Following, Remote, Stored, IndexedSteps, BuiltSteps

LEMMA StoredFailing ==
  ASSUME NEW s \in Failing
  PROVE  Stored(s)
BY DEF Failing, Stored, IndexedSteps, BuiltSteps

(* Nothing of the three is said of a row that is processed.                *)
LEMMA ProcessedIsClean ==
  ASSUME BaseInv', Active(row')
  PROVE  (ReadyIsWhole /\ Emptied)'
<1>1. remover' = "none" /\ row'.stage # "READY" /\ row'.stage # "REMOVED"
  BY StageNames DEF BaseInv, RemovalInv, Active
<1>2. QED
  BY <1>1 DEF ReadyIsWhole, Emptied

LEMMA KeptIsClean ==
  ASSUME Clean, UNCHANGED <<vectors, graph>>, remover' \in {remover, "none"},
         row'.stage = row.stage, row'.attempt = row.attempt, row'.deleting = row.deleting
  PROVE  (ReadyIsWhole /\ Emptied)'
BY DEF Clean, ReadyIsWhole, Emptied

LEMMA RestedIsClean ==
  ASSUME BaseInv, Active(row), remover' = remover, row'.stage = "FAILED"
  PROVE  (ReadyIsWhole /\ Emptied)'
BY NotRemoving DEF ReadyIsWhole, Emptied

(* What a remote statement leaves is what the next step finds.             *)
LEMMA StoredAfterWrite ==
  ASSUME NEW s \in Remote, NEW n, Effect(s, n), Stored(s), row.attempt = n, UNCHANGED row
  PROVE  Stored(Following[s])'
<1>1. CASE s = "store_relationships"
  <2>1. graph = {<<n, "concepts">>} /\ vectors = n
    BY <1>1 DEF Stored, IndexedSteps
  <2>2. /\ vectors' = n
        /\ graph' = graph \cup { <<n, "relationships">> : p \in { q \in graph : q[2] = "concepts" } }
    BY <1>1, <2>1 DEF Effect
  <2>3. { q \in graph : q[2] = "concepts" } = { <<n, "concepts">> }
    BY <2>1
  <2>4. graph' = {<<n, "concepts">>, <<n, "relationships">>}
    BY <2>1, <2>2, <2>3
  <2>5. graph' = GraphOf(n)
    BY <2>4 DEF GraphOf, Parts
  <2>6. QED
    BY <1>1, <2>2, <2>5 DEF Following, Stored, IndexedSteps, BuiltSteps
<1>2. CASE s # "store_relationships"
  BY <1>2 DEF Remote, Effect, Following, Stored, IndexedSteps, BuiltSteps
<1>3. QED
  BY <1>1, <1>2

LEMMA SameAttemptGoesOn ==
  ASSUME row.attempt \in Attempts, row'.attempt = row.attempt, Active(row') => Active(row)
  PROVE  GoesOn
BY AttemptFacts DEF GoesOn

LEMMA WorkStep ==
  ASSUME BaseInv, BaseInv', Clean, faults = 0, faults' = 0, [Next]_vars
  PROVE  Clean'
<1>1. /\ row \in Rows(Workers) /\ row.attempt \in Attempts /\ JobsOK(job) /\ WorkInv
      /\ NoOwner \notin Workers
  BY RowFields, WorkersAssumption, Zenon DEF BaseInv, TypeOK, Clean, JobsOK
<1>2. SUFFICES WorkInv' /\ (ReadyIsWhole /\ Emptied)'
  BY DEF Clean
<1>3. ASSUME NEW w \in Workers, Claim(w) PROVE WorkInv' /\ (ReadyIsWhole /\ Emptied)'
  <2>1. /\ row'.stage = row.stage /\ row'.attempt = row.attempt /\ row'.owner = w
        /\ row'.lease = "live" /\ row'.deleting = row.deleting
    BY <1>1, <1>3, LeasedRow, Zenon DEF Claim
  <2>2. Active(row) /\ Active(row')
    BY <1>3, <2>1, StageNames DEF Claim, Claimable, Active
  <2>3. /\ job'[w].at = "claimed" /\ job'[w].task = row.attempt
        /\ \A v \in Workers \ {w} : job'[v] = job[v]
    BY <1>1, <1>3, BegunJob, Zenon DEF Claim
  <2>4. \A v \in Workers \ {w} : job[v] # Idle => Ended(v)
    BY <1>1, <1>3, OthersEnded, NoneExecutes, Zenon DEF Claim, Claimable
  <2>5. Execution(w)'
    BY <2>1, <2>2, <2>3 DEF Execution, IsCurrent, Current, Stored, IndexedSteps, BuiltSteps
  <2>6. WorkInv'
    BY <1>1, <2>1, <2>2, <2>3, <2>4, <2>5, SameAttemptGoesOn, OneWorks, Zenon
  <2>7. QED
    BY <2>2, <2>6, ProcessedIsClean
<1>4. ASSUME NEW w \in Workers, Check(w) PROVE WorkInv' /\ (ReadyIsWhole /\ Emptied)'
  <2>1. Active(row) /\ row.owner = w /\ Execution(w) /\ row.attempt = job[w].task
    <3>1. job[w] # Idle
      BY <1>1, <1>4, StepNames, JobFacts DEF Check, JobsOK
    <3>2. QED
      BY <1>1, <1>4, <3>1, CurrentExecutes DEF Check, IsCurrent, Current
  <2>2. /\ row'.attempt = row.attempt /\ row'.owner = row.owner
        /\ row'.lease = "live" /\ Active(row')
    BY <1>1, <1>4, <2>1, CheckedRow DEF Execution
  <2>3. /\ job'[w].at = Following[job[w].at] /\ job'[w].task = job[w].task
        /\ \A v \in Workers \ {w} : job'[v] = job[v]
    BY <1>1, <1>4, StepNames, ProceededJob DEF Check
  <2>4. Stored(Following[job[w].at])
    <3>1. job[w].at \notin Remote
      BY <1>4 DEF Check, Locking, Remote, Steps, Following, ActiveStages
    <3>2. QED
      BY <1>4, <2>1, <3>1, StepNames, StoredNext DEF Check, Execution
  <2>5. Execution(w)'
    BY <1>4, <2>1, <2>2, <2>3, <2>4 DEF Check, Execution, IsCurrent, Current, Stored
  <2>6. \A v \in Workers \ {w} : job[v] # Idle => Ended(v)
    BY <1>1, <2>1, OthersEnded
  <2>7. WorkInv'
    BY <1>1, <2>1, <2>2, <2>3, <2>5, <2>6, SameAttemptGoesOn, OneWorks, Zenon
  <2>8. QED
    BY <2>2, <2>7, ProcessedIsClean
<1>5. ASSUME NEW w \in Workers, Superseded(w) PROVE WorkInv' /\ (ReadyIsWhole /\ Emptied)'
  <2>1. WorkInv'
    BY <1>1, <1>5, EndedJob, SomeStop DEF Superseded
  <2>2. QED
    BY <1>5, <2>1, KeptIsClean DEF Superseded
<1>6. ASSUME NEW w \in Workers, NotRecorded(w) PROVE WorkInv' /\ (ReadyIsWhole /\ Emptied)'
  <2>1. WorkInv'
    BY <1>1, <1>6, EndedJob, SomeStop DEF NotRecorded
  <2>2. QED
    BY <1>6, <2>1, KeptIsClean DEF NotRecorded
<1>7. ASSUME NEW w \in Workers, Kill(w) PROVE WorkInv' /\ (ReadyIsWhole /\ Emptied)'
  <2>1. WorkInv'
    BY <1>1, <1>7, EndedJob, SomeStop DEF Kill
  <2>2. QED
    BY <1>7, <2>1, KeptIsClean DEF Kill
<1>8. ASSUME NEW w \in Workers, Extract(w) PROVE WorkInv' /\ (ReadyIsWhole /\ Emptied)'
  <2>1. job[w] # Idle /\ job[w].at # "failing"
    BY <1>1, <1>8, StepNames, JobFacts DEF Extract, At, JobsOK
  <2>2. Execution(w) /\ Active(row) /\ row.owner = w /\ row.attempt = job[w].task
    BY <1>1, <2>1, StepExecutes DEF IsCurrent, Current
  <2>3. /\ job'[w].at = Following[job[w].at] /\ job'[w].task = job[w].task
        /\ \A v \in Workers \ {w} : job'[v] = job[v]
    BY <1>1, <1>8, StepNames, ProceededJob DEF Extract, At
  <2>4. Stored(Following[job[w].at])
    BY <1>8, <2>2, StepNames, StoredNext DEF Extract, At, Execution, Remote
  <2>5. Execution(w)'
    BY <1>8, <2>2, <2>3, <2>4 DEF Extract, Execution, IsCurrent, Current, Active, Stored
  <2>6. \A v \in Workers \ {w} : job[v] # Idle => Ended(v)
    BY <1>1, <2>2, OthersEnded
  <2>7. row' = row
    BY <1>8, Zenon DEF Extract
  <2>8. WorkInv'
    BY <1>1, <2>2, <2>3, <2>5, <2>6, <2>7, SameAttemptGoesOn, OneWorks, Zenon
  <2>9. QED
    BY <2>2, <2>7, <2>8, ProcessedIsClean
<1>9. ASSUME NEW w \in Workers, Raise(w) PROVE WorkInv' /\ (ReadyIsWhole /\ Emptied)'
  <2>1. job[w] # Idle /\ job[w].at # "failing"
    BY <1>1, <1>9, StepNames, JobFacts DEF Raise, JobsOK
  <2>2. Execution(w) /\ Active(row) /\ row.owner = w /\ row.attempt = job[w].task
    BY <1>1, <2>1, StepExecutes DEF IsCurrent, Current
  <2>3. /\ job'[w].at = "failing" /\ job'[w].task = job[w].task
        /\ \A v \in Workers \ {w} : job'[v] = job[v]
    BY <1>1, <1>9, <2>1, MovedJob DEF Raise, Failing
  <2>4. Stored("failing")
    BY StoredFailing DEF Failing
  <2>5. Execution(w)'
    BY <1>9, <2>2, <2>3, <2>4 DEF Raise, Execution, IsCurrent, Current, Active, Stored
  <2>6. \A v \in Workers \ {w} : job[v] # Idle => Ended(v)
    BY <1>1, <2>2, OthersEnded
  <2>7. row' = row
    BY <1>9, Zenon DEF Raise
  <2>8. WorkInv'
    BY <1>1, <2>2, <2>3, <2>5, <2>6, <2>7, SameAttemptGoesOn, OneWorks, Zenon
  <2>9. QED
    BY <2>2, <2>7, <2>8, ProcessedIsClean
<1>10. ASSUME NEW w \in Workers, CleanupFails(w) PROVE WorkInv' /\ (ReadyIsWhole /\ Emptied)'
  <2>1. job[w] # Idle /\ job[w].at # "failing"
    BY <1>1, <1>10, StepNames, JobFacts DEF CleanupFails, JobsOK
  <2>2. Execution(w) /\ Active(row) /\ row.owner = w /\ row.attempt = job[w].task
    BY <1>1, <2>1, StepExecutes DEF IsCurrent, Current
  <2>3. /\ job'[w].at = "mark_failed" /\ job'[w].task = job[w].task
        /\ \A v \in Workers \ {w} : job'[v] = job[v]
    BY <1>1, <1>10, <2>1, MovedJob DEF CleanupFails, Failing
  <2>4. Stored("mark_failed")
    BY StoredFailing DEF Failing
  <2>5. Execution(w)'
    BY <1>10, <2>2, <2>3, <2>4 DEF CleanupFails, Execution, IsCurrent, Current, Active, Stored
  <2>6. \A v \in Workers \ {w} : job[v] # Idle => Ended(v)
    BY <1>1, <2>2, OthersEnded
  <2>7. row' = row
    BY <1>10, Zenon DEF CleanupFails
  <2>8. WorkInv'
    BY <1>1, <2>2, <2>3, <2>5, <2>6, <2>7, SameAttemptGoesOn, OneWorks, Zenon
  <2>9. QED
    BY <2>2, <2>7, <2>8, ProcessedIsClean
<1>11. ASSUME NEW w \in Workers, Write(w) PROVE WorkInv' /\ (ReadyIsWhole /\ Emptied)'
  <2>1. job[w] # Idle /\ job[w].at # "failing"
    BY <1>1, <1>11, StepNames, JobFacts DEF Write, JobsOK
  <2>2. /\ Execution(w) /\ Active(row) /\ row.owner = w /\ row.attempt = job[w].task
        /\ row.lease = "live" /\ Stored(job[w].at)
    BY <1>1, <2>1, StepExecutes DEF IsCurrent, Current, Execution
  <2>3. /\ job'[w].at = Following[job[w].at] /\ job'[w].task = job[w].task
        /\ \A v \in Workers \ {w} : job'[v] = job[v]
    BY <1>1, <1>11, StepNames, ProceededJob DEF Write
  <2>4. row' = row
    BY <1>11, Zenon DEF Write
  <2>5. PICK s \in Remote : s = job[w].at
    BY <1>11 DEF Write
  <2>6. Stored(Following[s])'
    BY <1>11, <2>2, <2>4, <2>5, StoredAfterWrite DEF Write
  <2>7. Execution(w)'
    BY <2>2, <2>3, <2>4, <2>5, <2>6 DEF Execution, IsCurrent, Current, Stored
  <2>8. \A v \in Workers \ {w} : job[v] # Idle => Ended(v)
    BY <1>1, <2>2, OthersEnded
  <2>9. WorkInv'
    BY <1>1, <2>2, <2>3, <2>4, <2>7, <2>8, SameAttemptGoesOn, OneWorks, Zenon
  <2>10. QED
    BY <2>2, <2>4, <2>9, ProcessedIsClean
<1>12. ASSUME NEW w \in Workers, Complete(w) PROVE WorkInv' /\ (ReadyIsWhole /\ Emptied)'
  <2>1. job[w] # Idle /\ job[w].at = "mark_completed"
    BY <1>1, <1>12, StepNames, JobFacts DEF Complete, At, JobsOK
  <2>2. Execution(w) /\ Active(row) /\ row.owner = w /\ row.attempt = job[w].task
    BY <1>1, <2>1, StepExecutes DEF IsCurrent, Current
  <2>3. row'.stage = "READY" /\ row'.attempt = row.attempt
    BY <1>1, <1>12, CompletedRow DEF Complete, Rebuilds
  <2>4. ~Active(row')
    BY <2>3, StageNames DEF Active
  <2>5. /\ job'[w] = Idle \/ (job'[w].at = "failing" /\ job'[w].task = job[w].task)
        /\ \A v \in Workers \ {w} : job'[v] = job[v]
    BY <1>1, <1>12, <2>1, EndedJob, MovedJob DEF Complete, Failing
  <2>6. job'[w] # Idle => Ended(w)'
    <3>1. row.attempt <= row.attempt
      BY <1>1, AttemptFacts
    <3>2. QED
      BY <2>2, <2>3, <2>4, <2>5, <3>1 DEF Ended
  <2>7. \A v \in Workers \ {w} : job[v] # Idle => Ended(v)
    BY <1>1, <2>2, OthersEnded
  <2>8. WorkInv'
    BY <1>1, <2>3, <2>4, <2>5, <2>6, <2>7, SameAttemptGoesOn, OneWorks, Zenon
  <2>9. vectors' = row'.attempt /\ graph' = GraphOf(row'.attempt)
    BY <1>12, <2>1, <2>2, <2>3 DEF Complete, Execution, Stored, IndexedSteps, BuiltSteps
  <2>10. remover' = "none"
    BY <1>12, <2>2, NotRemoving DEF Complete
  <2>11. QED
    BY <2>3, <2>8, <2>9, <2>10 DEF ReadyIsWhole, Emptied
<1>13. ASSUME NEW w \in Workers, FailureBegins(w) PROVE WorkInv' /\ (ReadyIsWhole /\ Emptied)'
  <2>1. CASE IsCurrent(w)
    <3>1. job[w] # Idle
      BY <1>1, <1>13, JobFacts DEF FailureBegins, At, JobsOK, Failing
    <3>2. Active(row) /\ row.owner = w /\ row.attempt = job[w].task
      BY <2>1 DEF IsCurrent, Current
    <3>3. /\ row'.stage = row.stage /\ row'.attempt = row.attempt /\ row'.owner = row.owner
          /\ row'.lease = "live" /\ Active(row')
      <4>1. row' = [row EXCEPT !.lease = "live"] /\ "live" \in Leases
        BY <1>13, <2>1 DEF FailureBegins, Leases
      <4>2. QED
        BY <1>1, <3>2, <4>1, LeaseRow DEF Active
    <3>4. /\ job'[w].at = "drop_vectors" /\ job'[w].task = job[w].task
          /\ \A v \in Workers \ {w} : job'[v] = job[v]
      BY <1>1, <1>13, <2>1, ProceededJob DEF FailureBegins, At, Following
    <3>5. Execution(w)'
      BY <3>2, <3>3, <3>4 DEF Execution, IsCurrent, Current, Stored, IndexedSteps, BuiltSteps
    <3>6. \A v \in Workers \ {w} : job[v] # Idle => Ended(v)
      BY <1>1, <3>2, OthersEnded
    <3>7. WorkInv'
      BY <1>1, <3>2, <3>3, <3>4, <3>5, <3>6, SameAttemptGoesOn, OneWorks, Zenon
    <3>8. QED
      BY <3>3, <3>7, ProcessedIsClean
  <2>2. CASE ~IsCurrent(w)
    <3>1. WorkInv'
      BY <1>1, <1>13, <2>2, EndedJob, SomeStop DEF FailureBegins
    <3>2. QED
      BY <1>13, <2>2, <3>1, KeptIsClean DEF FailureBegins
  <2>3. QED
    BY <2>1, <2>2
<1>14. ASSUME NEW w \in Workers, Fail(w) PROVE WorkInv' /\ (ReadyIsWhole /\ Emptied)'
  <2>1. job[w] # Idle /\ job[w].at # "failing"
    BY <1>1, <1>14, JobFacts DEF Fail, At, JobsOK, Failing
  <2>2. IsCurrent(w) /\ Active(row) /\ row.owner = w
    BY <1>1, <2>1, StepExecutes DEF IsCurrent, Current
  <2>3. row'.stage = "FAILED" /\ row'.attempt = row.attempt
    BY <1>1, <1>14, <2>2, FailedRow DEF Fail
  <2>4. ~Active(row')
    BY <2>3, StageNames DEF Active
  <2>5. \A v \in Workers \ {w} : job[v] # Idle => Ended(v)
    BY <1>1, <2>2, OthersEnded
  <2>6. job'[w] = Idle /\ \A v \in Workers \ {w} : job'[v] = job[v]
    BY <1>1, <1>14, EndedJob DEF Fail
  <2>7. WorkInv'
    BY <1>1, <2>3, <2>4, <2>5, <2>6, SameAttemptGoesOn, OneWorks, Zenon
  <2>8. QED
    BY <1>14, <2>2, <2>3, <2>7, RestedIsClean DEF Fail
<1>15. ASSUME NEW w \in Workers, Cancel(w) PROVE WorkInv' /\ (ReadyIsWhole /\ Emptied)'
  <2>1. CASE IsCurrent(w)
    <3>1. Active(row) /\ row.owner = w
      BY <2>1 DEF IsCurrent, Current
    <3>2. /\ row'.stage = row.stage /\ row'.attempt = row.attempt
          /\ row'.deleting = row.deleting /\ Active(row')
      BY <1>1, <1>15, <3>1, UnleasedRow DEF Cancel, Active
    <3>3. \A v \in Workers \ {w} : job[v] # Idle => Ended(v)
      BY <1>1, <3>1, OthersEnded
    <3>4. job'[w] = Idle /\ \A v \in Workers \ {w} : job'[v] = job[v]
      BY <1>1, <1>15, EndedJob DEF Cancel
    <3>5. WorkInv'
      BY <1>1, <3>1, <3>2, <3>3, <3>4, SameAttemptGoesOn, OneWorks, Zenon
    <3>6. QED
      BY <3>2, <3>5, ProcessedIsClean
  <2>2. CASE ~IsCurrent(w)
    <3>1. WorkInv'
      BY <1>1, <1>15, <2>2, EndedJob, SomeStop DEF Cancel
    <3>2. QED
      BY <1>15, <2>2, <3>1, KeptIsClean DEF Cancel
  <2>3. QED
    BY <2>1, <2>2
<1>16. ASSUME NEW w \in Workers, Heartbeat(w) PROVE WorkInv' /\ (ReadyIsWhole /\ Emptied)'
  <2>1. job[w] # Idle
    BY <1>1, <1>16, JobFacts DEF Heartbeat, JobsOK
  <2>2. Execution(w)
    BY <1>1, <1>16, <2>1, CurrentExecutes DEF Heartbeat
  <2>3. QED
    BY <1>16, <2>2 DEF Heartbeat, Execution
<1>17. ASSUME LeaseExpires PROVE WorkInv' /\ (ReadyIsWhole /\ Emptied)'
  <2>1. /\ row'.stage = row.stage /\ row'.attempt = row.attempt /\ row'.deleting = row.deleting
        /\ Active(row') => Active(row)
    BY <1>1, <1>17, LeaseRow DEF LeaseExpires, Leases, Active
  <2>2. \A v \in Workers : job[v] # Idle => Ended(v)
    <3>1. ~\E v \in Workers : Executing(v)
      BY <1>17 DEF LeaseExpires
    <3>2. QED
      BY <1>1, <3>1 DEF WorkInv, Execution, Executing
  <2>3. WorkInv'
    BY <1>1, <1>17, <2>1, <2>2, SameAttemptGoesOn, NoneWorks DEF LeaseExpires
  <2>4. QED
    BY <1>17, <2>1, <2>3, KeptIsClean DEF LeaseExpires
<1>18. ASSUME Recover PROVE WorkInv' /\ (ReadyIsWhole /\ Emptied)'
  <2>1. Active(row) /\ \A v \in Workers : job[v] # Idle => Ended(v)
    BY <1>1, <1>18, NoneExecutes DEF Recover, Interrupted
  <2>2. CASE row.attempt < MaxProcessingAttempts
    <3>1. row'.stage = "UPLOADED" /\ row'.attempt = row.attempt + 1 /\ row'.attempt \in Attempts
      BY <1>1, <1>18, <2>2, NextRow, AttemptFacts DEF Recover
    <3>2. GoesOn
      BY <1>1, <3>1, AttemptFacts DEF GoesOn
    <3>3. WorkInv'
      BY <1>1, <1>18, <2>1, <3>2, NoneWorks DEF Recover
    <3>4. Active(row')
      BY <3>1, StageNames DEF Active
    <3>5. QED
      BY <3>3, <3>4, ProcessedIsClean
  <2>3. CASE ~(row.attempt < MaxProcessingAttempts)
    <3>1. row'.stage = "FAILED" /\ row'.attempt = row.attempt
      BY <1>1, <1>18, <2>3, FailedRow DEF Recover
    <3>2. WorkInv'
      BY <1>1, <1>18, <2>1, <3>1, SameAttemptGoesOn, NoneWorks DEF Recover
    <3>3. QED
      BY <1>18, <2>1, <3>1, <3>2, RestedIsClean DEF Recover
  <2>4. QED
    BY <2>2, <2>3
<1>19. ASSUME RetryUpload PROVE WorkInv' /\ (ReadyIsWhole /\ Emptied)'
  <2>1. row.attempt + 1 \in Attempts /\ ~Active(row)
    BY <1>1, <1>19, AttemptFacts, StageNames DEF RetryUpload, CanReprocess, Active
  <2>2. row'.stage = "UPLOADED" /\ row'.attempt = row.attempt + 1 /\ Active(row')
    BY <1>1, <1>19, <2>1, NextRow, StageNames DEF RetryUpload, Active
  <2>3. GoesOn
    BY <1>1, <2>1, <2>2, AttemptFacts DEF GoesOn
  <2>4. WorkInv'
    BY <1>1, <1>19, <2>1, <2>3, NoneExecutes, NoneWorks DEF RetryUpload
  <2>5. QED
    BY <2>2, <2>4, ProcessedIsClean
<1>20. ASSUME RetryChecked PROVE WorkInv' /\ (ReadyIsWhole /\ Emptied)'
  <2>1. CASE UNCHANGED row
    <3>1. WorkInv'
      BY <1>1, <1>20, <2>1, SomeStop DEF RetryChecked
    <3>2. QED
      BY <1>20, <2>1, <3>1, KeptIsClean DEF RetryChecked
  <2>2. CASE /\ Active(row) /\ row.owner = NoOwner
             /\ \E retryable \in BOOLEAN : row' = Failed(row, retryable)
    <3>1. row'.stage = "FAILED" /\ row'.attempt = row.attempt
      BY <1>1, <2>2, FailedRow
    <3>2. \A v \in Workers : job[v] # Idle => Ended(v)
      BY <1>1, <2>2, NoneExecutes
    <3>3. WorkInv'
      BY <1>1, <1>20, <2>2, <3>1, <3>2, SameAttemptGoesOn, NoneWorks DEF RetryChecked
    <3>4. QED
      BY <1>20, <2>2, <3>1, <3>3, RestedIsClean DEF RetryChecked
  <2>3. QED
    BY <1>20, <2>1, <2>2 DEF RetryChecked
<1>21. ASSUME RequestRemoval PROVE WorkInv' /\ (ReadyIsWhole /\ Emptied)'
  <2>1. /\ row'.stage = row.stage /\ row'.attempt = row.attempt /\ row'.deleting
        /\ Active(row') => Active(row)
    BY <1>1, <1>21, MarkedRow DEF RequestRemoval, Active
  <2>2. ~Active(row)
    BY <1>21, StageNames DEF RequestRemoval, Active
  <2>3. WorkInv'
    BY <1>1, <1>21, <2>1, <2>2, SameAttemptGoesOn, NoneExecutes, NoneWorks DEF RequestRemoval
  <2>4. QED
    BY <1>21, <2>1, <2>3, StageNames DEF RequestRemoval, ReadyIsWhole, Emptied
<1>22. ASSUME Remove PROVE WorkInv' /\ (ReadyIsWhole /\ Emptied)'
  <2>1. row' = row /\ row.deleting /\ row.stage # "REMOVED" /\ ~Active(row)
    BY <1>22, StageNames DEF Remove, AfterRemoval, BaseInv, RemovalInv, Active
  <2>2. WorkInv'
    BY <1>1, <1>22, <2>1, SameAttemptGoesOn, NoneExecutes, NoneWorks DEF Remove
  <2>3. Emptied'
    BY <1>22, <2>1 DEF Remove, Effect, AfterRemoval, Clean, Emptied
  <2>4. QED
    BY <2>1, <2>2, <2>3 DEF ReadyIsWhole
<1>23. ASSUME RemoveRow PROVE WorkInv' /\ (ReadyIsWhole /\ Emptied)'
  <2>1. row'.stage = "REMOVED" /\ row'.attempt = row.attempt
    BY <1>1, <1>23, RemovedRow DEF RemoveRow
  <2>2. ~Active(row) /\ ~Active(row')
    BY <1>23, <2>1, StageNames DEF RemoveRow, BaseInv, RemovalInv, Active
  <2>3. WorkInv'
    BY <1>1, <1>23, <2>1, <2>2, SameAttemptGoesOn, NoneExecutes, NoneWorks DEF RemoveRow
  <2>4. QED
    BY <1>23, <2>1, <2>3 DEF RemoveRow, Clean, ReadyIsWhole, Emptied
<1>24. ASSUME RemovalFails PROVE WorkInv' /\ (ReadyIsWhole /\ Emptied)'
  <2>1. WorkInv'
    BY <1>1, <1>24, SomeStop DEF RemovalFails
  <2>2. QED
    BY <1>24, <2>1, KeptIsClean DEF RemovalFails
<1>25. ASSUME UNCHANGED vars PROVE WorkInv' /\ (ReadyIsWhole /\ Emptied)'
  <2>1. WorkInv'
    BY <1>1, <1>25, SomeStop DEF vars
  <2>2. QED
    BY <1>25, <2>1, KeptIsClean DEF vars
<1>26. QED
    BY <1>3, <1>4, <1>5, <1>6, <1>7, <1>8, <1>9, <1>10, <1>11, <1>12, <1>13, <1>14, <1>15, <1>16,
     <1>17, <1>18, <1>19, <1>20, <1>21, <1>22, <1>23, <1>24, <1>25, Zenon DEF Next

-----------------------------------------------------------------------------
LEMMA InitIInv ==
  ASSUME Init
  PROVE  IInv
<1>1. NewRow \in Rows(Workers) /\ NewRow.stage = "UPLOADED"
  BY AttemptFacts DEF NewRow, Rows, Stages, ActiveStages, Leases, GraphStatuses, Rebuilds
<1>2. TypeOK
  BY <1>1, WorkersAssumption DEF Init, TypeOK
<1>3. RemovalInv
  BY <1>1 DEF Init, RemovalInv
<1>4. WorkInv /\ ReadyIsWhole /\ Emptied
  BY <1>1 DEF Init, WorkInv, ReadyIsWhole, Emptied
<1>5. QED
  BY <1>2, <1>3, <1>4 DEF IInv

LEMMA StepIInv ==
  ASSUME IInv, [Next]_vars
  PROVE  IInv'
<1>1. BaseInv /\ BaseInv'
  BY TypeStep, RemovalStep DEF BaseInv, IInv
<1>2. faults' = 0 => faults = 0
  <2>1. faults \in Nat /\ faults' \in Nat
    BY <1>1, WorkersAssumption DEF BaseInv, TypeOK
  <2>2. faults' \in {faults, faults + 1}
    BY <2>1 DEF Next, vars, Claim, Check, Superseded, Extract, Write, Complete, Raise, FailureBegins,
            CleanupFails, Fail, NotRecorded, Cancel, Kill, Heartbeat, LeaseExpires, Recover,
            RetryUpload, RetryChecked, RequestRemoval, Remove, RemoveRow, RemovalFails
  <2>3. QED
    BY <2>1, <2>2
<1>3. faults' = 0 => Clean'
  BY <1>1, <1>2, WorkStep DEF IInv, Clean
<1>4. QED
  BY <1>1, <1>3 DEF IInv, BaseInv, Clean

(* As long as no execution has lost the row while it was alive, one at most*)
(* is at work and finds in the stores what it has put there itself.        *)
THEOREM PlainInvariance == Spec => []IInv
<1>1. Init => IInv
  BY InitIInv
<1>2. IInv /\ [Next]_vars => IInv'
  BY StepIInv
<1>3. QED
  BY <1>1, <1>2, PTL DEF Spec

(* Without fences a READY document has the vectors and the graph of its own*)
(* attempt and no other's, and a removed one has none: no kill, shutdown,  *)
(* half cleanup or lost answer changes that while no lease is lost alive.  *)
THEOREM StoresFollowTheRow == Spec => []StoresMatchRow
<1>1. IInv => StoresMatchRow
  BY DEF IInv, StoresMatchRow, Emptied
<1>2. QED
  BY <1>1, PlainInvariance, PTL

-----------------------------------------------------------------------------
(***************************************************************************)
(* Parsing: the text of a document's pages, which the statements above     *)
(* start from.                                                             *)
(***************************************************************************)
CONSTANTS PageCount, OcrEnabled, MixedEnabled, RetryEnabled, OcrPages

VARIABLES pages, attempted, failure

P == INSTANCE Parsing

PageTypes ==
  [layer : P!Layers, text : SUBSET {"native", "ocr", "image"},
   reading : P!Readings \cup {"none"}, warned : BOOLEAN]

(* What AcceptedText says of one page.                                     *)
PageAccepted(p) ==
  /\ p.layer \in {"sparse", "good"} => "native" \in p.text \/ p.reading = "better"
  /\ p.layer = "good" => "native" \in p.text
  /\ p.text \cap {"ocr", "image"} # {} => P!Usable(p.reading)
  /\ p.layer = "poor" /\ "native" \in p.text => p.warned

LEMMA AcceptedParts ==
  P!AcceptedText <=>
    /\ pages \in Seq(PageTypes) /\ Len(pages) <= PageCount
    /\ attempted \in 0 .. OcrPages
    /\ failure \in [why : {"", "limit", "ocr"}, layer : P!Layers]
    /\ \A i \in DOMAIN pages : PageAccepted(pages[i])
    /\ failure.why = "ocr" => failure.layer \in {"none", "poor"}
BY DEF P!AcceptedText, P!TypeOK, PageTypes, PageAccepted

(* A page that is accepted joins those that are.                           *)
LEMMA PageJoins ==
  ASSUME P!ParsingAssumption, P!AcceptedText, P!Going, NEW p \in PageTypes, PageAccepted(p),
         pages' = Append(pages, p), attempted' \in 0 .. OcrPages, UNCHANGED failure
  PROVE  P!AcceptedText'
<1>1. pages \in Seq(PageTypes) /\ PageCount \in Nat
  BY AcceptedParts DEF P!ParsingAssumption
<1>2. /\ pages' \in Seq(PageTypes) /\ Len(pages') = Len(pages) + 1
      /\ \A i \in DOMAIN pages' : pages'[i] = p \/ (i \in DOMAIN pages /\ pages'[i] = pages[i])
  BY <1>1
<1>3. Len(pages') <= PageCount
  BY <1>1, <1>2 DEF P!Going
<1>4. \A i \in DOMAIN pages' : PageAccepted(pages'[i])
  BY <1>2, AcceptedParts
<1>5. /\ failure' \in [why : {"", "limit", "ocr"}, layer : P!Layers]
      /\ failure'.why = "ocr" => failure'.layer \in {"none", "poor"}
  BY AcceptedParts
<1>6. QED
  BY <1>2, <1>3, <1>4, <1>5 DEF P!AcceptedText, P!TypeOK, PageTypes, PageAccepted

(* The document fails; its pages stay as they are.                         *)
LEMMA FailingAccepted ==
  ASSUME P!AcceptedText, NEW layer \in P!Layers, NEW why \in {"limit", "ocr"}, P!FailAt(layer, why),
         why = "ocr" => layer \in {"none", "poor"}, attempted' \in 0 .. OcrPages
  PROVE  P!AcceptedText'
<1>1. /\ failure' \in [why : {"", "limit", "ocr"}, layer : P!Layers]
      /\ failure'.why = "ocr" => failure'.layer \in {"none", "poor"}
  BY DEF P!FailAt
<1>2. pages' = pages
  BY DEF P!FailAt
<1>3. /\ pages' \in Seq(PageTypes) /\ Len(pages') <= PageCount
      /\ \A i \in DOMAIN pages' : PageAccepted(pages'[i])
  BY <1>2, AcceptedParts
<1>4. QED
  BY <1>1, <1>3 DEF P!AcceptedText, P!TypeOK, PageTypes, PageAccepted

LEMMA AcceptedStep ==
  ASSUME P!ParsingAssumption, P!AcceptedText, [P!Next]_(P!vars)
  PROVE  P!AcceptedText'
<1>1. attempted \in 0 .. OcrPages /\ OcrPages \in Nat
  BY AcceptedParts DEF P!ParsingAssumption
<1>2. CASE UNCHANGED P!vars
  BY <1>2 DEF P!vars, P!AcceptedText, P!TypeOK
<1>3. ASSUME NEW layer \in P!Layers, P!OverLimit(layer)
      PROVE  P!AcceptedText'
  BY <1>1, <1>3, FailingAccepted DEF P!OverLimit
<1>4. ASSUME NEW layer \in P!Layers, NEW region \in P!Regions, P!Keep(layer, region)
      PROVE  P!AcceptedText'
  <2> DEFINE warned == \/ P!Wanted(layer, region) \/ layer = "poor"
                       \/ OcrEnabled /\ MixedEnabled /\ region = "unknown"
             p == P!Page(layer, IF layer = "none" THEN {} ELSE {"native"}, "none", warned)
  <2>1. P!Going /\ pages' = Append(pages, p) /\ attempted' = attempted /\ failure' = failure
    BY <1>4 DEF P!Keep
  <2>2. p \in PageTypes
    BY DEF P!Page, PageTypes, P!ParsingAssumption, P!Wanted, P!Needed
  <2>3. PageAccepted(p)
    BY DEF P!Page, PageAccepted
  <2> HIDE DEF p
  <2>4. QED
    BY <1>1, <2>1, <2>2, <2>3, PageJoins
<1>5. ASSUME NEW layer \in P!Layers, NEW region \in P!Regions,
             NEW first \in P!Readings, NEW retry \in P!Readings, P!Recognise(layer, region, first, retry)
      PROVE  P!AcceptedText'
  <2> DEFINE reading == P!Recognised(first, retry)
             text == CASE P!Needed(layer) /\ P!Preferred(layer, reading)  -> {"ocr"}
                       [] P!Needed(layer) /\ ~P!Preferred(layer, reading) -> IF layer = "none" THEN {} ELSE {"native"}
                       [] ~P!Needed(layer) /\ P!Usable(reading)           -> {"native", "image"}
                       [] OTHER                                           -> {"native"}
             warned == ~P!Usable(reading) \/ (P!Needed(layer) /\ ~P!Preferred(layer, reading))
             p == P!Page(layer, text, reading, warned)
  <2>1. P!Going /\ pages' = Append(pages, p) /\ attempted' = attempted + 1 /\ failure' = failure
        /\ attempted < OcrPages /\ (P!Needed(layer) \/ P!Wanted(layer, region))
    BY <1>5 DEF P!Recognise, P!Recognises
  <2>2. reading \in P!Readings
    BY DEF P!Recognised
  <2>3. /\ p.layer = layer /\ p.text = text /\ p.reading = reading /\ p.warned = warned
        /\ p = [layer |-> layer, text |-> text, reading |-> reading, warned |-> warned]
    BY DEF P!Page
  <2> HIDE DEF reading, p
  <2>4. text \in SUBSET {"native", "ocr", "image"} /\ warned \in BOOLEAN
    BY DEF P!Usable, P!Needed, P!Preferred
  <2>5. PageAccepted(p)
    <3>1. CASE P!Needed(layer) /\ P!Preferred(layer, reading)
      <4>1. text = {"ocr"} /\ layer # "good"
        BY <3>1 DEF P!Needed
      <4>2. P!Usable(reading)
        BY <3>1 DEF P!Preferred, P!Usable
      <4>3. layer = "sparse" => reading = "better"
        BY <3>1 DEF P!Preferred
      <4>4. QED
        BY <2>3, <4>1, <4>2, <4>3 DEF PageAccepted
    <3>2. CASE P!Needed(layer) /\ ~P!Preferred(layer, reading)
      <4>1. text = (IF layer = "none" THEN {} ELSE {"native"}) /\ warned /\ layer # "good"
        BY <3>2 DEF P!Needed
      <4>2. QED
        BY <2>3, <4>1 DEF PageAccepted
    <3>3. CASE ~P!Needed(layer)
      <4>1. layer # "poor"
        BY <2>1, <3>3 DEF P!Needed, P!Wanted
      <4>2. text = IF P!Usable(reading) THEN {"native", "image"} ELSE {"native"}
        BY <3>3
      <4>3. QED
        BY <2>3, <4>1, <4>2 DEF PageAccepted
    <3>4. QED
      BY <3>1, <3>2, <3>3
  <2>6. p \in PageTypes
    BY <2>2, <2>3, <2>4 DEF PageTypes
  <2>7. attempted' \in 0 .. OcrPages
    BY <1>1, <2>1
  <2>8. QED
    BY <2>1, <2>5, <2>6, <2>7, PageJoins
<1>6. ASSUME NEW layer \in P!Layers, NEW region \in P!Regions, P!RecognitionFails(layer, region)
      PROVE  P!AcceptedText'
  <2>1. P!Going /\ attempted' \in 0 .. OcrPages
    BY <1>1, <1>6 DEF P!RecognitionFails, P!Recognises
  <2>2. CASE layer \in {"none", "poor"}
    BY <1>6, <2>1, <2>2, FailingAccepted DEF P!RecognitionFails
  <2>3. CASE layer \notin {"none", "poor"}
    <3> DEFINE p == P!Page(layer, {"native"}, "none", TRUE)
    <3>1. pages' = Append(pages, p) /\ UNCHANGED failure
      BY <1>6, <2>3 DEF P!RecognitionFails
    <3>2. p \in PageTypes /\ PageAccepted(p)
      BY <2>3 DEF P!Page, PageTypes, PageAccepted
    <3> HIDE DEF p
    <3>3. QED
      BY <2>1, <3>1, <3>2, PageJoins
  <2>4. QED
    BY <2>2, <2>3
<1>7. QED
  BY <1>2, <1>3, <1>4, <1>5, <1>6 DEF P!Next

(* AcceptedText for any number of pages, any limit of recognised pages and *)
(* any settings: recognition loses no readable text and adds none that is  *)
(* below the thresholds, and its failure fails no readable page.           *)
THEOREM ReadableTextIsKept ==
  ASSUME P!ParsingAssumption
  PROVE  P!Spec => []P!AcceptedText
<1>1. P!Init => P!AcceptedText
  <2> SUFFICES ASSUME P!Init PROVE P!AcceptedText
    OBVIOUS
  <2>1. pages \in Seq(PageTypes) /\ Len(pages) <= PageCount /\ DOMAIN pages = {}
    BY DEF P!ParsingAssumption, P!Init
  <2>2. attempted \in 0 .. OcrPages
    BY DEF P!ParsingAssumption, P!Init
  <2>3. failure = [why |-> "", layer |-> "none"] /\ "none" \in P!Layers
    BY DEF P!Init, P!NoFailure, P!Layers
  <2>4. QED
    BY <2>1, <2>2, <2>3, AcceptedParts
<1>2. QED
  BY <1>1, AcceptedStep, PTL DEF P!Spec
=============================================================================
