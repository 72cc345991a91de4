------------------------ MODULE DocumentLifecycleProofs ------------------------
(***************************************************************************)
(* Theorems about DocumentLifecycle for any number of processes, workers,  *)
(* attempts, batches and faults, in five parts: types and the              *)
(* coordinators' keys (ExclusiveInv); the row, its attempt history and its *)
(* checkpoints (RecordInv); the remote stores and requests that arrive     *)
(* late (FenceInv); what a READY document shows (AttemptInv); and that all *)
(* of it moves as UploadJob promises the document's owner (PromiseKept).   *)
(***************************************************************************)
EXTENDS DocumentLifecycle, TLAPS

(* What waits in a queue, and that nothing waits twice.                    *)
Elements(s) == {s[n] : n \in DOMAIN s}
Distinct(s) == \A m, n \in DOMAIN s : s[m] = s[n] => m = n

(* The tasks in the hands of the workers of process i.                     *)
Held(i) == {job[w].task : w \in {v \in Workers : Home[v] = i /\ job[v] # Idle}}

(* A process has a key for each task that waits or is executed, no other.  *)
KeysOK(i) ==
  /\ queued[i] = Elements(queue[i]) \cup Held(i)
  /\ Distinct(queue[i])
  /\ Len(queue[i]) <= QueueCapacity

(* A task is in one place: in the queue or with one worker of its process. *)
InOnePlace(v) ==
  job[v] # Idle =>
    /\ \A w \in Workers :
         job[w] # Idle /\ Home[w] = Home[v] /\ job[w].task = job[v].task => w = v
    /\ job[v].task \notin Elements(queue[Home[v]])

(* What the coordinators of the processes know of the work they hold.      *)
KeyInv == /\ \A i \in Instances : KeysOK(i)
          /\ \A v \in Workers : InOnePlace(v)

-----------------------------------------------------------------------------
(* Sequences without repetition.                                           *)
LEMMA Appended ==
  ASSUME NEW S, NEW s \in Seq(S), NEW e \in S, Distinct(s), e \notin Elements(s)
  PROVE  /\ Append(s, e) \in Seq(S)
         /\ Len(Append(s, e)) = Len(s) + 1
         /\ Elements(Append(s, e)) = Elements(s) \cup {e}
         /\ Distinct(Append(s, e))
<1> DEFINE t == Append(s, e)
<1>1. /\ t \in Seq(S) /\ Len(t) = Len(s) + 1 /\ Len(s) \in Nat
      /\ DOMAIN t = 1 .. (Len(s) + 1) /\ DOMAIN s = 1 .. Len(s)
      /\ \A n \in 1 .. Len(s) : t[n] = s[n]
      /\ t[Len(s) + 1] = e
  OBVIOUS
<1>2. Elements(t) = Elements(s) \cup {e}
  <2>1. ASSUME NEW x \in Elements(t) PROVE x \in Elements(s) \cup {e}
    BY <1>1, <2>1 DEF Elements
  <2>2. ASSUME NEW x \in Elements(s) PROVE x \in Elements(t)
    <3>1. PICK n \in DOMAIN s : x = s[n]
      BY DEF Elements
    <3>2. n \in DOMAIN t /\ t[n] = x
      BY <1>1, <3>1
    <3>3. QED
      BY <3>2 DEF Elements
  <2>3. e \in Elements(t)
    <3>1. Len(s) + 1 \in DOMAIN t
      BY <1>1
    <3>2. QED
      BY <1>1, <3>1 DEF Elements
  <2>4. QED
    BY <2>1, <2>2, <2>3
<1>3. Distinct(t)
  <2>1. \A n \in 1 .. Len(s) : t[n] # e
    BY <1>1 DEF Elements
  <2>2. QED
    BY <1>1, <2>1 DEF Distinct
<1>4. QED
  BY <1>1, <1>2, <1>3

LEMMA Popped ==
  ASSUME NEW S, NEW s \in Seq(S), s # <<>>, Distinct(s)
  PROVE  /\ Head(s) \in S /\ Tail(s) \in Seq(S)
         /\ Len(Tail(s)) = Len(s) - 1 /\ Len(s) \in Nat
         /\ Head(s) \in Elements(s)
         /\ Elements(Tail(s)) = Elements(s) \ {Head(s)}
         /\ Distinct(Tail(s))
<1> DEFINE t == Tail(s)
<1>1. /\ t \in Seq(S) /\ Len(t) = Len(s) - 1 /\ Len(s) \in Nat \ {0}
      /\ DOMAIN t = 1 .. (Len(s) - 1) /\ DOMAIN s = 1 .. Len(s)
      /\ \A n \in 1 .. (Len(s) - 1) : t[n] = s[n + 1]
      /\ Head(s) = s[1] /\ Head(s) \in S
  OBVIOUS
<1>2. Head(s) \in Elements(s)
  BY <1>1 DEF Elements
<1>3. Elements(t) = Elements(s) \ {Head(s)}
  <2>1. ASSUME NEW x \in Elements(t) PROVE x \in Elements(s) /\ x # Head(s)
    <3>1. PICK n \in 1 .. (Len(s) - 1) : x = s[n + 1]
      BY <1>1, <2>1 DEF Elements
    <3>2. n + 1 \in DOMAIN s /\ n + 1 # 1 /\ 1 \in DOMAIN s
      BY <1>1
    <3>3. QED
      BY <1>1, <3>1, <3>2 DEF Elements, Distinct
  <2>2. ASSUME NEW x \in Elements(s), x # Head(s) PROVE x \in Elements(t)
    <3>1. PICK n \in 1 .. Len(s) : x = s[n]
      BY <1>1, <2>2 DEF Elements
    <3>2. n # 1 /\ n - 1 \in 1 .. (Len(s) - 1) /\ (n - 1) + 1 = n
      BY <1>1, <2>2, <3>1
    <3>3. t[n - 1] = x /\ n - 1 \in DOMAIN t
      BY <1>1, <3>1, <3>2
    <3>4. QED
      BY <3>3 DEF Elements
  <2>3. QED
    BY <2>1, <2>2
<1>4. Distinct(t)
  <2>1. ASSUME NEW m \in 1 .. (Len(s) - 1), NEW n \in 1 .. (Len(s) - 1), t[m] = t[n] PROVE m = n
    <3>1. s[m + 1] = s[n + 1] /\ m + 1 \in DOMAIN s /\ n + 1 \in DOMAIN s
      BY <1>1, <2>1
    <3>2. m + 1 = n + 1
      BY <3>1 DEF Distinct
    <3>3. QED
      BY <3>2
  <2>2. QED
    BY <1>1, <2>1 DEF Distinct
<1>5. QED
  BY <1>1, <1>2, <1>3, <1>4

-----------------------------------------------------------------------------
(* What the transactions of UploadService make of a row.                   *)
LEMMA AttemptFacts ==
  /\ 1 \in Attempts /\ 0 \notin Attempts
  /\ \A n \in Attempts : n \in Nat /\ n >= 1 /\ n <= MaxGraphProcessingAttempts
  /\ \A n \in Attempts : n < MaxProcessingAttempts => n + 1 \in Attempts
  /\ \A n \in Attempts : n < MaxGraphProcessingAttempts => n + 1 \in Attempts
BY AttemptLimitsAssumption DEF Attempts

LEMMA RowFields ==
  ASSUME NEW r \in Rows(Instances)
  PROVE  /\ r.stage \in Stages /\ r.attempt \in Attempts /\ r.owner \in Instances \cup {NoOwner}
         /\ r.lease \in Leases /\ r.deleting \in BOOLEAN
         /\ r.rebuild \in Rebuilds /\ r.graphStatus \in GraphStatuses \cup {"none"}
         /\ r.retryable \in BOOLEAN
BY DEF Rows

LEMMA LeasedRow ==
  ASSUME NEW r \in Rows(Instances), NEW o \in Instances
  PROVE  /\ Leased(r, o) \in Rows(Instances)
         /\ Leased(r, o).stage = r.stage /\ Leased(r, o).attempt = r.attempt
         /\ Leased(r, o).owner = o /\ Leased(r, o).deleting = r.deleting
         /\ Leased(r, o).graphStatus = r.graphStatus
         /\ Leased(r, o).retryable = r.retryable
BY DEF Rows, Leased, Leases

LEMMA UnleasedRow ==
  ASSUME NEW r \in Rows(Instances)
  PROVE  /\ Unleased(r) \in Rows(Instances)
         /\ Unleased(r).stage = r.stage /\ Unleased(r).attempt = r.attempt
         /\ Unleased(r).owner = NoOwner /\ Unleased(r).deleting = r.deleting
         /\ Unleased(r).graphStatus = r.graphStatus
         /\ Unleased(r).retryable = r.retryable
BY DEF Rows, Unleased, Leases

LEMMA StagedRow ==
  ASSUME NEW r \in Rows(Instances), NEW s \in Stages
  PROVE  /\ Staged(r, s) \in Rows(Instances)
         /\ Staged(r, s).stage = s /\ Staged(r, s).attempt = r.attempt
         /\ Staged(r, s).owner = r.owner /\ Staged(r, s).deleting = r.deleting
         /\ Staged(r, s).graphStatus = r.graphStatus
         /\ Staged(r, s).retryable = r.retryable
BY DEF Rows, Staged, Leases

(* A row between two executions, one field after the other.                *)
LEMMA StageField ==
  ASSUME NEW r \in Rows(Instances), NEW s \in Stages
  PROVE  /\ [r EXCEPT !.stage = s] \in Rows(Instances)
         /\ [r EXCEPT !.stage = s].stage = s /\ [r EXCEPT !.stage = s].attempt = r.attempt
         /\ [r EXCEPT !.stage = s].owner = r.owner /\ [r EXCEPT !.stage = s].deleting = r.deleting
BY DEF Rows

LEMMA AttemptField ==
  ASSUME NEW r \in Rows(Instances), NEW n \in Attempts
  PROVE  /\ [r EXCEPT !.attempt = n] \in Rows(Instances)
         /\ [r EXCEPT !.attempt = n].stage = r.stage /\ [r EXCEPT !.attempt = n].attempt = n
         /\ [r EXCEPT !.attempt = n].owner = r.owner
         /\ [r EXCEPT !.attempt = n].deleting = r.deleting
BY DEF Rows

LEMMA RetryableField ==
  ASSUME NEW r \in Rows(Instances), NEW b \in BOOLEAN
  PROVE  /\ [r EXCEPT !.retryable = b] \in Rows(Instances)
         /\ [r EXCEPT !.retryable = b].stage = r.stage
         /\ [r EXCEPT !.retryable = b].attempt = r.attempt
         /\ [r EXCEPT !.retryable = b].owner = r.owner
         /\ [r EXCEPT !.retryable = b].deleting = r.deleting
         /\ [r EXCEPT !.retryable = b].graphStatus = r.graphStatus
         /\ [r EXCEPT !.retryable = b].retryable = b
BY DEF Rows

LEMMA GraphField ==
  ASSUME NEW r \in Rows(Instances), NEW v \in GraphStatuses \cup {"none"}
  PROVE  /\ [r EXCEPT !.graphStatus = v] \in Rows(Instances)
         /\ [r EXCEPT !.graphStatus = v].stage = r.stage
         /\ [r EXCEPT !.graphStatus = v].attempt = r.attempt
         /\ [r EXCEPT !.graphStatus = v].owner = r.owner
         /\ [r EXCEPT !.graphStatus = v].deleting = r.deleting
         /\ [r EXCEPT !.graphStatus = v].graphStatus = v
BY DEF Rows

LEMMA RebuildField ==
  ASSUME NEW r \in Rows(Instances), NEW v \in Rebuilds
  PROVE  /\ [r EXCEPT !.rebuild = v] \in Rows(Instances)
         /\ [r EXCEPT !.rebuild = v].stage = r.stage
         /\ [r EXCEPT !.rebuild = v].attempt = r.attempt
         /\ [r EXCEPT !.rebuild = v].owner = r.owner
         /\ [r EXCEPT !.rebuild = v].deleting = r.deleting
         /\ [r EXCEPT !.rebuild = v].graphStatus = r.graphStatus
BY DEF Rows

LEMMA NextRow ==
  ASSUME NEW r \in Rows(Instances), r.attempt + 1 \in Attempts
  PROVE  /\ NextAttempt(r) \in Rows(Instances)
         /\ NextAttempt(r).stage = "UPLOADED" /\ NextAttempt(r).attempt = r.attempt + 1
         /\ NextAttempt(r).owner = NoOwner /\ NextAttempt(r).deleting = r.deleting
<1> DEFINE u == Unleased(r)
           n == r.attempt + 1
           s == [u EXCEPT !.stage = "UPLOADED"]
           a == [s EXCEPT !.attempt = n]
           b == [a EXCEPT !.retryable = FALSE]
           h == [b EXCEPT !.graphStatus = "none"]
           g == [h EXCEPT !.rebuild = "open"]
<1>1. u \in Rows(Instances) /\ u.owner = NoOwner /\ u.deleting = r.deleting /\ n \in Attempts
  BY UnleasedRow
<1>2. NextAttempt(r) = [u EXCEPT !.stage = "UPLOADED", !.attempt = n, !.retryable = FALSE,
                                 !.graphStatus = "none", !.rebuild = "open"]
  BY Zenon DEF NextAttempt
<1> HIDE DEF u, n
<1>3. NextAttempt(r) = g
  BY <1>1, <1>2 DEF Rows
<1>4. /\ "UPLOADED" \in Stages /\ FALSE \in BOOLEAN
      /\ "none" \in GraphStatuses \cup {"none"} /\ "open" \in Rebuilds
  BY DEF Rebuilds, Stages, ActiveStages
<1> HIDE DEF s, a, b, h, g
<1>5. s \in Rows(Instances) /\ s.stage = "UPLOADED" /\ s.owner = u.owner /\ s.deleting = u.deleting
  BY <1>1, <1>4, StageField DEF s
<1>6. /\ a \in Rows(Instances) /\ a.stage = s.stage /\ a.attempt = n
      /\ a.owner = s.owner /\ a.deleting = s.deleting
  BY <1>1, <1>5, AttemptField DEF a
<1>7. /\ b \in Rows(Instances) /\ b.stage = a.stage /\ b.attempt = a.attempt
      /\ b.owner = a.owner /\ b.deleting = a.deleting
  BY <1>4, <1>6, RetryableField DEF b
<1>8. /\ h \in Rows(Instances) /\ h.stage = b.stage /\ h.attempt = b.attempt
      /\ h.owner = b.owner /\ h.deleting = b.deleting
  BY <1>4, <1>7, GraphField DEF h
<1>9. /\ g \in Rows(Instances) /\ g.stage = h.stage /\ g.attempt = h.attempt
       /\ g.owner = h.owner /\ g.deleting = h.deleting
  BY <1>4, <1>8, RebuildField DEF g
<1>10. QED
  BY <1>1, <1>3, <1>5, <1>6, <1>7, <1>8, <1>9 DEF n

LEMMA CompletedRow ==
  ASSUME NEW r \in Rows(Instances), NEW gs \in GraphStatuses, NEW rb \in Rebuilds
  PROVE  /\ Completed(r, gs, rb) \in Rows(Instances)
         /\ Completed(r, gs, rb).stage = "READY" /\ Completed(r, gs, rb).attempt = r.attempt
         /\ Completed(r, gs, rb).owner = NoOwner /\ Completed(r, gs, rb).deleting = r.deleting
         /\ Completed(r, gs, rb).graphStatus = gs
<1> DEFINE u == Unleased(r)
           s == [u EXCEPT !.stage = "READY"]
           h == [s EXCEPT !.graphStatus = gs]
           g == [h EXCEPT !.rebuild = rb]
           b == [g EXCEPT !.retryable = FALSE]
<1>1. /\ u \in Rows(Instances) /\ u.owner = NoOwner
      /\ u.attempt = r.attempt /\ u.deleting = r.deleting
  BY UnleasedRow
<1>2. Completed(r, gs, rb) = [u EXCEPT !.stage = "READY", !.graphStatus = gs, !.rebuild = rb,
                                       !.retryable = FALSE]
  BY Zenon DEF Completed
<1> HIDE DEF u
<1>3. Completed(r, gs, rb) = b
  BY <1>1, <1>2 DEF Rows
<1>4. "READY" \in Stages /\ FALSE \in BOOLEAN /\ gs \in GraphStatuses \cup {"none"}
  BY DEF Stages, DeletableStages
<1> HIDE DEF s, b, h, g
<1>5. /\ s \in Rows(Instances) /\ s.stage = "READY" /\ s.attempt = u.attempt
      /\ s.owner = u.owner /\ s.deleting = u.deleting
  BY <1>1, <1>4, StageField DEF s
<1>6. /\ h \in Rows(Instances) /\ h.stage = s.stage /\ h.attempt = s.attempt
      /\ h.owner = s.owner /\ h.deleting = s.deleting /\ h.graphStatus = gs
  BY <1>4, <1>5, GraphField DEF h
<1>7. /\ g \in Rows(Instances) /\ g.stage = h.stage /\ g.attempt = h.attempt
      /\ g.owner = h.owner /\ g.deleting = h.deleting /\ g.graphStatus = h.graphStatus
  BY <1>6, RebuildField DEF g
<1>8. /\ b \in Rows(Instances) /\ b.stage = g.stage /\ b.attempt = g.attempt
      /\ b.owner = g.owner /\ b.deleting = g.deleting /\ b.graphStatus = g.graphStatus
  BY <1>4, <1>7, RetryableField DEF b
<1>9. QED
  BY <1>1, <1>3, <1>5, <1>6, <1>7, <1>8

LEMMA FailedRow ==
  ASSUME NEW r \in Rows(Instances), NEW retryable \in BOOLEAN
  PROVE  /\ Failed(r, retryable) \in Rows(Instances)
         /\ Failed(r, retryable).stage = "FAILED" /\ Failed(r, retryable).attempt = r.attempt
         /\ Failed(r, retryable).owner = NoOwner /\ Failed(r, retryable).deleting = r.deleting
         /\ Failed(r, retryable).retryable = (retryable /\ r.attempt < MaxProcessingAttempts)
<1> DEFINE u == Unleased(r)
           again == retryable /\ r.attempt < MaxProcessingAttempts
           s == [u EXCEPT !.stage = "FAILED"]
           b == [s EXCEPT !.retryable = again]
<1>1. /\ u \in Rows(Instances) /\ u.owner = NoOwner
      /\ u.attempt = r.attempt /\ u.deleting = r.deleting
  BY UnleasedRow
<1>2. Failed(r, retryable) = [u EXCEPT !.stage = "FAILED", !.retryable = again]
  BY Zenon DEF Failed
<1>3. again \in BOOLEAN
  OBVIOUS
<1> HIDE DEF u, again
<1>4. Failed(r, retryable) = b
  BY <1>1, <1>2, <1>3 DEF Rows
<1> HIDE DEF s, b
<1>5. /\ s \in Rows(Instances) /\ s.stage = "FAILED" /\ s.attempt = u.attempt
      /\ s.owner = u.owner /\ s.deleting = u.deleting
  BY <1>1, StageField DEF s, Stages, DeletableStages
<1>6. /\ b \in Rows(Instances) /\ b.stage = s.stage /\ b.attempt = s.attempt
      /\ b.owner = s.owner /\ b.deleting = s.deleting /\ b.retryable = again
  BY <1>3, <1>5, RetryableField DEF b
<1>7. QED
  BY <1>1, <1>4, <1>5, <1>6 DEF again

LEMMA MarkedRow ==
  ASSUME NEW r \in Rows(Instances)
  PROVE  /\ MarkedDeleting(r) \in Rows(Instances)
         /\ MarkedDeleting(r).stage = r.stage /\ MarkedDeleting(r).attempt = r.attempt
         /\ MarkedDeleting(r).owner = r.owner /\ MarkedDeleting(r).deleting
         /\ MarkedDeleting(r).graphStatus = r.graphStatus
         /\ MarkedDeleting(r).retryable = r.retryable
BY DEF Rows, MarkedDeleting

LEMMA RemovedRow ==
  ASSUME NEW r \in Rows(Instances)
  PROVE  /\ Removed(r) \in Rows(Instances)
         /\ Removed(r).stage = "REMOVED" /\ Removed(r).attempt = r.attempt
         /\ Removed(r).owner = NoOwner /\ Removed(r).deleting
BY DEF Rows, Removed, NewRow, Stages, Leases, GraphStatuses, Rebuilds

LEMMA LeaseChanged ==
  ASSUME NEW r \in Rows(Instances), NEW l \in Leases
  PROVE  /\ [r EXCEPT !.lease = l] \in Rows(Instances)
         /\ [r EXCEPT !.lease = l].stage = r.stage /\ [r EXCEPT !.lease = l].attempt = r.attempt
         /\ [r EXCEPT !.lease = l].owner = r.owner /\ [r EXCEPT !.lease = l].deleting = r.deleting
         /\ [r EXCEPT !.lease = l].graphStatus = r.graphStatus
         /\ [r EXCEPT !.lease = l].retryable = r.retryable
BY DEF Rows

LEMMA RebuildChanged ==
  ASSUME NEW r \in Rows(Instances), NEW b \in Rebuilds
  PROVE  /\ [r EXCEPT !.rebuild = b] \in Rows(Instances)
         /\ [r EXCEPT !.rebuild = b].stage = r.stage /\ [r EXCEPT !.rebuild = b].attempt = r.attempt
         /\ [r EXCEPT !.rebuild = b].owner = r.owner /\ [r EXCEPT !.rebuild = b].deleting = r.deleting
         /\ [r EXCEPT !.rebuild = b].graphStatus = r.graphStatus
         /\ [r EXCEPT !.rebuild = b].retryable = r.retryable
BY DEF Rows

-----------------------------------------------------------------------------
LEMMA StepFacts ==
  /\ Steps = {"cleanup_vectors", "EXTRACTING", "EXTRACTED", "CHUNKING", "reserve_chunks", "CHUNKED",
              "EMBEDDING", "upsert_chunks", "EMBEDDED", "BUILDING_GRAPH", "extract_graph",
              "replace_graph", "GRAPH_BUILT", "mark_completed"}
  /\ \A s \in Steps : Following[s] \in Steps \cup {"clear_checkpoints"}
  /\ DOMAIN KindOf = {"cleanup_vectors", "upsert_chunks", "replace_graph"}
  /\ \A s \in DOMAIN KindOf : KindOf[s] \in OpKinds /\ s \in Steps
BY DEF Steps, Following, KindOf, OpKinds

LEMMA StageFacts ==
  /\ StageSteps \subseteq ActiveStages /\ ActiveStages \subseteq Stages /\ DeletableStages \subseteq Stages
  /\ "REMOVED" \notin ActiveStages /\ "REMOVED" \notin DeletableStages /\ "REMOVED" \in Stages
  /\ ActiveStages \cap DeletableStages = {}
BY DEF StageSteps, ActiveStages, Stages, DeletableStages

LEMMA JobFacts ==
  /\ Idle \in Jobs /\ Idle.at = "idle" /\ Idle.task = 0
  /\ \A j \in Jobs : j # Idle => /\ j.task \in Attempts /\ j.at # "idle"
                                 /\ j.at \in Steps \cup {"claimed", "clear_checkpoints", "failing"}
  /\ \A j \in Jobs, s \in Steps \cup {"claimed", "clear_checkpoints", "failing"} :
       j # Idle => /\ [j EXCEPT !.at = s] \in Jobs /\ [j EXCEPT !.at = s] # Idle
                   /\ [j EXCEPT !.at = s].at = s /\ [j EXCEPT !.at = s].task = j.task
  /\ \A s \in Steps \cup {"claimed", "clear_checkpoints", "failing"}, n \in Attempts :
       [at |-> s, task |-> n] \in Jobs /\ [at |-> s, task |-> n] # Idle
BY StepFacts DEF Jobs, Idle

LEMMA OpFacts ==
  \A k \in OpKinds, n \in Attempts :
    /\ Op(k, n) \in [kind : OpKinds, task : Attempts]
    /\ Op(k, n).kind = k /\ Op(k, n).task = n
BY DEF Op

(* An operation leaves stores of the right type.                           *)
StoreType == vectors \subseteq Attempts /\ graph \in Attempts \cup {0} /\ fence \in Fences(Attempts, Attempts)

LEMMA ApplyType ==
  ASSUME StoreType, NEW op \in [kind : OpKinds, task : Attempts], Apply(op)
  PROVE  StoreType'
<1>1. op.kind \in OpKinds /\ op.task \in Attempts
  OBVIOUS
<1>2. vectors' \subseteq Attempts
  BY <1>1 DEF Apply, StoreType
<1>3. graph' \in Attempts \cup {0}
  BY <1>1 DEF Apply, StoreType
<1>4. fence' \in Fences(Attempts, Attempts)
  BY <1>1, AttemptFacts, ZenonT(60) DEF Apply, StoreType, Fences, Advance, Close, GraphWrite
<1>5. QED
  BY <1>2, <1>3, <1>4 DEF StoreType
Ops == [kind : OpKinds, task : Attempts]

LEMMA OutliveFacts ==
  ASSUME NEW ops, MayOutlive(ops)
  PROVE  \A op \in late' : op \in late \/ (op \in ops /\ op.kind \in LateKinds)
BY DEF MayOutlive

LEMMA InFlightFacts ==
  ASSUME TypeOK, NEW w \in Workers
  PROVE  /\ InFlight(w) \subseteq Ops
         /\ \A op \in InFlight(w) :
              /\ IsCurrent(w) /\ op.task = row.attempt
              /\ op.kind \in {"delete_all", "upsert", "baseline"}
<1>1. SUFFICES ASSUME IsCurrent(w), job[w].at \in DOMAIN KindOf
               PROVE  /\ Op(KindOf[job[w].at], job[w].task) \in Ops
                      /\ Op(KindOf[job[w].at], job[w].task).kind \in {"delete_all", "upsert", "baseline"}
                      /\ Op(KindOf[job[w].at], job[w].task).task = row.attempt
  BY DEF InFlight
<1>2. KindOf[job[w].at] \in {"delete_all", "upsert", "baseline"}
  BY <1>1, StepFacts DEF KindOf
<1>3. job[w].task = row.attempt /\ row.attempt \in Attempts
  BY <1>1, RowFields DEF IsCurrent, Current, TypeOK
<1>4. QED
  BY <1>2, <1>3 DEF Op, Ops, OpKinds

LEMMA CleanUpFacts ==
  ASSUME TypeOK, NEW w \in Workers, IsCurrent(w), CleanUp(w)
  PROVE  /\ StoreType'
         /\ late' \subseteq Ops
         /\ \A op \in late' : op \in late \/ (/\ op.task = row.attempt /\ op.kind \in LateKinds
                                              /\ op.kind \in {"abort", "delete"})
<1>1. row.attempt \in Attempts /\ job[w].task = row.attempt
  BY RowFields DEF IsCurrent, Current, TypeOK
<1>2. /\ Op("abort", job[w].task) \in Ops /\ Op("delete", job[w].task) \in Ops
      /\ Op("abort", job[w].task).kind = "abort" /\ Op("delete", job[w].task).kind = "delete"
      /\ Op("abort", job[w].task).task = row.attempt /\ Op("delete", job[w].task).task = row.attempt
  BY <1>1 DEF Op, Ops, OpKinds
<1>3. StoreType /\ late \subseteq Ops
  BY DEF TypeOK, StoreType, Ops
<1>4. CASE MayOutlive({Op("abort", job[w].task)}) /\ UNCHANGED stores
  <2>1. StoreType'
    BY <1>3, <1>4 DEF StoreType, stores
  <2>2. QED
    BY <1>2, <1>3, <1>4, <2>1, OutliveFacts
<1>5. CASE /\ fence' = Advance(fence, GraphWrite(Op("abort", job[w].task)))
           /\ graph' = 0
           /\ \/ vectors' = vectors \ {job[w].task} /\ UNCHANGED late
              \/ UNCHANGED vectors /\ MayOutlive({Op("delete", job[w].task)})
  <2>1. fence' \in Fences(Attempts, Attempts)
    BY <1>1, <1>2, <1>3, <1>5, AttemptFacts, ZenonT(60) DEF StoreType, Fences, Advance, GraphWrite
  <2>2. StoreType'
    BY <1>3, <1>5, <2>1 DEF StoreType
  <2>3. QED
    BY <1>2, <1>3, <1>5, <2>2, OutliveFacts
<1>6. QED
  BY <1>4, <1>5 DEF CleanUp

(* The parts of TypeOK that are not the stores'.                           *)
RecordType ==
  /\ row \in Rows(Instances)
  /\ history \in [Attempts -> Stages \cup {"none"}]
  /\ checkpoints \in 0..Batches
  /\ tombstones \subseteq Attempts
CoordinatorType ==
  /\ life \in [Instances -> {"up", "stopping", "down"}]
  /\ queue \in [Instances -> Seq(Attempts)]
  /\ queued \in [Instances -> SUBSET Attempts]
  /\ retrying \in [Instances -> Attempts \cup {0}]
JobType == job \in [Workers -> Jobs]
RestType ==
  /\ late \subseteq Ops
  /\ remover \in {"none", "vectors", "graph", "object", "row"}
  /\ faults \in 0..MaxFaults

LEMMA TypeParts ==
  /\ TypeOK <=> RecordType /\ CoordinatorType /\ JobType /\ StoreType /\ RestType
  /\ TypeOK' <=> RecordType' /\ CoordinatorType' /\ JobType' /\ StoreType' /\ RestType'
BY DEF TypeOK, RecordType, CoordinatorType, JobType, StoreType, RestType, Ops

LEMMA HomeFacts == \A w \in Workers : Home[w] \in Instances /\ Home[w] # NoOwner
BY HomeAssumption, OwnerAssumption

LEMMA ReleaseType ==
  ASSUME TypeOK, NEW w \in Workers, Release(w)
  PROVE  /\ JobType'
         /\ queued' \in [Instances -> SUBSET Attempts]
BY JobFacts, HomeFacts DEF TypeOK, Release, JobType

LEMMA SubmitType ==
  ASSUME TypeOK, NEW i \in Instances, NEW n \in Attempts, Submit(i, n)
  PROVE  /\ queue' \in [Instances -> Seq(Attempts)]
         /\ queued' \in [Instances -> SUBSET Attempts]
<1>1. CASE Submitted(i, n)
  <2>1. Append(queue[i], n) \in Seq(Attempts)
    BY DEF TypeOK
  <2>2. /\ queue' = [queue EXCEPT ![i] = Append(queue[i], n)]
        /\ queued' = [queued EXCEPT ![i] = queued[i] \cup {n}]
    BY <1>1 DEF Submit
  <2>3. queue' \in [Instances -> Seq(Attempts)]
    BY <2>1, <2>2 DEF TypeOK
  <2>4. queued' \in [Instances -> SUBSET Attempts]
    BY <2>2 DEF TypeOK
  <2>5. QED
    BY <2>3, <2>4
<1>2. CASE ~Submitted(i, n)
  BY <1>2 DEF TypeOK, Submit
<1>3. QED
  BY <1>1, <1>2

LEMMA PopType ==
  ASSUME TypeOK, NEW w \in Workers, Pop(w)
  PROVE  /\ Head(queue[Home[w]]) \in Attempts
         /\ queue' \in [Instances -> Seq(Attempts)]
<1>1. queue[Home[w]] \in Seq(Attempts) /\ queue[Home[w]] # <<>>
  BY HomeFacts DEF TypeOK, Pop
<1>2. Head(queue[Home[w]]) \in Attempts /\ Tail(queue[Home[w]]) \in Seq(Attempts)
  BY <1>1
<1>3. QED
  BY <1>2, HomeFacts DEF TypeOK, Pop

LEMMA DownType ==
  ASSUME TypeOK, NEW i \in Instances, GoDown(i)
  PROVE  RecordType' /\ CoordinatorType' /\ JobType'
<1>1. <<>> \in Seq(Attempts)
  OBVIOUS
<1>2. QED
  BY <1>1, JobFacts DEF TypeOK, GoDown, RecordType, CoordinatorType, JobType, record

(* A worker's job after a step of it.                                      *)
LEMMA ProceedType ==
  ASSUME TypeOK, NEW w \in Workers, job[w].at \in Steps, Proceed(w)
  PROVE  JobType'
<1>1. job[w] \in Jobs /\ job[w] # Idle
  BY StepFacts, JobFacts DEF TypeOK
<1>2. [job[w] EXCEPT !.at = Following[job[w].at]] \in Jobs
  BY <1>1, StepFacts, JobFacts
<1>3. QED
  BY <1>2 DEF TypeOK, Proceed, JobType

LEMMA MovesType ==
  ASSUME TypeOK, NEW w \in Workers, NEW s \in Steps \cup {"failing"}, job[w].at # "idle",
         job' = [job EXCEPT ![w].at = s]
  PROVE  JobType'
<1>1. job[w] \in Jobs /\ job[w] # Idle
  BY JobFacts DEF TypeOK
<1>2. [job[w] EXCEPT !.at = s] \in Jobs
  BY <1>1, JobFacts
<1>3. QED
  BY <1>2 DEF TypeOK, JobType

LEMMA FaultsType ==
  ASSUME faults \in 0..MaxFaults, faults < MaxFaults, faults' = faults + 1
  PROVE  faults' \in 0..MaxFaults
BY BoundsAssumption

LEMMA CoordinatorSteps ==
  ASSUME TypeOK, NEW i \in Instances,
         \/ Recover(i) \/ Dispatch(i) \/ RetryUpload(i) \/ RetryQueued(i) \/ RetrySourceFails(i)
         \/ Crash(i) \/ Stop(i) \/ Stopped(i)
  PROVE  TypeOK'
<1> USE TypeParts
<1>1. row \in Rows(Instances) /\ row.attempt \in Attempts
  BY RowFields DEF TypeOK
<1>2. {"FAILED", "UPLOADED"} \subseteq Stages
  BY DEF Stages, ActiveStages, DeletableStages
<1>3. CASE Recover(i)
  <2>1. row' \in Rows(Instances)
    <3>1. CASE row.attempt < MaxProcessingAttempts
      BY <1>1, <1>3, <3>1, AttemptFacts, NextRow DEF Recover
    <3>2. CASE ~(row.attempt < MaxProcessingAttempts)
      BY <1>1, <1>3, <3>2, FailedRow DEF Recover
    <3>3. QED
      BY <3>1, <3>2
  <2>2. history' \in [Attempts -> Stages \cup {"none"}]
    BY <1>2, <1>3 DEF Recover, TypeOK
  <2>3. QED
    BY <1>3, <2>1, <2>2 DEF Recover, RecordType, CoordinatorType, coordinator, JobType, StoreType,
       stores, RestType
<1>4. CASE Dispatch(i)
  <2>1. CoordinatorType'
    BY <1>1, <1>4, SubmitType DEF Dispatch, CoordinatorType
  <2>2. QED
    BY <1>4, <2>1 DEF Dispatch, record, RecordType, JobType, StoreType, stores, RestType
<1>5. CASE RetryUpload(i)
  <2>1. row.attempt + 1 \in Attempts
    BY <1>1, <1>5, AttemptFacts DEF RetryUpload, CanReprocess
  <2>2. row' \in Rows(Instances)
    BY <1>1, <1>5, <2>1, NextRow DEF RetryUpload
  <2>3. /\ history' \in [Attempts -> Stages \cup {"none"}]
        /\ retrying' \in [Instances -> Attempts \cup {0}]
    BY <1>2, <1>5, <2>1 DEF RetryUpload, TypeOK
  <2>4. QED
    BY <1>5, <2>2, <2>3 DEF RetryUpload, RecordType, CoordinatorType, JobType, StoreType, stores, RestType
<1>6. CASE RetryQueued(i)
  <2>1. retrying[i] \in Attempts
    BY <1>6 DEF RetryQueued, TypeOK
  <2>2. retrying' \in [Instances -> Attempts \cup {0}]
    BY <1>6 DEF RetryQueued, TypeOK
  <2>3. CoordinatorType'
    BY <1>6, <2>1, <2>2, SubmitType DEF RetryQueued, CoordinatorType
  <2>4. QED
    BY <1>6, <2>3 DEF RetryQueued, record, RecordType, JobType, StoreType, stores, RestType
<1>7. CASE RetrySourceFails(i)
  <2>1. retrying' \in [Instances -> Attempts \cup {0}]
    BY <1>7 DEF RetrySourceFails, TypeOK
  <2>2. row' \in Rows(Instances) /\ history' \in [Attempts -> Stages \cup {"none"}]
    <3>1. CASE Active(row) /\ row.attempt = retrying[i]
      <4>1. row' \in Rows(Instances)
        BY <1>1, <1>7, <3>1, FailedRow DEF RetrySourceFails
      <4>2. history' \in [Attempts -> Stages \cup {"none"}]
        BY <1>2, <1>7, <3>1 DEF RetrySourceFails, TypeOK
      <4>3. QED
        BY <4>1, <4>2
    <3>2. CASE ~(Active(row) /\ row.attempt = retrying[i])
      BY <1>7, <3>2 DEF RetrySourceFails, TypeOK
    <3>3. QED
      BY <3>1, <3>2
  <2>3. QED
    BY <1>7, <2>1, <2>2 DEF RetrySourceFails, RecordType, CoordinatorType, JobType, StoreType, stores, RestType
<1>8. CASE Crash(i)
  <2>1. RecordType' /\ CoordinatorType' /\ JobType' /\ UNCHANGED <<remover, faults>>
    BY <1>8, DownType DEF Crash, GoDown
  <2>2. StoreType' /\ late' \subseteq Ops
    <3>1. CASE MayOutlive(UNION {InFlight(w) : w \in WorkersOf(i)}) /\ UNCHANGED stores
      <4>1. \A op \in UNION {InFlight(w) : w \in WorkersOf(i)} : op \in Ops
        BY InFlightFacts DEF WorkersOf
      <4>2. \A op \in late' : op \in Ops
        BY <3>1, <4>1, OutliveFacts DEF RestType
      <4>3. QED
        BY <3>1, <4>2 DEF StoreType, stores
    <3>2. CASE \E w \in WorkersOf(i) : job[w].at = "failing" /\ IsCurrent(w) /\ CleanUp(w)
      BY <3>2, CleanUpFacts DEF WorkersOf
    <3>3. QED
      BY <1>8, <3>1, <3>2 DEF Crash
  <2>3. QED
    BY <2>1, <2>2 DEF RestType
<1>9. CASE Stop(i)
  <2>1. life' \in [Instances -> {"up", "stopping", "down"}]
    BY <1>9 DEF Stop, TypeOK
  <2>2. QED
    BY <1>9, <2>1 DEF Stop, record, RecordType, CoordinatorType, JobType, StoreType, stores, RestType
<1>10. CASE Stopped(i)
  BY <1>10, DownType DEF Stopped, GoDown, StoreType, stores, RestType
<1>11. QED
  BY <1>3, <1>4, <1>5, <1>6, <1>7, <1>8, <1>9, <1>10

LEMMA WorkerSteps ==
  ASSUME TypeOK, NEW w \in Workers,
         \/ Claim(w) \/ ClaimRefused(w) \/ WorkerStep(w) \/ Heartbeat(w)
         \/ BeginFails(w) \/ FailureNotRecorded(w)
  PROVE  TypeOK'
<1> USE TypeParts
<1>1. row \in Rows(Instances) /\ row.attempt \in Attempts /\ Home[w] \in Instances
  BY RowFields, HomeFacts DEF TypeOK
<1>2. {"FAILED", "READY"} \cup StageSteps \subseteq Stages
  BY StageFacts DEF Stages, DeletableStages
<1>3. CASE Claim(w)
  <2>1. row' \in Rows(Instances)
    BY <1>1, <1>3, LeasedRow DEF Claim
  <2>2. Head(queue[Home[w]]) \in Attempts /\ queue' \in [Instances -> Seq(Attempts)]
    BY <1>3, PopType DEF Claim
  <2>3. JobType'
    BY <1>3, <2>2, JobFacts DEF Claim, TypeOK, JobType
  <2>4. QED
    BY <1>3, <2>1, <2>2, <2>3 DEF Claim, RecordType, CoordinatorType, StoreType, stores, RestType
<1>4. CASE ClaimRefused(w)
  <2>1. queue' \in [Instances -> Seq(Attempts)] /\ queued' \in [Instances -> SUBSET Attempts]
    BY <1>1, <1>4, PopType DEF ClaimRefused, TypeOK
  <2>2. QED
    BY <1>4, <2>1 DEF ClaimRefused, record, RecordType, CoordinatorType, JobType, StoreType, stores, RestType
<1>5. CASE Heartbeat(w)
  <2>1. row' \in Rows(Instances)
    BY <1>1, <1>5, LeaseChanged DEF Heartbeat, Leases
  <2>2. QED
    BY <1>5, <2>1 DEF Heartbeat, RecordType, CoordinatorType, coordinator, JobType, StoreType, stores, RestType
<1>6. CASE BeginFails(w)
  <2>1. JobType' /\ queued' \in [Instances -> SUBSET Attempts]
    BY <1>6, ReleaseType DEF BeginFails
  <2>2. faults' \in 0..MaxFaults
    BY <1>6, FaultsType DEF BeginFails, TypeOK
  <2>3. QED
    BY <1>6, <2>1, <2>2 DEF BeginFails, record, RecordType, CoordinatorType, StoreType, stores, RestType
<1>7. CASE FailureNotRecorded(w)
  <2>1. JobType' /\ queued' \in [Instances -> SUBSET Attempts]
    BY <1>7, ReleaseType DEF FailureNotRecorded
  <2>2. faults' \in 0..MaxFaults
    BY <1>7, FaultsType DEF FailureNotRecorded, TypeOK
  <2>3. StoreType' /\ late' \subseteq Ops
    BY <1>7, CleanUpFacts DEF FailureNotRecorded
  <2>4. QED
    BY <1>7, <2>1, <2>2, <2>3 DEF FailureNotRecorded, record, RecordType, CoordinatorType, RestType
<1>8. CASE Begin(w)
  <2>1. JobType'
    BY <1>8, MovesType, StepFacts DEF Begin, At
  <2>2. QED
    BY <1>8, <2>1 DEF Begin, record, coordinator, RecordType, CoordinatorType, StoreType, stores, RestType
<1>9. CASE Superseded(w) \/ FailureSuperseded(w)
  <2>1. JobType' /\ queued' \in [Instances -> SUBSET Attempts]
    BY <1>9, ReleaseType DEF Superseded, FailureSuperseded
  <2>2. QED
    BY <1>9, <2>1 DEF Superseded, FailureSuperseded, record, RecordType, CoordinatorType, StoreType,
       stores, RestType
<1>10. CASE SetStage(w)
  <2>1. row' \in Rows(Instances)
    BY <1>1, <1>2, <1>10, StagedRow DEF SetStage
  <2>2. history' \in [Attempts -> Stages \cup {"none"}]
    BY <1>2, <1>10 DEF SetStage, TypeOK
  <2>3. JobType'
    BY <1>10, ProceedType DEF SetStage, StageSteps
  <2>4. QED
    BY <1>10, <2>1, <2>2, <2>3 DEF SetStage, coordinator, RecordType, CoordinatorType, StoreType,
       stores, RestType
<1>11. CASE ReserveChunks(w) \/ GraphExtracted(w)
  <2>1. JobType'
    BY <1>11, ProceedType, StepFacts DEF ReserveChunks, GraphExtracted, At
  <2>2. QED
    BY <1>11, <2>1 DEF ReserveChunks, GraphExtracted, record, coordinator, RecordType,
       CoordinatorType, StoreType, stores, RestType
<1>12. CASE FencedWrite(w)
  <2>1. JobType'
    BY <1>12, ProceedType, StepFacts DEF FencedWrite
  <2>2. job[w].task \in Attempts /\ KindOf[job[w].at] \in OpKinds
    BY <1>1, <1>12, StepFacts DEF FencedWrite, IsCurrent, Current
  <2>3. Op(KindOf[job[w].at], job[w].task) \in [kind : OpKinds, task : Attempts]
    BY <2>2, OpFacts
  <2>4. StoreType'
    BY <1>12, <2>3, ApplyType DEF FencedWrite
  <2>5. QED
    BY <1>12, <2>1, <2>4 DEF FencedWrite, record, coordinator, RecordType, CoordinatorType, RestType
<1>13. CASE SaveCheckpoint(w)
  <2>1. checkpoints' \in 0..Batches
    BY <1>13, BoundsAssumption DEF SaveCheckpoint, TypeOK
  <2>2. QED
    BY <1>13, <2>1 DEF SaveCheckpoint, coordinator, RecordType, CoordinatorType, JobType, StoreType,
       stores, RestType
<1>14. CASE Complete(w)
  <2>1. row' \in Rows(Instances)
    BY <1>1, <1>14, CompletedRow DEF Complete
  <2>2. history' \in [Attempts -> Stages \cup {"none"}]
    BY <1>2, <1>14 DEF Complete, TypeOK
  <2>3. JobType' /\ queued' \in [Instances -> SUBSET Attempts]
    <3>1. job[w].at = "mark_completed"
      BY <1>14 DEF Complete, At
    <3>2. CASE Proceed(w) /\ UNCHANGED queued
      BY <3>1, <3>2, ProceedType, StepFacts DEF TypeOK
    <3>3. CASE Release(w)
      BY <3>3, ReleaseType
    <3>4. CASE job' = [job EXCEPT ![w].at = "failing"] /\ UNCHANGED queued
      BY <3>1, <3>4, MovesType DEF TypeOK
    <3>5. QED
      BY <1>14, <3>2, <3>3, <3>4 DEF Complete
  <2>4. QED
    BY <1>14, <2>1, <2>2, <2>3 DEF Complete, RecordType, CoordinatorType, StoreType, stores, RestType
<1>15. CASE ClearCheckpoints(w)
  <2>1. JobType' /\ queued' \in [Instances -> SUBSET Attempts]
    BY <1>15, ReleaseType DEF ClearCheckpoints
  <2>2. checkpoints' \in 0..Batches
    BY <1>15, BoundsAssumption DEF ClearCheckpoints, TypeOK
  <2>3. QED
    BY <1>15, <2>1, <2>2 DEF ClearCheckpoints, RecordType, CoordinatorType, StoreType, stores, RestType
<1>16. CASE Raise(w)
  <2>1. JobType'
    BY <1>16, MovesType, StepFacts DEF Raise
  <2>2. \A op \in late' : op \in Ops
    BY <1>16, OutliveFacts, InFlightFacts DEF Raise, RestType
  <2>3. QED
    BY <1>16, <2>1, <2>2 DEF Raise, record, coordinator, RecordType, CoordinatorType, StoreType,
       stores, RestType
<1>17. CASE Fail(w)
  <2>1. JobType' /\ queued' \in [Instances -> SUBSET Attempts]
    BY <1>17, ReleaseType DEF Fail
  <2>2. row' \in Rows(Instances)
    BY <1>1, <1>17, FailedRow DEF Fail
  <2>3. history' \in [Attempts -> Stages \cup {"none"}]
    BY <1>2, <1>17 DEF Fail, TypeOK
  <2>4. StoreType' /\ late' \subseteq Ops
    BY <1>17, CleanUpFacts DEF Fail
  <2>5. QED
    BY <1>17, <2>1, <2>2, <2>3, <2>4 DEF Fail, RecordType, CoordinatorType, RestType
<1>18. CASE Cancel(w)
  <2>1. JobType' /\ queued' \in [Instances -> SUBSET Attempts]
    BY <1>18, ReleaseType DEF Cancel
  <2>2. row' \in Rows(Instances)
    BY <1>1, <1>18, UnleasedRow DEF Cancel
  <2>3. \A op \in late' : op \in Ops
    BY <1>18, OutliveFacts, InFlightFacts DEF Cancel, RestType
  <2>4. QED
    BY <1>18, <2>1, <2>2, <2>3 DEF Cancel, RecordType, CoordinatorType, StoreType, stores, RestType
<1>19. QED
  BY <1>3, <1>4, <1>5, <1>6, <1>7, <1>8, <1>9, <1>10, <1>11, <1>12, <1>13, <1>14, <1>15, <1>16,
     <1>17, <1>18 DEF WorkerStep

LEMMA OtherSteps ==
  ASSUME TypeOK,
         \/ LeaseExpires \/ LeaseLost \/ RetryDue
         \/ RequestRemoval \/ RemoveRemote \/ RemoveRow \/ RemovalFails
         \/ \E task \in Attempts : SweepVectors(task)
         \/ LateLands
         \/ UNCHANGED vars
  PROVE  TypeOK'
<1> USE TypeParts
<1>1. row \in Rows(Instances) /\ row.attempt \in Attempts
  BY RowFields DEF TypeOK
<1>2. CASE LeaseExpires \/ RetryDue
  <2>1. row' \in Rows(Instances)
    BY <1>1, <1>2, LeaseChanged, RebuildChanged, ZenonT(60) DEF LeaseExpires, RetryDue, Leases, Rebuilds
  <2>2. QED
    BY <1>2, <2>1 DEF LeaseExpires, RetryDue, RecordType, CoordinatorType, coordinator, JobType,
       StoreType, stores, RestType
<1>3. CASE LeaseLost
  <2>1. row' \in Rows(Instances)
    BY <1>1, <1>3, LeaseChanged DEF LeaseLost, Leases
  <2>2. faults' \in 0..MaxFaults
    BY <1>3, FaultsType DEF LeaseLost, TypeOK
  <2>3. QED
    BY <1>3, <2>1, <2>2 DEF LeaseLost, RecordType, CoordinatorType, coordinator, JobType,
       StoreType, stores, RestType
<1>4. CASE RequestRemoval
  <2>1. row' \in Rows(Instances)
    BY <1>1, <1>4, MarkedRow DEF RequestRemoval
  <2>2. tombstones' \subseteq Attempts
    BY <1>4 DEF RequestRemoval, TypeOK
  <2>3. QED
    BY <1>4, <2>1, <2>2 DEF RequestRemoval, RecordType, CoordinatorType, coordinator, JobType,
       StoreType, stores, RestType
<1>5. /\ \A n \in Attempts : Op("delete_all", n) \in Ops /\ Op("tombstone", n) \in Ops
      /\ DOMAIN RemovalOp = {"vectors", "graph"} /\ DOMAIN NextRemoval = {"vectors", "graph", "object"}
      /\ \A step \in DOMAIN RemovalOp : RemovalOp[step] \in Ops
      /\ \A step \in DOMAIN NextRemoval : NextRemoval[step] \in {"graph", "object", "row"}
  BY <1>1 DEF Op, Ops, OpKinds, RemovalOp, NextRemoval
<1>6. CASE RemoveRemote
  <2>1. StoreType'
    BY <1>5, <1>6, ApplyType DEF RemoveRemote, StoreType, stores, Ops
  <2>2. QED
    BY <1>5, <1>6, <2>1 DEF RemoveRemote, record, RecordType, CoordinatorType, coordinator, JobType,
       RestType
<1>7. CASE RemoveRow
  <2>1. row' \in Rows(Instances)
    BY <1>1, <1>7, RemovedRow DEF RemoveRow
  <2>2. history' \in [Attempts -> Stages \cup {"none"}] /\ checkpoints' \in 0..Batches
    BY <1>7, BoundsAssumption DEF RemoveRow
  <2>3. QED
    BY <1>7, <2>1, <2>2 DEF RemoveRow, RecordType, CoordinatorType, coordinator, JobType,
       StoreType, stores, RestType
<1>8. CASE RemovalFails
  <2>1. \A op \in late' : op \in Ops
    BY <1>5, <1>8, OutliveFacts DEF RemovalFails, RestType
  <2>2. QED
    BY <1>8, <2>1 DEF RemovalFails, record, RecordType, CoordinatorType, coordinator, JobType,
       StoreType, stores, RestType
<1>9. CASE \E task \in Attempts : SweepVectors(task)
  BY <1>9 DEF SweepVectors, record, RecordType, CoordinatorType, coordinator, JobType,
     StoreType, RestType
<1>10. CASE LateLands
  <2>1. PICK op \in late : /\ late' = late \ {op}
                           /\ IF Refused(op) THEN UNCHANGED stores ELSE Apply(op)
    BY <1>10 DEF LateLands
  <2>2. StoreType'
    BY <2>1, ApplyType DEF StoreType, stores, RestType, Ops
  <2>3. QED
    BY <1>10, <2>1, <2>2 DEF LateLands, record, RecordType, CoordinatorType, coordinator, JobType,
       RestType
<1>11. CASE UNCHANGED vars
  BY <1>11 DEF vars, record, RecordType, CoordinatorType, coordinator, JobType, StoreType, stores, RestType
<1>12. QED
  BY <1>2, <1>3, <1>4, <1>6, <1>7, <1>8, <1>9, <1>10, <1>11

LEMMA TypeStep == TypeOK /\ [Next]_vars => TypeOK'
BY CoordinatorSteps, WorkerSteps, OtherSteps DEF Next

-----------------------------------------------------------------------------
(* The keys of a coordinator.  A step of a worker within its task keeps    *)
(* them.                                                                   *)
LEMMA KeysSame ==
  ASSUME KeyInv, UNCHANGED <<queue, queued>>,
         \A v \in Workers : (job'[v] = Idle <=> job[v] = Idle) /\ job'[v].task = job[v].task
  PROVE  KeyInv'
<1>1. \A i \in Instances : Held(i)' = Held(i)
  BY DEF Held
<1>2. \A i \in Instances : KeysOK(i)'
  BY <1>1 DEF KeyInv, KeysOK
<1>3. \A v \in Workers : InOnePlace(v)'
  BY DEF KeyInv, InOnePlace
<1>4. QED
  BY <1>2, <1>3 DEF KeyInv

LEMMA KeysMoved ==
  ASSUME TypeOK, KeyInv, UNCHANGED <<queue, queued>>, NEW w \in Workers,
         NEW s \in Steps \cup {"clear_checkpoints", "failing"},
         job[w].at # "idle", job' = [job EXCEPT ![w].at = s]
  PROVE  KeyInv'
<1>1. job[w] \in Jobs /\ job[w] # Idle
  BY JobFacts DEF TypeOK
<1>2. \A v \in Workers : (job'[v] = Idle <=> job[v] = Idle) /\ job'[v].task = job[v].task
  BY <1>1, JobFacts DEF TypeOK
<1>3. QED
  BY <1>2, KeysSame

LEMMA KeysSubmitted ==
  ASSUME TypeOK, KeyInv, NEW i \in Instances, NEW n \in Attempts, Submit(i, n), UNCHANGED job
  PROVE  KeyInv'
<1>1. \A x \in Instances : Held(x)' = Held(x)
  BY DEF Held
<1>2. CASE Submitted(i, n)
  <2>1. /\ queue' = [queue EXCEPT ![i] = Append(queue[i], n)]
        /\ queued' = [queued EXCEPT ![i] = queued[i] \cup {n}]
        /\ n \notin queued[i] /\ Len(queue[i]) < QueueCapacity
    BY <1>2 DEF Submit, Submitted
  <2>2. KeysOK(i) /\ queue[i] \in Seq(Attempts) /\ n \notin Elements(queue[i]) /\ n \notin Held(i)
    BY <2>1 DEF KeyInv, KeysOK, TypeOK
  <2>3. /\ Len(queue'[i]) = Len(queue[i]) + 1
        /\ Elements(queue'[i]) = Elements(queue[i]) \cup {n}
        /\ Distinct(queue'[i])
    BY <2>1, <2>2, Appended DEF KeysOK, TypeOK
  <2>4. \A x \in Instances : KeysOK(x)'
    <3>1. KeysOK(i)'
      <4>1. queued'[i] = queued[i] \cup {n}
        BY <2>1 DEF TypeOK
      <4>2. Len(queue'[i]) <= QueueCapacity
        BY <2>1, <2>2, <2>3, BoundsAssumption
      <4>3. QED
        BY <1>1, <2>2, <2>3, <4>1, <4>2 DEF KeysOK
    <3>2. ASSUME NEW x \in Instances, x # i PROVE KeysOK(x)'
      <4>1. queue'[x] = queue[x] /\ queued'[x] = queued[x] /\ KeysOK(x)
        BY <2>1, <3>2 DEF TypeOK, KeyInv
      <4>2. QED
        BY <1>1, <4>1 DEF KeysOK
    <3>3. QED
      BY <3>1, <3>2
  <2>5. ASSUME NEW v \in Workers PROVE InOnePlace(v)'
    <3>1. InOnePlace(v)
      BY DEF KeyInv
    <3>2. CASE Home[v] = i
      <4>1. job[v] # Idle => job[v].task # n
        BY <2>2, <3>2 DEF Held
      <4>2. QED
        BY <2>3, <3>1, <3>2, <4>1 DEF InOnePlace
    <3>3. CASE Home[v] # i
      <4>1. queue'[Home[v]] = queue[Home[v]]
        BY <2>1, <3>3, HomeFacts DEF TypeOK
      <4>2. QED
        BY <3>1, <4>1 DEF InOnePlace
    <3>4. QED
      BY <3>2, <3>3
  <2>6. QED
    BY <2>4, <2>5 DEF KeyInv
<1>3. CASE ~Submitted(i, n)
  BY <1>3, KeysSame DEF Submit
<1>4. QED
  BY <1>2, <1>3

(* What a worker takes from its queue was in no other place.               *)
LEMMA KeysPopped ==
  ASSUME TypeOK, KeyInv, NEW w \in Workers, Pop(w)
  PROVE  /\ Head(queue[Home[w]]) \notin Held(Home[w])
         /\ Head(queue[Home[w]]) \in Elements(queue[Home[w]])
         /\ Elements(queue'[Home[w]]) = Elements(queue[Home[w]]) \ {Head(queue[Home[w]])}
         /\ Distinct(queue'[Home[w]])
         /\ Len(queue'[Home[w]]) <= QueueCapacity
         /\ \A x \in Instances \ {Home[w]} : queue'[x] = queue[x]
<1>1. queue[Home[w]] \in Seq(Attempts) /\ queue[Home[w]] # <<>> /\ KeysOK(Home[w])
  BY HomeFacts DEF TypeOK, Pop, KeyInv
<1>2. queue'[Home[w]] = Tail(queue[Home[w]]) /\ \A x \in Instances \ {Home[w]} : queue'[x] = queue[x]
  BY HomeFacts DEF TypeOK, Pop
<1>3. Head(queue[Home[w]]) \notin Held(Home[w])
  <2>1. \A v \in Workers : Home[v] = Home[w] /\ job[v] # Idle => job[v].task # Head(queue[Home[w]])
    BY <1>1, Popped DEF KeyInv, InOnePlace, KeysOK
  <2>2. QED
    BY <2>1 DEF Held
<1>4. QED
  BY <1>1, <1>2, <1>3, Popped, BoundsAssumption DEF KeysOK

LEMMA KeysClaimed ==
  ASSUME TypeOK, KeyInv, NEW w \in Workers, Claim(w)
  PROVE  KeyInv'
<1> DEFINE h == Home[w]
           t == Head(queue[h])
<1>1. /\ Pop(w) /\ UNCHANGED queued /\ job[w] = Idle /\ h \in Instances
      /\ job' = [job EXCEPT ![w] = [at |-> "claimed", task |-> t]]
  BY HomeFacts DEF Claim, Pop
<1>2. t \in Attempts
  BY <1>1, PopType
<1>3. job'[w] # Idle /\ job'[w].task = t /\ \A v \in Workers \ {w} : job'[v] = job[v]
  BY <1>1, <1>2, JobFacts DEF TypeOK
<1>4. Held(h)' = Held(h) \cup {t}
  BY <1>1, <1>3 DEF Held
<1>5. \A x \in Instances \ {h} : Held(x)' = Held(x)
  BY <1>1, <1>3 DEF Held
<1>6. KeysOK(h)'
  <2>1. KeysOK(h)
    BY <1>1 DEF KeyInv
  <2>2. queued[h] = (Elements(queue'[h]) \cup {t}) \cup Held(h)
    BY <1>1, <2>1, KeysPopped DEF KeysOK
  <2>3. QED
    BY <1>1, <1>4, <2>2, KeysPopped DEF KeysOK
<1>7. \A x \in Instances \ {h} : KeysOK(x)'
  BY <1>1, <1>5, KeysPopped DEF KeyInv, KeysOK
<1>8. ASSUME NEW v \in Workers PROVE InOnePlace(v)'
  <2>1. InOnePlace(v) /\ Home[v] \in Instances
    BY HomeFacts DEF KeyInv
  <2>2. \A u \in Workers : Home[u] = h /\ job[u] # Idle => job[u].task # t
    BY <1>1, KeysPopped DEF Held
  <2>3. CASE v = w
    BY <1>1, <1>3, <2>2, <2>3, KeysPopped, ZenonT(60) DEF InOnePlace
  <2>4. CASE v # w /\ Home[v] = h
    BY <1>1, <1>3, <2>1, <2>2, <2>4, KeysPopped DEF InOnePlace
  <2>5. CASE v # w /\ Home[v] # h
    BY <1>1, <1>3, <2>1, <2>5, KeysPopped DEF InOnePlace
  <2>6. QED
    BY <2>3, <2>4, <2>5
<1>9. QED
  BY <1>6, <1>7, <1>8 DEF KeyInv

LEMMA KeysRefused ==
  ASSUME TypeOK, KeyInv, NEW w \in Workers, ClaimRefused(w)
  PROVE  KeyInv'
<1> DEFINE h == Home[w]
           t == Head(queue[h])
<1>1. /\ Pop(w) /\ UNCHANGED job /\ h \in Instances
      /\ queued' = [queued EXCEPT ![h] = queued[h] \ {t}]
  BY HomeFacts DEF ClaimRefused
<1>2. \A x \in Instances : Held(x)' = Held(x)
  BY <1>1 DEF Held
<1>3. KeysOK(h)'
  <2>1. KeysOK(h) /\ queued'[h] = queued[h] \ {t}
    BY <1>1 DEF KeyInv, TypeOK
  <2>2. QED
    BY <1>1, <1>2, <2>1, KeysPopped DEF KeysOK
<1>4. ASSUME NEW x \in Instances, x # h PROVE KeysOK(x)'
  <2>1. KeysOK(x) /\ queued'[x] = queued[x] /\ queue'[x] = queue[x]
    BY <1>1, <1>4, KeysPopped DEF KeyInv, TypeOK
  <2>2. QED
    BY <1>2, <2>1 DEF KeysOK
<1>5. ASSUME NEW v \in Workers PROVE InOnePlace(v)'
  <2>1. InOnePlace(v) /\ Home[v] \in Instances
    BY HomeFacts DEF KeyInv
  <2>2. Elements(queue'[Home[v]]) \subseteq Elements(queue[Home[v]])
    BY <1>1, <2>1, KeysPopped
  <2>3. QED
    BY <1>1, <2>1, <2>2 DEF InOnePlace
<1>6. QED
  BY <1>3, <1>4, <1>5 DEF KeyInv

LEMMA KeysReleased ==
  ASSUME TypeOK, KeyInv, NEW w \in Workers, job[w] # Idle, Release(w), UNCHANGED queue
  PROVE  KeyInv'
<1> DEFINE h == Home[w]
           t == job[w].task
<1>1. /\ h \in Instances /\ job'[w] = Idle /\ \A v \in Workers \ {w} : job'[v] = job[v]
      /\ queued'[h] = queued[h] \ {t} /\ \A x \in Instances \ {h} : queued'[x] = queued[x]
  BY HomeFacts DEF Release, TypeOK
<1>2. /\ t \notin Elements(queue[h])
      /\ \A v \in Workers \ {w} : Home[v] = h /\ job[v] # Idle => job[v].task # t
  BY DEF KeyInv, InOnePlace
<1>3. Held(h)' = Held(h) \ {t}
  BY <1>1, <1>2 DEF Held
<1>4. \A x \in Instances \ {h} : Held(x)' = Held(x)
  BY <1>1 DEF Held
<1>5. KeysOK(h)'
  <2>1. KeysOK(h)
    BY <1>1 DEF KeyInv
  <2>2. QED
    BY <1>1, <1>2, <1>3, <2>1 DEF KeysOK
<1>6. \A x \in Instances \ {h} : KeysOK(x)'
  BY <1>1, <1>4 DEF KeyInv, KeysOK
<1>7. \A v \in Workers : InOnePlace(v)'
  BY <1>1 DEF KeyInv, InOnePlace
<1>8. QED
  BY <1>5, <1>6, <1>7 DEF KeyInv

LEMMA KeysDown ==
  ASSUME TypeOK, KeyInv, NEW i \in Instances, GoDown(i)
  PROVE  KeyInv'
<1>1. /\ queue'[i] = <<>> /\ queued'[i] = {}
      /\ \A x \in Instances \ {i} : queue'[x] = queue[x] /\ queued'[x] = queued[x]
      /\ \A w \in Workers : job'[w] = IF Home[w] = i THEN Idle ELSE job[w]
  BY DEF GoDown, TypeOK
<1>2. Held(i)' = {}
  BY <1>1 DEF Held
<1>3. \A x \in Instances \ {i} : Held(x)' = Held(x)
  BY <1>1 DEF Held
<1>4. KeysOK(i)'
  <2>1. Elements(<<>>) = {} /\ Distinct(<<>>) /\ Len(<<>>) = 0
    BY DEF Elements, Distinct
  <2>2. Len(queue'[i]) <= QueueCapacity
    BY <1>1, <2>1, BoundsAssumption
  <2>3. QED
    BY <1>1, <1>2, <2>1, <2>2 DEF KeysOK
<1>5. \A x \in Instances \ {i} : KeysOK(x)'
  BY <1>1, <1>3 DEF KeyInv, KeysOK
<1>6. ASSUME NEW v \in Workers PROVE InOnePlace(v)'
  BY <1>1, HomeFacts DEF KeyInv, InOnePlace
<1>7. QED
  BY <1>4, <1>5, <1>6 DEF KeyInv

LEMMA KeyStep ==
  ASSUME TypeOK, KeyInv, [Next]_vars
  PROVE  KeyInv'
<1>1. ASSUME NEW i \in Instances,
             \/ Recover(i) \/ RetryUpload(i) \/ RetrySourceFails(i) \/ Stop(i)
      PROVE  KeyInv'
  BY <1>1, KeysSame DEF Recover, RetryUpload, RetrySourceFails, Stop, coordinator
<1>2. ASSUME NEW i \in Instances, Dispatch(i)
      PROVE  KeyInv'
  BY <1>2, RowFields, KeysSubmitted DEF Dispatch, TypeOK
<1>3. ASSUME NEW i \in Instances, RetryQueued(i)
      PROVE  KeyInv'
  <2>1. retrying[i] \in Attempts
    BY <1>3 DEF RetryQueued, TypeOK
  <2>2. QED
    BY <1>3, <2>1, KeysSubmitted DEF RetryQueued
<1>4. ASSUME NEW i \in Instances, Crash(i) \/ Stopped(i)
      PROVE  KeyInv'
  BY <1>4, KeysDown DEF Crash, Stopped
<1>5. ASSUME NEW w \in Workers, Claim(w) \/ ClaimRefused(w)
      PROVE  KeyInv'
  BY <1>5, KeysClaimed, KeysRefused
<1>6. ASSUME NEW w \in Workers, Heartbeat(w) \/ SaveCheckpoint(w)
      PROVE  KeyInv'
  BY <1>6, KeysSame DEF Heartbeat, SaveCheckpoint, coordinator
<1>7. ASSUME NEW w \in Workers,
             \/ BeginFails(w) \/ FailureNotRecorded(w) \/ Superseded(w) \/ FailureSuperseded(w)
             \/ ClearCheckpoints(w) \/ Fail(w) \/ Cancel(w)
      PROVE  KeyInv'
  <2>1. job[w] # Idle /\ Release(w) /\ UNCHANGED queue
    BY <1>7, JobFacts, StepFacts
       DEF BeginFails, FailureNotRecorded, Superseded, FailureSuperseded, ClearCheckpoints, Fail,
           Cancel, At
  <2>2. QED
    BY <2>1, KeysReleased
<1>8. ASSUME NEW w \in Workers, Begin(w) \/ Raise(w)
      PROVE  KeyInv'
  <2>1. CASE Begin(w)
    <3>1. job[w].at = "claimed" /\ job' = [job EXCEPT ![w].at = "cleanup_vectors"]
          /\ UNCHANGED <<queue, queued>>
      BY <2>1 DEF Begin, At, coordinator
    <3>2. QED
      BY <3>1, KeysMoved, StepFacts
  <2>2. CASE Raise(w)
    <3>1. job[w].at # "idle" /\ job' = [job EXCEPT ![w].at = "failing"] /\ UNCHANGED <<queue, queued>>
      BY <2>2, StepFacts DEF Raise, coordinator
    <3>2. QED
      BY <3>1, KeysMoved
  <2>3. QED
    BY <1>8, <2>1, <2>2
<1>9. ASSUME NEW w \in Workers, job[w].at \in Steps, Proceed(w), UNCHANGED <<queue, queued>>
      PROVE  KeyInv'
  <2>1. Following[job[w].at] \in Steps \cup {"clear_checkpoints", "failing"} /\ job[w].at # "idle"
    BY <1>9, StepFacts
  <2>2. QED
    BY <1>9, <2>1, KeysMoved DEF Proceed
<1>10. ASSUME NEW w \in Workers,
             SetStage(w) \/ ReserveChunks(w) \/ GraphExtracted(w) \/ FencedWrite(w)
      PROVE  KeyInv'
  BY <1>9, <1>10, StepFacts
     DEF SetStage, ReserveChunks, GraphExtracted, FencedWrite, At, coordinator, StageSteps
<1>11. ASSUME NEW w \in Workers, Complete(w)
       PROVE  KeyInv'
  <2>1. job[w].at = "mark_completed" /\ job[w] # Idle /\ job[w].at \in Steps /\ UNCHANGED queue
    BY <1>11, JobFacts, StepFacts DEF Complete, At
  <2>2. CASE Proceed(w) /\ UNCHANGED queued
    BY <1>9, <2>1, <2>2
  <2>3. CASE Release(w)
    BY <2>1, <2>3, KeysReleased
  <2>4. CASE job' = [job EXCEPT ![w].at = "failing"] /\ UNCHANGED queued
    BY <2>1, <2>4, KeysMoved
  <2>5. QED
    BY <1>11, <2>2, <2>3, <2>4 DEF Complete
<1>12. ASSUME \/ LeaseExpires \/ LeaseLost \/ RetryDue
              \/ RequestRemoval \/ RemoveRemote \/ RemoveRow \/ RemovalFails
              \/ \E task \in Attempts : SweepVectors(task)
              \/ LateLands
              \/ UNCHANGED vars
       PROVE  KeyInv'
  BY <1>12, KeysSame
     DEF LeaseExpires, LeaseLost, RetryDue, RequestRemoval, RemoveRemote, RemoveRow, RemovalFails,
         SweepVectors, LateLands, vars, coordinator
<1>13. QED
  BY <1>1, <1>2, <1>3, <1>4, <1>5, <1>6, <1>7, <1>8, <1>10, <1>11, <1>12 DEF Next, WorkerStep

(* Inductive: that keys match work needs that no task is in two places.    *)
ExclusiveInv == TypeOK /\ KeyInv

LEMMA ExclusiveInit == Init => ExclusiveInv
<1> SUFFICES ASSUME Init PROVE ExclusiveInv
  OBVIOUS
<1>1. /\ NewRow \in Rows(Instances) /\ NewFence \in Fences(Attempts, Attempts)
      /\ Idle \in Jobs /\ <<>> \in Seq(Attempts)
  BY AttemptFacts, JobFacts DEF NewRow, Rows, Stages, ActiveStages, Leases, GraphStatuses, Rebuilds,
     NewFence, Fences
<1>2. history \in [Attempts -> Stages \cup {"none"}]
  BY DEF Init, Stages, ActiveStages
<1>3. TypeOK
  BY <1>1, <1>2, BoundsAssumption DEF Init, TypeOK
<1>4. Elements(<<>>) = {} /\ Distinct(<<>>) /\ Len(<<>>) = 0
  BY DEF Elements, Distinct
<1>5. \A i \in Instances : KeysOK(i)
  BY <1>4, BoundsAssumption DEF Init, KeysOK, Held
<1>6. \A v \in Workers : InOnePlace(v)
  BY DEF Init, InOnePlace
<1>7. QED
  BY <1>3, <1>5, <1>6 DEF ExclusiveInv, KeyInv

LEMMA ExclusiveNext == ExclusiveInv /\ [Next]_vars => ExclusiveInv'
BY TypeStep, KeyStep DEF ExclusiveInv

(* The properties that ExclusiveInv was made for.  Executions that the row *)
(* takes for current name one task and one process, and keys are exact.    *)
LEMMA OneCurrent ==
  ASSUME ExclusiveInv, NEW v \in Workers, NEW w \in Workers, IsCurrent(v), IsCurrent(w)
  PROVE  v = w
<1>1. /\ job[v].task = row.attempt /\ job[w].task = row.attempt /\ Home[v] = Home[w]
      /\ row.attempt \in Attempts
  BY RowFields DEF ExclusiveInv, TypeOK, IsCurrent, Current
<1>2. job[v] # Idle /\ job[w] # Idle
  BY <1>1, AttemptFacts, JobFacts
<1>3. QED
  BY <1>1, <1>2 DEF ExclusiveInv, KeyInv, InOnePlace

LEMMA ExclusiveGivesWork == ExclusiveInv => WorkIsExclusive
<1> SUFFICES ASSUME ExclusiveInv PROVE WorkIsExclusive
  OBVIOUS
<1>1. OneExecution
  BY OneCurrent DEF OneExecution, Executing
<1>2. KeysMatchWork
  BY DEF ExclusiveInv, KeyInv, KeysOK, KeysMatchWork, Elements, Distinct, Held
<1>3. QED
  BY <1>1, <1>2 DEF WorkIsExclusive, ExclusiveInv

(* Claims, losses of leases, shutdowns and crashes in whatever order leave *)
(* the queue, the key set and the workers of a process in agreement.       *)
THEOREM ExclusiveInvariance == Spec => []ExclusiveInv
<1>1. QED
  BY ExclusiveInit, ExclusiveNext, PTL DEF Spec

(* Rows, queues, jobs, stores and requests in flight are well typed; no    *)
(* recovery or retry takes the attempt number past its limit.              *)
THEOREM TypeCorrect == Spec => []TypeOK
<1>1. ExclusiveInv => TypeOK
  BY DEF ExclusiveInv
<1>2. QED
  BY <1>1, ExclusiveInvariance, PTL

(* At most one execution passes the row's check (_get_current_upload), also*)
(* where a process claims a lease of its own again, and the coordinator's  *)
(* keys are those of the tasks that wait or are executed.                  *)
THEOREM ExecutedOnce == Spec => []WorkIsExclusive
<1>1. QED
  BY ExclusiveGivesWork, ExclusiveInvariance, PTL

-----------------------------------------------------------------------------
(* What the record says of a document, between its transactions: work and  *)
(* removal exclude each other, a complete graph stays until the removal,   *)
(* and a removal knows every attempt there was.                            *)
RecordInv ==
  /\ HistorySettled
  /\ Active(row) => ~row.deleting
  /\ row.stage = "REMOVED" => row.deleting /\ checkpoints = 0
  /\ remover # "none" => row.deleting /\ row.stage \in DeletableStages
  /\ \A w \in Workers : job[w].at = "clear_checkpoints" =>
       row.stage = "REMOVED" \/ (row.stage = "READY" /\ row.graphStatus = "GRAPH_READY")
  /\ row.deleting => \A n \in Attempts : n <= row.attempt => n \in tombstones

(* The row is as it was but for its lease and when its graph is due again. *)
RowTouched ==
  /\ row'.stage = row.stage /\ row'.attempt = row.attempt
  /\ row'.deleting = row.deleting /\ row'.graphStatus = row.graphStatus

(* No worker comes to clear checkpoints.                                   *)
NoneClears == \A w \in Workers : job'[w].at = "clear_checkpoints" => job[w].at = "clear_checkpoints"

LEMMA NoneClearsFacts ==
  ASSUME TypeOK
  PROVE  /\ UNCHANGED job => NoneClears
         /\ \A w \in Workers : Release(w) => NoneClears
         /\ \A i \in Instances : GoDown(i) => NoneClears
         /\ \A w \in Workers : \A s : s # "clear_checkpoints" /\ job' = [job EXCEPT ![w].at = s] => NoneClears
         /\ \A w \in Workers : Claim(w) => NoneClears
         /\ \A w \in Workers :
              job[w].at \in Steps \ {"mark_completed"} /\ Proceed(w) => NoneClears
<1>1. \A s \in Steps \ {"mark_completed"} : Following[s] # "clear_checkpoints"
  BY StepFacts DEF Following
<1>2. \A w \in Workers : \A s : s # "clear_checkpoints" /\ job' = [job EXCEPT ![w].at = s] => NoneClears
  BY JobFacts DEF NoneClears, TypeOK, Jobs
<1>3. ASSUME NEW w \in Workers, job[w].at \in Steps \ {"mark_completed"}, Proceed(w)
      PROVE  NoneClears
  <2>1. Following[job[w].at] # "clear_checkpoints"
    BY <1>1, <1>3
  <2>2. QED
    BY <1>2, <1>3, <2>1 DEF Proceed
<1>4. ASSUME NEW w \in Workers, Release(w) \/ Claim(w)
      PROVE  NoneClears
  <2>1. CASE Release(w)
    <3>1. job' = [job EXCEPT ![w] = Idle] /\ Idle.at # "clear_checkpoints"
      BY <2>1, JobFacts DEF Release
    <3>2. QED
      BY <3>1 DEF NoneClears, TypeOK
  <2>2. CASE Claim(w)
    <3>1. PICK task : job' = [job EXCEPT ![w] = [at |-> "claimed", task |-> task]]
      BY <2>2 DEF Claim
    <3>2. QED
      BY <3>1 DEF NoneClears, TypeOK
  <2>3. QED
    BY <1>4, <2>1, <2>2
<1>5. ASSUME NEW i \in Instances, GoDown(i)
      PROVE  NoneClears
  BY <1>5, JobFacts DEF NoneClears, GoDown
<1>6. QED
  BY <1>2, <1>3, <1>4, <1>5 DEF NoneClears

LEMMA RecordSame ==
  ASSUME TypeOK, RecordInv, RowTouched, UNCHANGED <<history, checkpoints, tombstones, remover>>,
         NoneClears
  PROVE  RecordInv'
<1>1. HistorySettled'
  BY DEF RecordInv, HistorySettled, RowTouched
<1>2. QED
  BY <1>1 DEF RecordInv, RowTouched, NoneClears, Active

LEMMA NotRemoved == Active(row) => row.stage # "REMOVED" /\ row.stage \notin DeletableStages
BY DEF Active, ActiveStages, DeletableStages

(* The current attempt comes to a stage.                                   *)
LEMMA HistoryStaged ==
  ASSUME TypeOK, HistorySettled, row.stage # "REMOVED", NEW s \in Stages,
         row'.stage = s, row'.attempt = row.attempt, history' = [history EXCEPT ![row.attempt] = s]
  PROVE  HistorySettled'
<1>1. row.attempt \in Attempts /\ \A n \in Attempts : n \in Nat
  BY AttemptFacts, RowFields DEF TypeOK
<1>2. QED
  BY <1>1 DEF HistorySettled, TypeOK

(* It has ended, and the next one begins.                                  *)
LEMMA HistoryNext ==
  ASSUME TypeOK, HistorySettled, row.stage # "REMOVED", row.attempt + 1 \in Attempts,
         row' = NextAttempt(row),
         \/ history' = [history EXCEPT ![row.attempt] = "FAILED", ![row.attempt + 1] = "UPLOADED"]
         \/ row.stage \in DeletableStages /\ history' = [history EXCEPT ![row.attempt + 1] = "UPLOADED"]
  PROVE  HistorySettled'
<1>1. row.attempt \in Attempts /\ \A n \in Attempts : n \in Nat
  BY AttemptFacts, RowFields DEF TypeOK
<1>2. row'.stage = "UPLOADED" /\ row'.attempt = row.attempt + 1
  BY NextRow DEF TypeOK
<1>3. history \in [Attempts -> Stages \cup {"none"}]
  BY DEF TypeOK
<1>4. /\ history'[row.attempt + 1] = "UPLOADED" /\ history'[row.attempt] \in DeletableStages
      /\ \A n \in Attempts : n # row.attempt /\ n # row.attempt + 1 => history'[n] = history[n]
  BY <1>1, <1>3 DEF HistorySettled, DeletableStages
<1>5. ASSUME NEW n \in Attempts
      PROVE  IF n = row'.attempt THEN history'[n] = row'.stage
             ELSE IF n < row'.attempt THEN history'[n] \in DeletableStages
             ELSE history'[n] = "none"
  BY <1>1, <1>2, <1>4 DEF HistorySettled
<1>6. QED
  BY <1>5 DEF HistorySettled

(* Active work moves on, or ends.                                          *)
LEMMA RecordStaged ==
  ASSUME TypeOK, RecordInv, Active(row), NEW s \in ActiveStages \cup DeletableStages,
         row'.stage = s, row'.attempt = row.attempt, row'.deleting = row.deleting,
         history' = [history EXCEPT ![row.attempt] = s],
         UNCHANGED <<checkpoints, tombstones, remover>>,
         \A w \in Workers : job'[w].at = "clear_checkpoints" =>
           \/ job[w].at = "clear_checkpoints"
           \/ row'.stage = "READY" /\ row'.graphStatus = "GRAPH_READY"
  PROVE  RecordInv'
<1>1. row.stage # "REMOVED" /\ row.stage \notin DeletableStages /\ s \in Stages /\ s # "REMOVED"
  BY NotRemoved, StageFacts
<1>2. HistorySettled'
  BY <1>1, HistoryStaged DEF RecordInv
<1>3. \A w \in Workers : job[w].at # "clear_checkpoints"
  BY <1>1 DEF RecordInv, DeletableStages
<1>4. QED
  BY <1>1, <1>2, <1>3 DEF RecordInv

LEMMA RecordNext ==
  ASSUME TypeOK, RecordInv, ~row.deleting, row.attempt + 1 \in Attempts,
         ~(row.stage = "READY" /\ row.graphStatus = "GRAPH_READY"),
         row' = NextAttempt(row),
         \/ history' = [history EXCEPT ![row.attempt] = "FAILED", ![row.attempt + 1] = "UPLOADED"]
         \/ row.stage \in DeletableStages /\ history' = [history EXCEPT ![row.attempt + 1] = "UPLOADED"],
         UNCHANGED <<checkpoints, tombstones, remover, job>>
  PROVE  RecordInv'
<1>1. row'.stage = "UPLOADED" /\ row'.deleting = row.deleting
  BY NextRow DEF TypeOK
<1>2. row.stage # "REMOVED" /\ remover = "none"
  BY DEF RecordInv
<1>3. HistorySettled'
  BY <1>2, HistoryNext DEF RecordInv
<1>4. \A w \in Workers : job[w].at # "clear_checkpoints"
  BY <1>2 DEF RecordInv
<1>5. QED
  BY <1>1, <1>2, <1>3, <1>4 DEF RecordInv, Active, ActiveStages

LEMMA RecordStep ==
  ASSUME TypeOK, RecordInv, [Next]_vars
  PROVE  RecordInv'
<1>1. row \in Rows(Instances) /\ row.attempt \in Attempts /\ \A w \in Workers : Home[w] \in Instances
  BY RowFields, HomeFacts DEF TypeOK
<1>2. ASSUME NEW i \in Instances, Recover(i)
      PROVE  RecordInv'
  <2>1. Active(row) /\ ~row.deleting /\ row.stage \notin DeletableStages
    BY <1>2, NotRemoved DEF Recover, Interrupted, RecordInv
  <2>2. CASE row.attempt < MaxProcessingAttempts
    <3>1. row.attempt + 1 \in Attempts
      BY <1>1, <2>2, AttemptFacts
    <3>2. row.stage # "READY"
      BY <2>1 DEF DeletableStages
    <3>3. QED
      BY <1>2, <2>1, <2>2, <3>1, <3>2, RecordNext DEF Recover, coordinator
  <2>3. CASE ~(row.attempt < MaxProcessingAttempts)
    <3>1. row' = Failed(row, FALSE) /\ history' = [history EXCEPT ![row.attempt] = "FAILED"]
      BY <1>2, <2>3 DEF Recover
    <3>2. row'.stage = "FAILED" /\ row'.attempt = row.attempt /\ row'.deleting = row.deleting
      BY <1>1, <3>1, FailedRow
    <3>3. QED
      BY <1>2, <2>1, <3>1, <3>2, RecordStaged DEF Recover, DeletableStages
  <2>4. QED
    BY <2>2, <2>3
<1>3. ASSUME NEW i \in Instances, RetryUpload(i)
      PROVE  RecordInv'
  <2>1. row.attempt + 1 \in Attempts
    BY <1>1, <1>3, AttemptFacts DEF RetryUpload, CanReprocess
  <2>2. /\ ~row.deleting /\ row.stage \in DeletableStages
        /\ ~(row.stage = "READY" /\ row.graphStatus = "GRAPH_READY")
    BY <1>3 DEF RetryUpload, CanReprocess, DeletableStages
  <2>3. QED
    BY <1>3, <2>1, <2>2, RecordNext DEF RetryUpload
<1>4. ASSUME NEW i \in Instances, RetrySourceFails(i)
      PROVE  RecordInv'
  <2>1. CASE Active(row) /\ row.attempt = retrying[i]
    <3>1. PICK retryable \in BOOLEAN : row' = Failed(row, retryable)
      BY <1>4, <2>1 DEF RetrySourceFails
    <3>2. row'.stage = "FAILED" /\ row'.attempt = row.attempt /\ row'.deleting = row.deleting
      BY <1>1, <3>1, FailedRow
    <3>3. QED
      BY <1>4, <2>1, <3>2, RecordStaged DEF RetrySourceFails, DeletableStages
  <2>2. CASE ~(Active(row) /\ row.attempt = retrying[i])
    BY <1>4, <2>2, RecordSame, NoneClearsFacts DEF RetrySourceFails, RowTouched
  <2>3. QED
    BY <2>1, <2>2
<1>5. ASSUME NEW i \in Instances, Dispatch(i) \/ RetryQueued(i) \/ Stop(i)
      PROVE  RecordInv'
  BY <1>5, RecordSame, NoneClearsFacts DEF Dispatch, RetryQueued, Stop, RowTouched, record
<1>6. ASSUME NEW i \in Instances, Crash(i) \/ Stopped(i)
      PROVE  RecordInv'
  <2>1. GoDown(i) /\ NoneClears
    BY <1>6, NoneClearsFacts DEF Crash, Stopped
  <2>2. QED
    BY <2>1, RecordSame DEF GoDown, RowTouched, record
<1>7. ASSUME NEW w \in Workers, Claim(w)
      PROVE  RecordInv'
  <2>1. RowTouched
    BY <1>1, <1>7, LeasedRow DEF Claim, RowTouched
  <2>2. QED
    BY <1>7, <2>1, RecordSame, NoneClearsFacts DEF Claim
<1>8. ASSUME NEW w \in Workers, ClaimRefused(w)
      PROVE  RecordInv'
  BY <1>8, RecordSame, NoneClearsFacts DEF ClaimRefused, RowTouched, record
<1>9. ASSUME NEW w \in Workers, Heartbeat(w)
      PROVE  RecordInv'
  <2>1. RowTouched
    BY <1>1, <1>9, LeaseChanged DEF Heartbeat, RowTouched, Leases
  <2>2. QED
    BY <1>9, <2>1, RecordSame, NoneClearsFacts DEF Heartbeat
<1>10. ASSUME NEW w \in Workers,
              BeginFails(w) \/ FailureNotRecorded(w) \/ Superseded(w) \/ FailureSuperseded(w)
       PROVE  RecordInv'
  BY <1>10, RecordSame, NoneClearsFacts
     DEF BeginFails, FailureNotRecorded, Superseded, FailureSuperseded, RowTouched, record
<1>11. ASSUME NEW w \in Workers, Begin(w) \/ Raise(w)
       PROVE  RecordInv'
  <2>1. NoneClears
    BY <1>11, NoneClearsFacts DEF Begin, Raise
  <2>2. QED
    BY <1>11, <2>1, RecordSame DEF Begin, Raise, RowTouched, record
<1>12. ASSUME NEW w \in Workers, SetStage(w)
       PROVE  RecordInv'
  <2>1. /\ job[w].at \in ActiveStages /\ job[w].at \in Steps \ {"mark_completed"} /\ Active(row)
        /\ row' = Staged(row, job[w].at)
    BY <1>12 DEF SetStage, StageSteps, IsCurrent, Current, ActiveStages
  <2>2. row'.stage = job[w].at /\ row'.attempt = row.attempt /\ row'.deleting = row.deleting
    BY <1>1, <2>1, StagedRow, StageFacts
  <2>3. NoneClears
    BY <1>12, <2>1, NoneClearsFacts DEF SetStage
  <2>4. QED
    BY <1>12, <2>1, <2>2, <2>3, RecordStaged DEF SetStage, NoneClears
<1>13. ASSUME NEW w \in Workers, ReserveChunks(w) \/ GraphExtracted(w) \/ FencedWrite(w)
       PROVE  RecordInv'
  <2>1. job[w].at \in Steps \ {"mark_completed"} /\ Proceed(w)
    BY <1>13, StepFacts DEF ReserveChunks, GraphExtracted, FencedWrite, At
  <2>2. QED
    BY <1>13, <2>1, RecordSame, NoneClearsFacts
       DEF ReserveChunks, GraphExtracted, FencedWrite, RowTouched, record
<1>14. ASSUME NEW w \in Workers, SaveCheckpoint(w)
       PROVE  RecordInv'
  <2>1. Active(row) /\ row.stage # "REMOVED"
    BY <1>14, NotRemoved DEF SaveCheckpoint, IsCurrent, Current
  <2>2. HistorySettled'
    BY <1>14 DEF SaveCheckpoint, RecordInv, HistorySettled
  <2>3. QED
    BY <1>14, <2>1, <2>2 DEF SaveCheckpoint, RecordInv, Active
<1>15. ASSUME NEW w \in Workers, Complete(w)
       PROVE  RecordInv'
  <2>1. PICK g \in GraphStatuses, rebuild \in Rebuilds :
          /\ row' = Completed(row, g, rebuild)
          /\ \/ g = "GRAPH_READY"
             \/ Release(w)
             \/ job' = [job EXCEPT ![w].at = "failing"]
    BY <1>15 DEF Complete
  <2>2. /\ row'.stage = "READY" /\ row'.attempt = row.attempt /\ row'.deleting = row.deleting
        /\ row'.graphStatus = g
    BY <1>1, <2>1, CompletedRow
  <2>3. NoneClears \/ g = "GRAPH_READY"
    BY <2>1, NoneClearsFacts
  <2>4. Active(row)
    BY <1>15 DEF Complete, IsCurrent, Current
  <2>5. QED
    BY <1>15, <2>2, <2>3, <2>4, RecordStaged DEF Complete, NoneClears, DeletableStages
<1>16. ASSUME NEW w \in Workers, ClearCheckpoints(w)
       PROVE  RecordInv'
  <2>1. NoneClears /\ checkpoints' \in {0, checkpoints} /\ UNCHANGED <<row, history, tombstones, remover>>
    BY <1>16, NoneClearsFacts DEF ClearCheckpoints
  <2>2. HistorySettled'
    BY <2>1 DEF RecordInv, HistorySettled
  <2>3. QED
    BY <2>1, <2>2 DEF RecordInv, NoneClears, Active
<1>17. ASSUME NEW w \in Workers, Fail(w)
       PROVE  RecordInv'
  <2>1. PICK retryable \in BOOLEAN : row' = Failed(row, retryable)
    BY <1>17 DEF Fail
  <2>2. row'.stage = "FAILED" /\ row'.attempt = row.attempt /\ row'.deleting = row.deleting
    BY <1>1, <2>1, FailedRow
  <2>3. NoneClears /\ Active(row)
    BY <1>17, NoneClearsFacts DEF Fail, IsCurrent, Current
  <2>4. QED
    BY <1>17, <2>2, <2>3, RecordStaged DEF Fail, NoneClears, DeletableStages
<1>18. ASSUME NEW w \in Workers, Cancel(w)
       PROVE  RecordInv'
  <2>1. RowTouched
    BY <1>1, <1>18, UnleasedRow DEF Cancel, RowTouched
  <2>2. QED
    BY <1>18, <2>1, RecordSame, NoneClearsFacts DEF Cancel
<1>19. ASSUME LeaseExpires \/ LeaseLost \/ RetryDue
       PROVE  RecordInv'
  <2>1. RowTouched
    <3>1. CASE LeaseExpires \/ LeaseLost
      <4>1. row' = [row EXCEPT !.lease = "expired"] /\ "expired" \in Leases
        BY <3>1 DEF LeaseExpires, LeaseLost, Leases
      <4>2. QED
        BY <1>1, <4>1, LeaseChanged DEF RowTouched
    <3>2. CASE RetryDue
      <4>1. row' = [row EXCEPT !.rebuild = "open"] /\ "open" \in Rebuilds
        BY <3>2 DEF RetryDue, Rebuilds
      <4>2. QED
        BY <1>1, <4>1, RebuildChanged DEF RowTouched
    <3>3. QED
      BY <1>19, <3>1, <3>2
  <2>2. QED
    BY <1>19, <2>1, RecordSame, NoneClearsFacts DEF LeaseExpires, LeaseLost, RetryDue
<1>20. ASSUME RequestRemoval
       PROVE  RecordInv'
  <2>1. /\ row'.stage = row.stage /\ row'.attempt = row.attempt /\ row'.deleting
        /\ row'.graphStatus = row.graphStatus
        /\ row.stage \in DeletableStages /\ row.stage # "REMOVED" /\ ~Active(row)
    BY <1>1, <1>20, MarkedRow, StageFacts DEF RequestRemoval, Active
  <2>2. HistorySettled'
    BY <1>20, <2>1 DEF RequestRemoval, RecordInv, HistorySettled
  <2>3. ASSUME NEW n \in Attempts, n <= row.attempt
        PROVE  n \in tombstones'
    <3>1. history[n] \in DeletableStages
      BY <1>1, <2>1, <2>3, AttemptFacts DEF RecordInv, HistorySettled
    <3>2. history[n] # "none"
      BY <3>1 DEF DeletableStages
    <3>3. QED
      BY <1>20, <3>2 DEF RequestRemoval
  <2>4. QED
    BY <1>20, <2>1, <2>2, <2>3 DEF RequestRemoval, RecordInv, Active
<1>21. ASSUME RemoveRemote \/ RemovalFails
       PROVE  RecordInv'
  <2>1. remover # "none" /\ UNCHANGED <<record, job>>
    BY <1>21 DEF RemoveRemote, RemovalFails, NextRemoval
  <2>2. HistorySettled'
    BY <2>1 DEF RecordInv, HistorySettled, record
  <2>3. QED
    BY <2>1, <2>2 DEF RecordInv, record, Active
<1>22. ASSUME RemoveRow
       PROVE  RecordInv'
  <2>1. row'.stage = "REMOVED" /\ row'.attempt = row.attempt /\ row'.deleting
    BY <1>1, <1>22, RemovedRow DEF RemoveRow
  <2>2. row.deleting /\ ~Active(row)'
    BY <1>22, <2>1, StageFacts DEF RemoveRow, RecordInv, Active
  <2>3. QED
    BY <1>22, <2>1, <2>2 DEF RemoveRow, RecordInv, HistorySettled
<1>23. ASSUME \E task \in Attempts : SweepVectors(task)
       PROVE  RecordInv'
  BY <1>23, RecordSame, NoneClearsFacts DEF SweepVectors, RowTouched, record
<1>24. ASSUME LateLands \/ UNCHANGED vars
       PROVE  RecordInv'
  BY <1>24, RecordSame, NoneClearsFacts DEF LateLands, vars, RowTouched, record
<1>25. QED
  BY <1>2, <1>3, <1>4, <1>5, <1>6, <1>7, <1>8, <1>9, <1>10, <1>11, <1>12, <1>13, <1>14, <1>15,
     <1>16, <1>17, <1>18, <1>19, <1>20, <1>21, <1>22, <1>23, <1>24
     DEF Next, WorkerStep

LEMMA RecordInit == Init => RecordInv
<1> SUFFICES ASSUME Init PROVE RecordInv
  OBVIOUS
<1>1. HistorySettled
  BY AttemptFacts DEF Init, HistorySettled, NewRow
<1>2. QED
  BY <1>1 DEF Init, RecordInv, NewRow, Active, ActiveStages, Idle

(* UploadService's transactions, whoever calls them and however late, keep *)
(* row, history, checkpoints, removal and tombstones in agreement.         *)
THEOREM RecordInvariance == Spec => [](TypeOK /\ RecordInv)
<1>1. QED
  BY ExclusiveInit, RecordInit, TypeStep, RecordStep, PTL DEF Spec, ExclusiveInv

(* The attempt history: the current attempt shows the row's stage, earlier *)
(* ones have ended, and there are no later ones.                           *)
THEOREM HistoryAgrees == Spec => []HistorySettled
<1>1. RecordInv => HistorySettled
  BY DEF RecordInv
<1>2. QED
  BY <1>1, RecordInvariance, PTL

(* No failure, retry or recovery loses a saved batch: checkpoints are      *)
(* dropped when the graph is complete and when the document is removed.    *)
THEOREM CheckpointsStay == Spec => CheckpointsKept
<1>1. ASSUME TypeOK, RecordInv, [Next]_vars, checkpoints' < checkpoints
      PROVE  row'.stage = "REMOVED" \/ (row.stage = "READY" /\ row.graphStatus = "GRAPH_READY")
  <2>1. checkpoints \in Nat
    <3>1. checkpoints \in 0..Batches
      BY <1>1 DEF TypeOK
    <3>2. QED
      BY <3>1, BoundsAssumption
  <2>2. CASE \E w \in Workers : ClearCheckpoints(w)
    BY <1>1, <2>1, <2>2 DEF ClearCheckpoints, RecordInv, At
  <2>3. CASE RemoveRow
    <3>1. row \in Rows(Instances) /\ row' = Removed(row)
      BY <1>1, <2>3 DEF RemoveRow, TypeOK
    <3>2. QED
      BY <3>1, RemovedRow
  <2>4. CASE \E w \in Workers : SaveCheckpoint(w)
    BY <1>1, <2>1, <2>4 DEF SaveCheckpoint
  <2>5. CASE UNCHANGED checkpoints
    BY <1>1, <2>1, <2>5
  <2>6. UNCHANGED checkpoints \/ RemoveRow \/ \E w \in Workers : ClearCheckpoints(w) \/ SaveCheckpoint(w)
    BY <1>1, ZenonT(60) DEF Next, WorkerStep, Recover, Dispatch, RetryUpload, RetryQueued, RetrySourceFails,
       Crash, Stop, Stopped, GoDown, Claim, ClaimRefused, Begin, Superseded, SetStage, ReserveChunks,
       FencedWrite, GraphExtracted, Complete, Raise, Fail, FailureSuperseded, Cancel, Heartbeat,
       BeginFails, FailureNotRecorded, LeaseExpires, LeaseLost, RetryDue, RequestRemoval,
       RemoveRemote, RemovalFails, SweepVectors, LateLands, record, vars
  <2>7. QED
    BY <2>2, <2>3, <2>4, <2>5, <2>6
<1>2. QED
  BY <1>1, RecordInvariance, PTL DEF Spec, CheckpointsKept

-----------------------------------------------------------------------------
(***************************************************************************)
(* The two remote stores: what they hold of a document that is READY and   *)
(* of one that is gone, whatever requests of dead executions arrive late.  *)
(***************************************************************************)

(* No store, and no request on its way to one, knows of an attempt that    *)
(* the row has not reached; the fence is shut by removals only, and before *)
(* a removal goes on to the object and the row.                            *)
FenceInv ==
  /\ \A n \in vectors : n <= row.attempt
  /\ \A op \in late : op.task <= row.attempt /\ (op.kind = "tombstone" => row.deleting)
  /\ fence.generation <= row.attempt
  /\ fence.deleted => row.deleting /\ graph = 0
  /\ remover \in {"object", "row"} \/ row.stage = "REMOVED" => fence.deleted

(* What a step does, as far as FenceInv goes.                              *)
RowStep ==
  /\ row'.attempt >= row.attempt
  /\ row.deleting => row'.deleting
  /\ row'.stage = "REMOVED" => row.stage = "REMOVED" \/ fence.deleted
RemoverStep == remover' \in {"object", "row"} => remover \in {"object", "row"} \/ fence'.deleted
LateStep ==
  \A op \in late' : op \in late \/ (op.task <= row.attempt /\ (op.kind = "tombstone" => row.deleting))
StoresStep ==
  /\ \A n \in vectors' : n \in vectors \/ n <= row.attempt
  /\ fence'.generation <= row.attempt
  /\ fence.deleted => fence'.deleted
  /\ fence'.deleted => graph' = 0 /\ row.deleting

LEMMA FenceKept ==
  ASSUME TypeOK, TypeOK', FenceInv, RowStep, RemoverStep, LateStep, StoresStep
  PROVE  FenceInv'
<1>1. /\ row.attempt \in Nat /\ row'.attempt \in Nat
      /\ fence'.generation \in Nat
      /\ vectors' \subseteq Nat
      /\ \A op \in late' : op.task \in Nat
  BY RowFields, AttemptFacts DEF TypeOK, Fences
<1>2. (\A n \in vectors : n <= row.attempt)'
  BY <1>1 DEF FenceInv, StoresStep, RowStep
<1>3. (\A op \in late : op.task <= row.attempt /\ (op.kind = "tombstone" => row.deleting))'
  BY <1>1 DEF FenceInv, LateStep, RowStep
<1>4. (fence.generation <= row.attempt)'
  BY <1>1 DEF StoresStep, RowStep
<1>5. /\ (fence.deleted => row.deleting /\ graph = 0)'
      /\ (remover \in {"object", "row"} \/ row.stage = "REMOVED" => fence.deleted)'
  BY DEF FenceInv, StoresStep, RowStep, RemoverStep
<1>6. QED
  BY <1>2, <1>3, <1>4, <1>5 DEF FenceInv

(* Nothing changes in the stores, or a request of the document does.       *)
LEMMA StoresSame == ASSUME FenceInv, UNCHANGED stores PROVE StoresStep
BY DEF FenceInv, StoresStep, stores

LEMMA StoresApply ==
  ASSUME TypeOK, FenceInv, NEW op \in Ops, op.task <= row.attempt,
         op.kind = "tombstone" => row.deleting, ~Refused(op), Apply(op)
  PROVE  StoresStep
<1>1. /\ op.kind \in OpKinds /\ op.task \in Attempts /\ fence.generation <= row.attempt
      /\ fence \in Fences(Attempts, Attempts)
  BY DEF Ops, FenceInv, TypeOK
<1>2. \A n \in vectors' : n \in vectors \/ n <= row.attempt
  BY <1>1 DEF Apply
<1>3. CASE op.kind \in {"baseline", "abort"}
  <2>1. ~fence.deleted /\ fence' = Advance(fence, GraphWrite(op))
    BY <1>3 DEF Refused, Admits, Apply
  <2>2. ~fence'.deleted /\ fence'.generation = op.task
    BY <1>1, <2>1 DEF Advance, Fences, GraphWrite
  <2>3. QED
    BY <1>2, <2>1, <2>2 DEF StoresStep
<1>4. CASE op.kind = "tombstone"
  <2>1. fence' = Close(fence) /\ graph' = 0
    BY <1>4 DEF Apply
  <2>2. fence'.deleted /\ fence'.generation = fence.generation
    BY <1>1, <2>1 DEF Close, Fences
  <2>3. QED
    BY <1>1, <1>2, <1>4, <2>1, <2>2 DEF StoresStep
<1>5. CASE op.kind \notin {"baseline", "abort", "tombstone"}
  <2>1. UNCHANGED <<fence, graph>>
    BY <1>5 DEF Apply
  <2>2. QED
    BY <1>2, <2>1 DEF StoresStep, FenceInv
<1>6. QED
  BY <1>3, <1>4, <1>5

LEMMA CleanUpStep ==
  ASSUME TypeOK, FenceInv, NEW w \in Workers, IsCurrent(w), CleanUp(w)
  PROVE  StoresStep /\ LateStep
<1>1. job[w].task = row.attempt /\ row.attempt \in Attempts /\ row.attempt \in Nat
  BY RowFields, AttemptFacts DEF IsCurrent, Current, TypeOK
<1>2. LateStep
  BY <1>1, CleanUpFacts DEF LateStep
<1>3. CASE UNCHANGED stores
  BY <1>2, <1>3, StoresSame
<1>4. CASE /\ ~Refused(Op("abort", job[w].task))
           /\ fence' = Advance(fence, GraphWrite(Op("abort", job[w].task)))
           /\ vectors' \subseteq vectors
  <2>1. Op("abort", job[w].task).kind = "abort" /\ Op("abort", job[w].task).task = row.attempt
    BY <1>1 DEF Op
  <2>2. ~fence.deleted /\ fence \in Fences(Attempts, Attempts)
    BY <1>4, <2>1 DEF Refused, Admits, TypeOK
  <2>3. fence'.generation = row.attempt /\ ~fence'.deleted
    BY <1>4, <2>1, <2>2 DEF Advance, GraphWrite, Fences
  <2>4. QED
    BY <1>1, <1>2, <1>4, <2>2, <2>3 DEF StoresStep
<1>5. QED
  BY <1>3, <1>4 DEF CleanUp
(* Requests of a worker that is current name the row's attempt.            *)
LEMMA SentByCurrent ==
  ASSUME TypeOK, NEW S \in SUBSET Workers, MayOutlive(UNION {InFlight(w) : w \in S})
  PROVE  LateStep
<1>1. row.attempt \in Nat
  BY RowFields, AttemptFacts DEF TypeOK
<1>2. QED
  BY <1>1, OutliveFacts, InFlightFacts DEF LateStep

LEMMA SentByWorker ==
  ASSUME TypeOK, NEW w \in Workers, MayOutlive(InFlight(w))
  PROVE  LateStep
<1>1. row.attempt \in Nat
  BY RowFields, AttemptFacts DEF TypeOK
<1>2. QED
  BY <1>1, OutliveFacts, InFlightFacts DEF LateStep

(* A worker's remote operation, sent and answered under the row's lock.    *)
LEMMA FencedOp ==
  ASSUME TypeOK, NEW w \in Workers, FencedWrite(w)
  PROVE  \E op \in Ops :
           /\ op = Op(KindOf[job[w].at], job[w].task)
           /\ op.kind = KindOf[job[w].at] /\ op.task = row.attempt
           /\ op.kind \in {"delete_all", "upsert", "baseline"}
           /\ ~Refused(op) /\ Apply(op)
<1>1. job[w].at \in DOMAIN KindOf /\ job[w].task = row.attempt /\ row.attempt \in Attempts
  BY RowFields DEF FencedWrite, IsCurrent, Current, TypeOK
<1>2. KindOf[job[w].at] \in {"delete_all", "upsert", "baseline"}
  BY <1>1, StepFacts DEF KindOf
<1>3. QED
  BY <1>1, <1>2 DEF FencedWrite, Op, Ops, OpKinds

LEMMA RemovalOpFacts ==
  ASSUME TypeOK
  PROVE  /\ DOMAIN RemovalOp = {"vectors", "graph"}
         /\ \A r \in DOMAIN RemovalOp : RemovalOp[r] \in Ops /\ RemovalOp[r].task = row.attempt
         /\ RemovalOp["vectors"].kind = "delete_all" /\ RemovalOp["graph"].kind = "tombstone"
<1>1. row.attempt \in Attempts
  BY RowFields DEF TypeOK
<1>2. QED
  BY <1>1 DEF RemovalOp, Op, Ops, OpKinds

LEMMA FenceStep ==
  ASSUME TypeOK, RecordInv, FenceInv, [Next]_vars
  PROVE  FenceInv'
<1>1. TypeOK'
  BY TypeStep
<1>2. /\ row \in Rows(Instances) /\ row.attempt \in Attempts /\ row.attempt \in Nat
      /\ \A w \in Workers : Home[w] \in Instances
  BY RowFields, AttemptFacts, HomeFacts DEF TypeOK
<1>3. RowTouched => RowStep
  BY <1>2 DEF RowTouched, RowStep
<1>4. /\ UNCHANGED remover => RemoverStep
      /\ UNCHANGED late => LateStep
      /\ UNCHANGED stores => StoresStep
  BY StoresSame DEF RemoverStep, LateStep, StoresStep, FenceInv
<1>5. ASSUME RowStep, UNCHANGED <<stores, late, remover>>
      PROVE  FenceInv'
  BY <1>1, <1>4, <1>5, FenceKept
<1>6. ASSUME NEW i \in Instances, Recover(i) \/ RetryUpload(i) \/ RetrySourceFails(i)
      PROVE  FenceInv'
  <2>1. RowStep
    <3>1. ASSUME row' = NextAttempt(row), row.attempt + 1 \in Attempts PROVE RowStep
      BY <1>2, <3>1, NextRow DEF RowStep
    <3>2. ASSUME NEW retryable \in BOOLEAN, row' = Failed(row, retryable) PROVE RowStep
      BY <1>2, <3>2, FailedRow DEF RowStep
    <3>3. ASSUME UNCHANGED row PROVE RowStep
      BY <1>2, <3>3 DEF RowStep
    <3>4. CASE Recover(i)
      BY <1>2, <3>1, <3>2, <3>4, AttemptFacts DEF Recover
    <3>5. CASE RetryUpload(i)
      BY <1>2, <3>1, <3>5, AttemptFacts DEF RetryUpload, CanReprocess
    <3>6. CASE RetrySourceFails(i)
      BY <3>2, <3>3, <3>6 DEF RetrySourceFails
    <3>7. QED
      BY <1>6, <3>4, <3>5, <3>6
  <2>2. QED
    BY <1>5, <1>6, <2>1 DEF Recover, RetryUpload, RetrySourceFails
<1>7. ASSUME NEW i \in Instances, Dispatch(i) \/ RetryQueued(i) \/ Stop(i) \/ Stopped(i)
      PROVE  FenceInv'
  BY <1>3, <1>5, <1>7 DEF Dispatch, RetryQueued, Stop, Stopped, GoDown, RowTouched, record
<1>8. ASSUME NEW i \in Instances, Crash(i)
      PROVE  FenceInv'
  <2>1. StoresStep /\ LateStep
    <3>1. CASE MayOutlive(UNION {InFlight(w) : w \in WorkersOf(i)}) /\ UNCHANGED stores
      BY <1>4, <3>1, SentByCurrent DEF WorkersOf
    <3>2. CASE \E w \in WorkersOf(i) : job[w].at = "failing" /\ IsCurrent(w) /\ CleanUp(w)
      BY <3>2, CleanUpStep DEF WorkersOf
    <3>3. QED
      BY <1>8, <3>1, <3>2 DEF Crash
  <2>2. QED
    BY <1>1, <1>3, <1>4, <1>8, <2>1, FenceKept DEF Crash, GoDown, RowTouched, record
<1>9. ASSUME NEW w \in Workers, Claim(w)
      PROVE  FenceInv'
  <2>1. RowStep
    BY <1>2, <1>9, LeasedRow DEF Claim, RowStep
  <2>2. QED
    BY <1>5, <1>9, <2>1 DEF Claim
<1>10. ASSUME NEW w \in Workers, Heartbeat(w) \/ SetStage(w) \/ Complete(w)
       PROVE  FenceInv'
  <2>1. RowStep
    <3>1. CASE Heartbeat(w)
      BY <1>2, <3>1, LeaseChanged DEF Heartbeat, RowStep, Leases
    <3>2. CASE SetStage(w)
      BY <1>2, <3>2, StagedRow, StageFacts DEF SetStage, RowStep
    <3>3. CASE Complete(w)
      <4>1. PICK g \in GraphStatuses, b \in Rebuilds : row' = Completed(row, g, b)
        BY <3>3 DEF Complete
      <4>2. QED
        BY <1>2, <4>1, CompletedRow DEF RowStep
    <3>4. QED
      BY <1>10, <3>1, <3>2, <3>3
  <2>2. QED
    BY <1>5, <1>10, <2>1 DEF Heartbeat, SetStage, Complete
<1>11. ASSUME NEW w \in Workers,
              \/ ClaimRefused(w) \/ BeginFails(w) \/ Begin(w) \/ Superseded(w) \/ ReserveChunks(w)
              \/ GraphExtracted(w) \/ SaveCheckpoint(w) \/ ClearCheckpoints(w) \/ FailureSuperseded(w)
       PROVE  FenceInv'
  BY <1>3, <1>5, <1>11
     DEF ClaimRefused, BeginFails, Begin, Superseded, ReserveChunks, GraphExtracted, SaveCheckpoint,
         ClearCheckpoints, FailureSuperseded, RowTouched, record
<1>12. ASSUME NEW w \in Workers, FencedWrite(w)
       PROVE  FenceInv'
  <2>1. StoresStep
    BY <1>2, <1>12, FencedOp, StoresApply
  <2>2. QED
    BY <1>1, <1>3, <1>4, <1>12, <2>1, FenceKept DEF FencedWrite, RowTouched, record
<1>13. ASSUME NEW w \in Workers, Raise(w)
       PROVE  FenceInv'
  BY <1>1, <1>3, <1>4, <1>13, SentByWorker, FenceKept DEF Raise, RowTouched, record
<1>14. ASSUME NEW w \in Workers, Cancel(w)
       PROVE  FenceInv'
  <2>1. RowStep
    BY <1>2, <1>14, UnleasedRow DEF Cancel, RowStep
  <2>2. QED
    BY <1>1, <1>4, <1>14, <2>1, SentByWorker, FenceKept DEF Cancel
<1>15. ASSUME NEW w \in Workers, Fail(w)
       PROVE  FenceInv'
  <2>1. PICK retryable \in BOOLEAN : row' = Failed(row, retryable)
    BY <1>15 DEF Fail
  <2>2. RowStep
    BY <1>2, <2>1, FailedRow DEF RowStep
  <2>3. QED
    BY <1>1, <1>4, <1>15, <2>2, CleanUpStep, FenceKept DEF Fail
<1>16. ASSUME NEW w \in Workers, FailureNotRecorded(w)
       PROVE  FenceInv'
  BY <1>1, <1>3, <1>4, <1>16, CleanUpStep, FenceKept DEF FailureNotRecorded, RowTouched, record
<1>17. ASSUME LeaseExpires \/ LeaseLost \/ RetryDue
       PROVE  FenceInv'
  <2>1. RowTouched
    <3>1. CASE LeaseExpires \/ LeaseLost
      <4>1. row' = [row EXCEPT !.lease = "expired"] /\ "expired" \in Leases
        BY <3>1 DEF LeaseExpires, LeaseLost, Leases
      <4>2. QED
        BY <1>2, <4>1, LeaseChanged DEF RowTouched
    <3>2. CASE RetryDue
      <4>1. row' = [row EXCEPT !.rebuild = "open"] /\ "open" \in Rebuilds
        BY <3>2 DEF RetryDue, Rebuilds
      <4>2. QED
        BY <1>2, <4>1, RebuildChanged DEF RowTouched
    <3>3. QED
      BY <1>17, <3>1, <3>2
  <2>2. QED
    BY <1>3, <1>5, <1>17, <2>1 DEF LeaseExpires, LeaseLost, RetryDue
<1>18. ASSUME RequestRemoval
       PROVE  FenceInv'
  <2>1. RowStep /\ RemoverStep
    BY <1>2, <1>18, MarkedRow DEF RequestRemoval, RowStep, RemoverStep
  <2>2. QED
    BY <1>1, <1>4, <1>18, <2>1, FenceKept DEF RequestRemoval
<1>19. ASSUME RemoveRemote
       PROVE  FenceInv'
  <2>1. row.deleting /\ DOMAIN NextRemoval = {"vectors", "graph", "object"}
    BY <1>19 DEF RemoveRemote, RecordInv, NextRemoval
  <2>2. CASE remover \in DOMAIN RemovalOp
    <3>1. /\ RemovalOp[remover] \in Ops /\ RemovalOp[remover].task = row.attempt
          /\ RemovalOp[remover].kind \in {"delete_all", "tombstone"} /\ Apply(RemovalOp[remover])
          /\ remover = "graph" => RemovalOp[remover].kind = "tombstone"
      BY <1>19, <2>2, RemovalOpFacts DEF RemoveRemote
    <3>2. StoresStep
      BY <1>2, <2>1, <3>1, StoresApply DEF Refused
    <3>3. RemoverStep
      <4>1. CASE remover = "vectors"
        BY <1>19, <4>1 DEF RemoveRemote, RemoverStep, NextRemoval
      <4>2. CASE remover = "graph"
        <5>1. fence' = Close(fence) /\ fence \in Fences(Attempts, Attempts)
          BY <3>1, <4>2 DEF Apply, TypeOK
        <5>2. fence'.deleted
          BY <5>1 DEF Close, Fences
        <5>3. QED
          BY <5>2 DEF RemoverStep
      <4>3. QED
        BY <2>2, <4>1, <4>2, RemovalOpFacts
    <3>4. QED
      BY <1>1, <1>3, <1>4, <1>19, <3>2, <3>3, FenceKept DEF RemoveRemote, RowTouched, record
  <2>3. CASE remover \notin DOMAIN RemovalOp
    <3>1. UNCHANGED stores /\ remover = "object"
      BY <1>19, <2>1, <2>3, RemovalOpFacts DEF RemoveRemote
    <3>2. RemoverStep
      BY <3>1 DEF RemoverStep
    <3>3. QED
      BY <1>1, <1>3, <1>4, <1>19, <3>1, <3>2, FenceKept DEF RemoveRemote, RowTouched, record
  <2>4. QED
    BY <2>2, <2>3
<1>20. ASSUME RemoveRow
       PROVE  FenceInv'
  <2>1. row' = Removed(row) /\ fence.deleted /\ row.deleting
    BY <1>20 DEF RemoveRow, FenceInv, RecordInv
  <2>2. RowStep /\ RemoverStep
    BY <1>2, <1>20, <2>1, RemovedRow DEF RemoveRow, RowStep, RemoverStep
  <2>3. QED
    BY <1>1, <1>4, <1>20, <2>2, FenceKept DEF RemoveRow
<1>21. ASSUME RemovalFails
       PROVE  FenceInv'
  <2>1. row.deleting /\ RemoverStep
    BY <1>21 DEF RemovalFails, RecordInv, RemoverStep
  <2>2. LateStep
    BY <1>2, <1>21, <2>1, OutliveFacts, RemovalOpFacts DEF RemovalFails, LateStep
  <2>3. QED
    BY <1>1, <1>3, <1>4, <1>21, <2>1, <2>2, FenceKept DEF RemovalFails, RowTouched, record
<1>22. ASSUME NEW task \in Attempts, SweepVectors(task)
       PROVE  FenceInv'
  <2>1. StoresStep
    BY <1>22 DEF SweepVectors, StoresStep, FenceInv
  <2>2. QED
    BY <1>1, <1>3, <1>4, <1>22, <2>1, FenceKept DEF SweepVectors, RowTouched, record
<1>23. ASSUME LateLands
       PROVE  FenceInv'
  <2>1. PICK op \in late : late' = late \ {op} /\ (IF Refused(op) THEN UNCHANGED stores ELSE Apply(op))
    BY <1>23 DEF LateLands
  <2>2. StoresStep
    <3>1. op \in Ops /\ op.task <= row.attempt /\ (op.kind = "tombstone" => row.deleting)
      BY DEF TypeOK, FenceInv, Ops
    <3>2. QED
      BY <1>4, <2>1, <3>1, StoresApply
  <2>3. LateStep
    BY <2>1 DEF LateStep
  <2>4. QED
    BY <1>1, <1>3, <1>4, <1>23, <2>2, <2>3, FenceKept DEF LateLands, RowTouched, record
<1>24. ASSUME UNCHANGED vars
       PROVE  FenceInv'
  BY <1>3, <1>5, <1>24 DEF vars, RowTouched, record
<1>25. QED
  BY <1>6, <1>7, <1>8, <1>9, <1>10, <1>11, <1>12, <1>13, <1>14, <1>15, <1>16, <1>17, <1>18, <1>19,
     <1>20, <1>21, <1>22, <1>23, <1>24
     DEF Next, WorkerStep

LEMMA FenceInit == Init => FenceInv
<1> SUFFICES ASSUME Init PROVE FenceInv
  OBVIOUS
<1>1. QED
  BY DEF Init, FenceInv, NewRow, NewFence

(* Stores, fence and requests in flight never run ahead of the row, and a  *)
(* fence is shut before its document's object and row are removed.         *)
THEOREM FenceInvariance == Spec => []FenceInv
<1>1. QED
  BY FenceInit, FenceStep, RecordInvariance, PTL DEF Spec

(* What a removed document leaves is nothing, or known to the sweep of the *)
(* vector tombstones, also while requests of dead executions may arrive.   *)
THEOREM RemovedIsGone == Spec => []RemovedStaysGone
<1>1. ASSUME TypeOK, RecordInv, FenceInv
      PROVE  RemovedStaysGone
  <2>1. RemovedGraphStaysGone
    BY <1>1 DEF FenceInv, RemovedGraphStaysGone
  <2>2. ASSUME row.stage = "REMOVED", NEW n \in Attempts, n <= row.attempt
        PROVE  n \in tombstones
    BY <1>1, <2>2 DEF RecordInv
  <2>3. vectors \subseteq Attempts /\ \A op \in late : op.task \in Attempts
    BY <1>1 DEF TypeOK
  <2>4. OrphansAreTracked
    BY <1>1, <2>2, <2>3 DEF OrphansAreTracked, FenceInv
  <2>5. QED
    BY <2>1, <2>4 DEF RemovedStaysGone
<1>2. QED
  BY <1>1, RecordInvariance, FenceInvariance, PTL

-----------------------------------------------------------------------------
(* The current attempt.  An attempt is closed once its abort is through;   *)
(* only then is its single-task delete sent.                               *)
Closed(n) == fence.generation = n /\ fence.aborted

(* No delete of a whole document's vectors outlives its caller.            *)
NoLateWipe == "delete_all" \notin LateKinds

HasVectors == NoLateWipe => row.attempt \in vectors \/ Closed(row.attempt)
Shown ==
  /\ fence.generation = row.attempt
  /\ graph = row.attempt \/ fence.aborted
  /\ NoLateWipe => row.attempt \in vectors /\ Op("delete", row.attempt) \notin late

EmbeddedSteps == {"EMBEDDED", "BUILDING_GRAPH", "extract_graph", "replace_graph"}
ShownSteps == {"GRAPH_BUILT", "mark_completed"}

DeletesClosed ==
  \A op \in late :
    /\ NoLateWipe => op.kind # "delete_all"
    /\ op.kind = "delete" => op.task < row.attempt \/ Closed(op.task)

(* What a worker has put into the stores is there until the document is    *)
(* READY, and for as long as it is, although requests of earlier executions*)
(* and of its own may still arrive.                                        *)
AttemptInv ==
  /\ DeletesClosed
  /\ row.stage = "READY" /\ ~row.deleting => Shown
  /\ \A w \in Workers : IsCurrent(w) =>
       /\ job[w].at \in EmbeddedSteps => HasVectors
       /\ job[w].at \in ShownSteps => Shown

(* A step takes nothing from the stores that the current attempt needs.    *)
Stands ==
  /\ row'.attempt = row.attempt
  /\ HasVectors => HasVectors'
  /\ Shown /\ ~row.deleting => Shown'
  /\ DeletesClosed'

(* No worker, and no READY document, needs more than before.               *)
NeedsKept ==
  /\ row'.stage = "READY" /\ ~row'.deleting => (row.stage = "READY" \/ Shown) /\ ~row.deleting
  /\ \A v \in Workers : IsCurrent(v)' =>
       /\ job'[v].at \in EmbeddedSteps => IsCurrent(v) /\ job[v].at \in EmbeddedSteps
       /\ job'[v].at \in ShownSteps => IsCurrent(v) /\ job[v].at \in ShownSteps

LEMMA AttemptStands ==
  ASSUME RecordInv, AttemptInv, Stands, NeedsKept
  PROVE  AttemptInv'
<1>1. (row.stage = "READY" /\ ~row.deleting => Shown)'
  BY DEF AttemptInv, Stands, NeedsKept
<1>2. ASSUME NEW v \in Workers, IsCurrent(v)'
      PROVE  /\ job'[v].at \in EmbeddedSteps => HasVectors'
             /\ job'[v].at \in ShownSteps => Shown'
  <2>1. IsCurrent(v) => ~row.deleting
    BY DEF RecordInv, IsCurrent, Current
  <2>2. QED
    BY <1>2, <2>1 DEF AttemptInv, Stands, NeedsKept
<1>3. QED
  BY <1>1, <1>2 DEF AttemptInv, Stands

(* Nobody needs anything of the stores.                                    *)
NoNeeds ==
  /\ ~(row'.stage = "READY" /\ ~row'.deleting)
  /\ \A v \in Workers : IsCurrent(v)' => job'[v].at \notin EmbeddedSteps \cup ShownSteps

LEMMA AttemptIdle == ASSUME DeletesClosed', NoNeeds PROVE AttemptInv'
BY DEF AttemptInv, NoNeeds

(* The row and the workers, in steps that ask for no more than before.     *)
RowKept ==
  /\ row'.attempt = row.attempt /\ row'.deleting = row.deleting
  /\ row'.owner \in {row.owner, NoOwner}
  /\ Active(row)' => Active(row)
  /\ row'.stage = "READY" => row.stage = "READY"

LEMMA Unowned == row'.owner = NoOwner => \A v \in Workers : ~IsCurrent(v)'
BY HomeFacts DEF IsCurrent, Current

LEMMA CurrentKept ==
  ASSUME RowKept, NEW v \in Workers, job'[v].task = job[v].task, IsCurrent(v)'
  PROVE  IsCurrent(v)
BY HomeFacts DEF RowKept, IsCurrent, Current

LEMMA NeedsSame ==
  ASSUME RowKept,
         \A v \in Workers : job'[v].at \in EmbeddedSteps \cup ShownSteps => job'[v] = job[v]
  PROVE  NeedsKept
<1>1. ASSUME NEW v \in Workers, IsCurrent(v)', job'[v].at \in EmbeddedSteps \cup ShownSteps
      PROVE  IsCurrent(v) /\ job'[v].at = job[v].at
  BY <1>1, CurrentKept
<1>2. QED
  BY <1>1 DEF NeedsKept, RowKept

(* Where a step of the stages leads that writes nothing to the stores.     *)
LEMMA NeedsProceed ==
  ASSUME TypeOK, RowKept, NEW w \in Workers, job[w].at \in Steps \ DOMAIN KindOf, Proceed(w)
  PROVE  NeedsKept
<1>1. /\ Following[job[w].at] \in EmbeddedSteps => job[w].at \in EmbeddedSteps
      /\ Following[job[w].at] \in ShownSteps => job[w].at \in ShownSteps
  BY StepFacts DEF Following, EmbeddedSteps, ShownSteps
<1>2. /\ \A v \in Workers : job'[v].task = job[v].task
      /\ \A v \in Workers \ {w} : job'[v] = job[v]
      /\ job'[w].at = Following[job[w].at]
  <2>1. job[w] \in Jobs /\ job[w] # Idle /\ Following[job[w].at] \in Steps \cup {"clear_checkpoints"}
    BY StepFacts, JobFacts DEF TypeOK
  <2>2. QED
    BY <2>1, JobFacts DEF Proceed, TypeOK
<1>3. ASSUME NEW v \in Workers, IsCurrent(v)'
      PROVE  /\ IsCurrent(v)
             /\ job'[v].at \in EmbeddedSteps => job[v].at \in EmbeddedSteps
             /\ job'[v].at \in ShownSteps => job[v].at \in ShownSteps
  BY <1>1, <1>2, <1>3, CurrentKept
<1>4. QED
  BY <1>3 DEF NeedsKept, RowKept

(* A fenced write that is admitted belongs to the newest generation, and   *)
(* an aborted generation admits nothing but its abort again.               *)
LEMMA AdvanceFacts ==
  ASSUME fence \in Fences(Attempts, Attempts), NEW op \in Ops, op.kind \in {"baseline", "abort"},
         ~Refused(op), fence' = Advance(fence, GraphWrite(op))
  PROVE  /\ fence'.generation = op.task
         /\ fence'.aborted <=> op.kind = "abort"
         /\ op.task >= fence.generation
         /\ op.task = fence.generation /\ fence.aborted => op.kind = "abort"
         /\ \A n \in Attempts : Closed(n) => Closed(n)' \/ n < op.task
<1>1. /\ GraphWrite(op).generation = op.task /\ GraphWrite(op).mode = op.kind
      /\ op.task \in Nat /\ fence.generation \in Nat
  BY AttemptFacts DEF GraphWrite, Ops, Fences
<1>2. fence'.generation = op.task /\ (fence'.aborted <=> op.kind = "abort")
  BY <1>1 DEF Advance, Fences
<1>3. Admits(fence, GraphWrite(op))
  BY DEF Refused
<1>4. /\ op.task >= fence.generation
      /\ op.task = fence.generation /\ fence.aborted => op.kind = "abort"
  BY <1>1, <1>3 DEF Admits, SameAttemptAdmits
<1>5. ASSUME NEW n \in Attempts, Closed(n)
      PROVE  Closed(n)' \/ n < op.task
  BY <1>1, <1>2, <1>4, <1>5 DEF Closed
<1>6. QED
  BY <1>2, <1>4, <1>5

(* An operation that takes vectors from no attempt, once it is late.       *)
Harmless(op) == op.kind # "delete" /\ (NoLateWipe => op.kind # "delete_all")

LEMMA StandsSame ==
  ASSUME AttemptInv, row'.attempt = row.attempt, UNCHANGED stores,
         \A op \in late' : op \in late \/ Harmless(op)
  PROVE  Stands
<1>1. \A n : Closed(n)' = Closed(n)
  BY DEF Closed, stores
<1>2. DeletesClosed'
  BY <1>1 DEF AttemptInv, DeletesClosed, Harmless
<1>3. Op("delete", row.attempt).kind = "delete"
  BY DEF Op
<1>4. QED
  BY <1>1, <1>2, <1>3 DEF Stands, Shown, HasVectors, Harmless, stores

LEMMA StandsApply ==
  ASSUME TypeOK, FenceInv, AttemptInv, UNCHANGED row, NEW op \in late, late' \subseteq late,
         ~Refused(op), Apply(op)
  PROVE  Stands
<1>1. /\ op \in Ops /\ op.task \in Attempts /\ op.task \in Nat /\ op.task <= row.attempt
      /\ row.attempt \in Attempts /\ row.attempt \in Nat /\ (NoLateWipe => op.kind # "delete_all")
      /\ fence \in Fences(Attempts, Attempts) /\ fence.generation \in Nat
      /\ fence.generation <= row.attempt
  BY RowFields, AttemptFacts DEF TypeOK, FenceInv, Ops, AttemptInv, DeletesClosed, Fences
<1>2. \A o \in late : o.task \in Attempts /\ o.task \in Nat /\ o.task <= row.attempt
  BY AttemptFacts DEF TypeOK, FenceInv
<1>3. ASSUME \A n \in Attempts : Closed(n) => Closed(n)' \/ n < row.attempt
      PROVE  DeletesClosed'
  BY <1>1, <1>2, <1>3 DEF AttemptInv, DeletesClosed
<1>4. CASE op.kind = "upsert"
  <2>1. vectors \subseteq vectors' /\ UNCHANGED <<fence, graph>>
    BY <1>4 DEF Apply
  <2>2. \A n : Closed(n)' = Closed(n)
    BY <2>1 DEF Closed
  <2>3. QED
    BY <1>3, <2>1, <2>2 DEF Stands, Shown, HasVectors
<1>5. CASE op.kind = "delete"
  <2>1. vectors' = vectors \ {op.task} /\ UNCHANGED <<fence, graph>>
    BY <1>5 DEF Apply
  <2>2. \A n : Closed(n)' = Closed(n)
    BY <2>1 DEF Closed
  <2>3. op = Op("delete", op.task)
    BY <1>1, <1>5 DEF Ops, Op
  <2>4. Shown => Shown'
    BY <2>1, <2>3 DEF Shown
  <2>5. op.task = row.attempt => Closed(row.attempt)
    BY <1>1, <1>5 DEF AttemptInv, DeletesClosed
  <2>6. QED
    BY <1>3, <2>1, <2>2, <2>4, <2>5 DEF Stands, HasVectors
<1>6. CASE op.kind \in {"baseline", "abort"}
  <2>1. /\ UNCHANGED vectors /\ fence' = Advance(fence, GraphWrite(op))
        /\ graph' = IF op.kind = "baseline" THEN op.task ELSE 0
    BY <1>6 DEF Apply
  <2>2. /\ fence'.generation = op.task
        /\ fence'.aborted <=> op.kind = "abort"
        /\ op.task >= fence.generation
        /\ \A n \in Attempts : Closed(n) => Closed(n)' \/ n < op.task
    BY <1>1, <1>6, <2>1, AdvanceFacts
  <2>3. \A n \in Attempts : Closed(n) => Closed(n)' \/ n < row.attempt
    BY <1>1, <2>2, AttemptFacts
  <2>4. Shown => Shown'
    BY <1>1, <1>6, <2>1, <2>2 DEF Shown
  <2>5. HasVectors => HasVectors'
    BY <1>1, <2>1, <2>3 DEF HasVectors
  <2>6. QED
    BY <1>3, <2>3, <2>4, <2>5 DEF Stands
<1>7. CASE op.kind = "tombstone"
  <2>1. UNCHANGED vectors /\ fence' = Close(fence) /\ row.deleting
    BY <1>7 DEF Apply, FenceInv
  <2>2. fence'.generation = fence.generation /\ fence'.aborted = fence.aborted
    BY <1>1, <2>1 DEF Close, Fences
  <2>3. \A n : Closed(n)' = Closed(n)
    BY <2>2 DEF Closed
  <2>4. QED
    BY <1>3, <2>1, <2>3 DEF Stands, HasVectors
<1>8. CASE op.kind = "delete_all"
  <2>1. UNCHANGED <<fence, graph>> /\ ~NoLateWipe
    BY <1>1, <1>8 DEF Apply
  <2>2. \A n : Closed(n)' = Closed(n)
    BY <2>1 DEF Closed
  <2>3. QED
    BY <1>3, <2>1, <2>2 DEF Stands, Shown, HasVectors, NoLateWipe
<1>9. QED
  BY <1>1, <1>4, <1>5, <1>6, <1>7, <1>8 DEF Ops, OpKinds

(* What the failure path sends, or leaves behind.                          *)
LEMMA CleanUpCloses ==
  ASSUME TypeOK, FenceInv, AttemptInv, NEW w \in Workers, IsCurrent(w), CleanUp(w),
         row'.attempt = row.attempt
  PROVE  DeletesClosed'
<1>1. /\ job[w].task = row.attempt /\ row.attempt \in Attempts /\ row.attempt \in Nat
      /\ fence \in Fences(Attempts, Attempts)
  BY RowFields, AttemptFacts DEF IsCurrent, Current, TypeOK
<1>2. \A o \in late : o.task \in Attempts /\ o.task \in Nat
  BY AttemptFacts DEF TypeOK
<1>3. /\ Op("abort", row.attempt) \in Ops
      /\ Op("abort", row.attempt).kind = "abort" /\ Op("abort", row.attempt).task = row.attempt
      /\ Op("delete", row.attempt).kind = "delete" /\ Op("delete", row.attempt).task = row.attempt
  BY <1>1 DEF Op, Ops, OpKinds
<1>4. CASE MayOutlive({Op("abort", row.attempt)}) /\ UNCHANGED stores
  <2>1. \A op \in late' : op \in late \/ op.kind = "abort"
    BY <1>3, <1>4, OutliveFacts
  <2>2. \A n : Closed(n)' = Closed(n)
    BY <1>4 DEF Closed, stores
  <2>3. QED
    BY <2>1, <2>2 DEF AttemptInv, DeletesClosed
<1>5. CASE /\ ~Refused(Op("abort", row.attempt))
           /\ fence' = Advance(fence, GraphWrite(Op("abort", row.attempt)))
           /\ UNCHANGED late \/ MayOutlive({Op("delete", row.attempt)})
  <2>1. /\ fence'.generation = row.attempt /\ fence'.aborted
        /\ \A n \in Attempts : Closed(n) => Closed(n)' \/ n < row.attempt
    BY <1>1, <1>3, <1>5, AdvanceFacts
  <2>2. Closed(row.attempt)'
    BY <2>1 DEF Closed
  <2>3. \A op \in late' : op \in late \/ op = Op("delete", row.attempt)
    BY <1>5, OutliveFacts
  <2>4. QED
    BY <1>2, <1>3, <2>1, <2>2, <2>3 DEF AttemptInv, DeletesClosed
<1>6. QED
  BY <1>1, <1>4, <1>5 DEF CleanUp

LEMMA OneCurrentNext ==
  ASSUME ExclusiveInv', NEW v \in Workers, NEW w \in Workers, IsCurrent(v)', IsCurrent(w)'
  PROVE  v = w
<1>1. /\ job'[v].task = row'.attempt /\ job'[w].task = row'.attempt /\ Home[v] = Home[w]
      /\ row'.attempt \in Attempts
  BY RowFields DEF ExclusiveInv, TypeOK, IsCurrent, Current
<1>2. job'[v] # Idle /\ job'[w] # Idle
  BY <1>1, AttemptFacts, JobFacts
<1>3. QED
  BY <1>1, <1>2 DEF ExclusiveInv, KeyInv, InOnePlace

(* A worker that writes to a store is the one the row names.               *)
LEMMA AttemptWritten ==
  ASSUME ExclusiveInv, RecordInv, FenceInv, AttemptInv, NEW w \in Workers, FencedWrite(w)
  PROVE  AttemptInv'
<1>1. /\ IsCurrent(w) /\ Active(row) /\ row.stage # "READY" /\ UNCHANGED <<row, late>>
      /\ row.attempt \in Attempts /\ row.attempt \in Nat
      /\ fence \in Fences(Attempts, Attempts) /\ fence.generation \in Nat
      /\ fence.generation <= row.attempt
      /\ job[w].at \in DOMAIN KindOf
  BY RowFields, AttemptFacts, NotRemoved
     DEF FencedWrite, IsCurrent, Current, ExclusiveInv, TypeOK, record, Fences, FenceInv, DeletableStages
<1>2. /\ \A v \in Workers \ {w} : job'[v] = job[v]
      /\ job'[w].at = Following[job[w].at]
  <2>1. job[w] \in Jobs /\ job[w] # Idle /\ Following[job[w].at] \in Steps \cup {"clear_checkpoints"}
    BY <1>1, StepFacts, JobFacts DEF ExclusiveInv, TypeOK
  <2>2. QED
    BY <2>1, JobFacts DEF FencedWrite, Proceed, ExclusiveInv, TypeOK
<1>3. ASSUME NEW v \in Workers, IsCurrent(v)'
      PROVE  v = w
  <2>1. CASE v # w
    <3>1. IsCurrent(v)
      BY <1>1, <1>2, <1>3, <2>1 DEF IsCurrent
    <3>2. QED
      BY <1>1, <3>1, OneCurrent
  <2>2. QED
    BY <2>1
<1>4. PICK op \in Ops :
        /\ op.kind = KindOf[job[w].at] /\ op.task = row.attempt
        /\ ~Refused(op) /\ Apply(op)
  BY FencedOp DEF ExclusiveInv
<1>5. \A o \in late : o.task \in Attempts /\ o.task \in Nat
  BY AttemptFacts DEF ExclusiveInv, TypeOK
<1>6. CASE job[w].at = "cleanup_vectors"
  <2>1. op.kind = "delete_all" /\ job'[w].at = "EXTRACTING"
    BY <1>2, <1>4, <1>6 DEF KindOf, Following
  <2>2. UNCHANGED fence
    BY <1>4, <2>1 DEF Apply
  <2>3. DeletesClosed'
    BY <1>1, <2>2 DEF AttemptInv, DeletesClosed, Closed
  <2>4. NoNeeds
    BY <1>1, <1>3, <2>1 DEF NoNeeds, EmbeddedSteps, ShownSteps
  <2>5. QED
    BY <2>3, <2>4, AttemptIdle
<1>7. CASE job[w].at = "upsert_chunks"
  <2>1. op.kind = "upsert" /\ job'[w].at = "EMBEDDED"
    BY <1>2, <1>4, <1>7 DEF KindOf, Following
  <2>2. UNCHANGED fence /\ row.attempt \in vectors'
    BY <1>4, <2>1 DEF Apply
  <2>3. DeletesClosed'
    BY <1>1, <2>2 DEF AttemptInv, DeletesClosed, Closed
  <2>4. QED
    BY <1>1, <1>3, <2>1, <2>2, <2>3 DEF AttemptInv, HasVectors, ShownSteps
<1>8. CASE job[w].at = "replace_graph"
  <2>1. op.kind = "baseline" /\ job'[w].at = "GRAPH_BUILT"
    BY <1>2, <1>4, <1>8 DEF KindOf, Following
  <2>2. /\ UNCHANGED vectors /\ graph' = row.attempt
        /\ fence' = Advance(fence, GraphWrite(op))
    BY <1>4, <2>1 DEF Apply
  <2>3. /\ fence'.generation = row.attempt
        /\ ~(row.attempt = fence.generation /\ fence.aborted)
        /\ \A n \in Attempts : Closed(n) => Closed(n)' \/ n < row.attempt
    BY <1>1, <1>4, <2>1, <2>2, AdvanceFacts
  <2>4. DeletesClosed'
    BY <1>1, <1>5, <2>3 DEF AttemptInv, DeletesClosed
  <2>5. ~Closed(row.attempt)
    BY <2>3 DEF Closed
  <2>6. NoLateWipe => row.attempt \in vectors
    BY <1>1, <1>8, <2>5 DEF AttemptInv, HasVectors, EmbeddedSteps
  <2>7. Op("delete", row.attempt) \notin late
    <3>1. Op("delete", row.attempt).kind = "delete" /\ Op("delete", row.attempt).task = row.attempt
      BY DEF Op
    <3>2. QED
      BY <1>1, <2>5, <3>1 DEF AttemptInv, DeletesClosed
  <2>8. Shown'
    BY <1>1, <2>2, <2>3, <2>6, <2>7 DEF Shown
  <2>9. QED
    BY <1>1, <1>3, <2>1, <2>4, <2>8 DEF AttemptInv, EmbeddedSteps
<1>9. QED
  BY <1>1, <1>6, <1>7, <1>8, StepFacts

(* Steps that leave the stores alone and ask for no more than before.      *)
LEMMA AttemptQuiet ==
  ASSUME RecordInv, AttemptInv, RowKept, UNCHANGED stores,
         \A op \in late' : op \in late \/ Harmless(op),
         \A v \in Workers : job'[v].at \in EmbeddedSteps \cup ShownSteps => job'[v] = job[v]
  PROVE  AttemptInv'
<1>1. Stands
  BY StandsSame DEF RowKept
<1>2. QED
  BY <1>1, NeedsSame, AttemptStands

LEMMA NeedJobs ==
  ASSUME TypeOK
  PROVE  /\ \A w \in Workers : Release(w) =>
              \A v \in Workers : job'[v].at \in EmbeddedSteps \cup ShownSteps => job'[v] = job[v]
         /\ \A i \in Instances : GoDown(i) =>
              \A v \in Workers : job'[v].at \in EmbeddedSteps \cup ShownSteps => job'[v] = job[v]
         /\ \A w \in Workers, s \in {"failing", "cleanup_vectors"} :
              job' = [job EXCEPT ![w].at = s] =>
                \A v \in Workers : job'[v].at \in EmbeddedSteps \cup ShownSteps => job'[v] = job[v]
<1>1. Idle.at \notin EmbeddedSteps \cup ShownSteps
  BY JobFacts DEF EmbeddedSteps, ShownSteps
<1>2. ASSUME NEW w \in Workers, NEW s \in {"failing", "cleanup_vectors"}, job[w] # Idle,
             job' = [job EXCEPT ![w].at = s], NEW v \in Workers,
             job'[v].at \in EmbeddedSteps \cup ShownSteps
      PROVE  job'[v] = job[v]
  <2>1. job'[w].at = s
    BY <1>2, JobFacts, StepFacts DEF TypeOK
  <2>2. QED
    BY <1>2, <2>1 DEF TypeOK, EmbeddedSteps, ShownSteps
<1>3. ASSUME NEW w \in Workers, NEW s \in {"failing", "cleanup_vectors"}, job[w] = Idle,
             job' = [job EXCEPT ![w].at = s], NEW v \in Workers,
             job'[v].at \in EmbeddedSteps \cup ShownSteps
      PROVE  job'[v] = job[v]
  <2>1. job'[w].at = s
    BY <1>3 DEF TypeOK, Idle
  <2>2. QED
    BY <1>3, <2>1 DEF TypeOK, EmbeddedSteps, ShownSteps
<1>4. QED
  BY <1>1, <1>2, <1>3 DEF Release, GoDown, TypeOK

(* A request of a worker that may be left behind.                          *)
LEMMA SentKinds ==
  ASSUME TypeOK, NEW S \in SUBSET Workers,
         MayOutlive(UNION {InFlight(w) : w \in S})
  PROVE  \A op \in late' : op \in late \/ Harmless(op)
BY OutliveFacts, InFlightFacts DEF Harmless, NoLateWipe

LEMMA SentKind ==
  ASSUME TypeOK, NEW w \in Workers, MayOutlive(InFlight(w))
  PROVE  \A op \in late' : op \in late \/ Harmless(op)
BY OutliveFacts, InFlightFacts DEF Harmless, NoLateWipe

(* The late deletes of an attempt that is over are those of an earlier one.*)
LEMMA AttemptBegins ==
  ASSUME TypeOK, FenceInv, AttemptInv, row.attempt + 1 \in Attempts, row' = NextAttempt(row),
         UNCHANGED late
  PROVE  AttemptInv'
<1>1. /\ row'.stage = "UPLOADED" /\ row'.attempt = row.attempt + 1 /\ row'.owner = NoOwner
      /\ row.attempt \in Nat
      /\ \A op \in late : op.task \in Nat /\ op.task <= row.attempt
  BY NextRow, RowFields, AttemptFacts DEF TypeOK, FenceInv
<1>2. DeletesClosed'
  BY <1>1 DEF AttemptInv, DeletesClosed
<1>3. NoNeeds
  BY <1>1, Unowned DEF NoNeeds
<1>4. QED
  BY <1>2, <1>3, AttemptIdle

LEMMA AttemptEnds ==
  ASSUME TypeOK, AttemptInv, NEW retryable \in BOOLEAN, row' = Failed(row, retryable), DeletesClosed'
  PROVE  AttemptInv'
<1>1. row'.stage = "FAILED" /\ row'.owner = NoOwner
  BY FailedRow DEF TypeOK
<1>2. NoNeeds
  BY <1>1, Unowned DEF NoNeeds
<1>3. QED
  BY <1>2, AttemptIdle

LEMMA DeletesSame ==
  ASSUME AttemptInv, row'.attempt = row.attempt, UNCHANGED <<fence, late>>
  PROVE  DeletesClosed'
BY DEF AttemptInv, DeletesClosed, Closed

LEMMA AttemptFailed ==
  ASSUME TypeOK, AttemptInv, NEW retryable \in BOOLEAN, row' = Failed(row, retryable),
         UNCHANGED <<fence, late>>
  PROVE  AttemptInv'
<1>1. row'.attempt = row.attempt
  BY FailedRow DEF TypeOK
<1>2. QED
  BY <1>1, DeletesSame, AttemptEnds

LEMMA AttemptStep ==
  ASSUME ExclusiveInv, RecordInv, FenceInv, AttemptInv, [Next]_vars
  PROVE  AttemptInv'
<1>1. TypeOK /\ ExclusiveInv'
  BY ExclusiveNext DEF ExclusiveInv
<1>2. /\ row \in Rows(Instances) /\ row.attempt \in Attempts /\ row.attempt \in Nat
      /\ \A w \in Workers : Home[w] \in Instances
      /\ ("READY" \notin ActiveStages /\ "UPLOADED" \notin EmbeddedSteps \cup ShownSteps)
  BY <1>1, RowFields, AttemptFacts, HomeFacts
     DEF TypeOK, ActiveStages, EmbeddedSteps, ShownSteps
<1>3. UNCHANGED row => RowKept
  BY DEF RowKept
<1>4. ASSUME UNCHANGED <<row, stores, job, late>>
      PROVE  AttemptInv'
  BY <1>3, <1>4, AttemptQuiet
<1>5. ASSUME NEW i \in Instances, Recover(i)
      PROVE  AttemptInv'
  <2>1. CASE row.attempt < MaxProcessingAttempts
    BY <1>1, <1>2, <1>5, <2>1, AttemptBegins, AttemptFacts DEF Recover
  <2>2. CASE ~(row.attempt < MaxProcessingAttempts)
    BY <1>1, <1>5, <2>2, AttemptFailed DEF Recover, stores
  <2>3. QED
    BY <2>1, <2>2
<1>6. ASSUME NEW i \in Instances, RetryUpload(i)
      PROVE  AttemptInv'
  BY <1>1, <1>2, <1>6, AttemptBegins, AttemptFacts DEF RetryUpload, CanReprocess
<1>7. ASSUME NEW i \in Instances, RetrySourceFails(i)
      PROVE  AttemptInv'
  <2>1. CASE UNCHANGED row
    BY <1>4, <1>7, <2>1 DEF RetrySourceFails
  <2>2. CASE \E retryable \in BOOLEAN : row' = Failed(row, retryable)
    BY <1>1, <1>7, <2>2, AttemptFailed DEF RetrySourceFails, stores
  <2>3. QED
    BY <1>7, <2>1, <2>2 DEF RetrySourceFails
<1>8. ASSUME NEW i \in Instances, Dispatch(i) \/ RetryQueued(i) \/ Stop(i)
      PROVE  AttemptInv'
  BY <1>4, <1>8 DEF Dispatch, RetryQueued, Stop, record
<1>9. ASSUME NEW i \in Instances, Crash(i) \/ Stopped(i)
      PROVE  AttemptInv'
  <2>1. GoDown(i) /\ UNCHANGED row
    BY <1>9 DEF Crash, Stopped, GoDown, record
  <2>2. CASE UNCHANGED <<stores, late>>
    BY <1>1, <1>3, <2>1, <2>2, AttemptQuiet, NeedJobs
  <2>3. CASE MayOutlive(UNION {InFlight(w) : w \in WorkersOf(i)}) /\ UNCHANGED stores
    <3>1. \A op \in late' : op \in late \/ Harmless(op)
      BY <1>1, <2>3, SentKinds DEF WorkersOf
    <3>2. QED
      BY <1>1, <1>3, <2>1, <2>3, <3>1, AttemptQuiet, NeedJobs
  <2>4. CASE \E w \in WorkersOf(i) : IsCurrent(w) /\ CleanUp(w)
    <3>1. PICK w \in Workers : Home[w] = i /\ IsCurrent(w) /\ CleanUp(w)
      BY <2>4 DEF WorkersOf
    <3>2. DeletesClosed'
      BY <1>1, <2>1, <3>1, CleanUpCloses
    <3>3. ASSUME NEW v \in Workers, IsCurrent(v)'
          PROVE  FALSE
      <4>1. job'[v] = IF Home[v] = i THEN Idle ELSE job[v]
        BY <2>1 DEF GoDown
      <4>2. Home[v] # i
        BY <1>2, <2>1, <3>3, <4>1, AttemptFacts DEF IsCurrent, Current, Idle
      <4>3. IsCurrent(v)
        BY <2>1, <3>3, <4>1, <4>2 DEF IsCurrent
      <4>4. QED
        BY <3>1, <4>2, <4>3, OneCurrent
    <3>4. row.stage # "READY"
      BY <1>2, <3>1 DEF IsCurrent, Current, Active
    <3>5. QED
      BY <2>1, <3>2, <3>3, <3>4, AttemptIdle DEF NoNeeds
  <2>5. QED
    BY <1>9, <2>2, <2>3, <2>4 DEF Crash, Stopped
<1>10. ASSUME NEW w \in Workers, Claim(w)
       PROVE  AttemptInv'
  <2>1. /\ row.stage = "UPLOADED" /\ row'.stage = "UPLOADED" /\ row'.attempt = row.attempt
        /\ row'.owner = Home[w] /\ UNCHANGED <<stores, late>>
    BY <1>2, <1>10, LeasedRow DEF Claim, Claimable
  <2>2. job'[w].at = "claimed" /\ job'[w].task = row.attempt
    BY <1>1, <1>10 DEF Claim, Claimable, TypeOK
  <2>3. DeletesClosed'
    BY <2>1, DeletesSame DEF stores
  <2>4. IsCurrent(w)'
    BY <2>1, <2>2 DEF IsCurrent, Current, Active, ActiveStages
  <2>5. NoNeeds
    BY <1>1, <2>1, <2>2, <2>4, OneCurrentNext DEF NoNeeds, EmbeddedSteps, ShownSteps
  <2>6. QED
    BY <2>3, <2>5, AttemptIdle
<1>11. ASSUME NEW w \in Workers, ClaimRefused(w) \/ SaveCheckpoint(w)
       PROVE  AttemptInv'
  BY <1>4, <1>11 DEF ClaimRefused, SaveCheckpoint, record
<1>12. ASSUME NEW w \in Workers, Heartbeat(w)
       PROVE  AttemptInv'
  <2>1. RowKept
    <3>1. row' = [row EXCEPT !.lease = "live"] /\ "live" \in Leases
      BY <1>12 DEF Heartbeat, Leases
    <3>2. QED
      BY <1>2, <3>1, LeaseChanged DEF RowKept, Active
  <2>2. QED
    BY <1>12, <2>1, AttemptQuiet DEF Heartbeat
<1>13. ASSUME NEW w \in Workers,
              BeginFails(w) \/ Superseded(w) \/ ClearCheckpoints(w) \/ FailureSuperseded(w)
       PROVE  AttemptInv'
  BY <1>1, <1>3, <1>13, AttemptQuiet, NeedJobs
     DEF BeginFails, Superseded, ClearCheckpoints, FailureSuperseded, record
<1>14. ASSUME NEW w \in Workers, Begin(w)
       PROVE  AttemptInv'
  BY <1>1, <1>3, <1>14, AttemptQuiet, NeedJobs DEF Begin, record
<1>15. ASSUME NEW w \in Workers, Raise(w)
       PROVE  AttemptInv'
  BY <1>1, <1>3, <1>15, AttemptQuiet, NeedJobs, SentKind DEF Raise, record
<1>16. ASSUME NEW w \in Workers, Cancel(w)
       PROVE  AttemptInv'
  <2>1. RowKept
    BY <1>2, <1>16, UnleasedRow DEF Cancel, RowKept, Active
  <2>2. QED
    BY <1>1, <1>16, <2>1, AttemptQuiet, NeedJobs, SentKind DEF Cancel
<1>17. ASSUME NEW w \in Workers, SetStage(w)
       PROVE  AttemptInv'
  <2>1. job[w].at \in ActiveStages /\ job[w].at \in Steps \ DOMAIN KindOf /\ Active(row)
    BY <1>17, StepFacts DEF SetStage, StageSteps, IsCurrent, Current, ActiveStages
  <2>2. RowKept
    BY <1>2, <1>17, <2>1, StagedRow, StageFacts DEF SetStage, RowKept, Active
  <2>3. Stands
    BY <1>17, <2>2, StandsSame DEF SetStage, RowKept
  <2>4. QED
    BY <1>1, <1>17, <2>1, <2>2, <2>3, NeedsProceed, AttemptStands DEF SetStage
<1>18. ASSUME NEW w \in Workers, ReserveChunks(w) \/ GraphExtracted(w)
       PROVE  AttemptInv'
  <2>1. job[w].at \in Steps \ DOMAIN KindOf /\ Proceed(w) /\ UNCHANGED <<row, stores, late>>
    BY <1>18, StepFacts DEF ReserveChunks, GraphExtracted, At, record
  <2>2. Stands
    BY <2>1, StandsSame
  <2>3. QED
    BY <1>1, <1>3, <2>1, <2>2, NeedsProceed, AttemptStands
<1>19. ASSUME NEW w \in Workers, FencedWrite(w)
       PROVE  AttemptInv'
  BY <1>19, AttemptWritten
<1>20. ASSUME NEW w \in Workers, Complete(w)
       PROVE  AttemptInv'
  <2>1. PICK g \in GraphStatuses, b \in Rebuilds : row' = Completed(row, g, b)
    BY <1>20 DEF Complete
  <2>2. row'.attempt = row.attempt /\ row'.owner = NoOwner /\ row'.deleting = row.deleting
    BY <1>2, <2>1, CompletedRow
  <2>3. Shown /\ ~row.deleting
    BY <1>20 DEF Complete, At, AttemptInv, ShownSteps, RecordInv, IsCurrent, Current
  <2>4. NeedsKept
    BY <2>2, <2>3, Unowned DEF NeedsKept
  <2>5. Stands
    BY <1>20, <2>2, StandsSame DEF Complete
  <2>6. QED
    BY <2>4, <2>5, AttemptStands
<1>21. ASSUME NEW w \in Workers, Fail(w)
       PROVE  AttemptInv'
  <2>1. PICK retryable \in BOOLEAN : row' = Failed(row, retryable)
    BY <1>21 DEF Fail
  <2>2. row'.attempt = row.attempt
    BY <1>2, <2>1, FailedRow
  <2>3. DeletesClosed'
    BY <1>1, <1>21, <2>2, CleanUpCloses DEF Fail
  <2>4. QED
    BY <1>1, <2>1, <2>3, AttemptEnds
<1>22. ASSUME NEW w \in Workers, FailureNotRecorded(w)
       PROVE  AttemptInv'
  <2>1. IsCurrent(w) /\ CleanUp(w) /\ Release(w) /\ UNCHANGED row
    BY <1>22 DEF FailureNotRecorded, record
  <2>2. DeletesClosed'
    BY <1>1, <2>1, CleanUpCloses
  <2>3. ASSUME NEW v \in Workers, IsCurrent(v)', job'[v].at \in EmbeddedSteps \cup ShownSteps
        PROVE  FALSE
    <3>1. job'[v] = job[v]
      BY <1>1, <2>1, <2>3, NeedJobs
    <3>2. v = w
      BY <2>1, <2>3, <3>1, OneCurrent DEF IsCurrent
    <3>3. job'[w] = Idle
      BY <1>1, <2>1 DEF Release, TypeOK
    <3>4. QED
      BY <2>3, <3>2, <3>3, JobFacts DEF EmbeddedSteps, ShownSteps
  <2>4. row.stage # "READY"
    BY <1>2, <2>1 DEF IsCurrent, Current, Active
  <2>5. QED
    BY <2>1, <2>2, <2>3, <2>4, AttemptIdle DEF NoNeeds
<1>23. ASSUME LeaseExpires \/ LeaseLost \/ RetryDue
       PROVE  AttemptInv'
  <2>1. RowKept
    <3>1. CASE LeaseExpires \/ LeaseLost
      <4>1. row' = [row EXCEPT !.lease = "expired"] /\ "expired" \in Leases
        BY <3>1 DEF LeaseExpires, LeaseLost, Leases
      <4>2. QED
        BY <1>2, <4>1, LeaseChanged DEF RowKept, Active
    <3>2. CASE RetryDue
      <4>1. row' = [row EXCEPT !.rebuild = "open"] /\ "open" \in Rebuilds
        BY <3>2 DEF RetryDue, Rebuilds
      <4>2. QED
        BY <1>2, <4>1, RebuildChanged DEF RowKept, Active
    <3>3. QED
      BY <1>23, <3>1, <3>2
  <2>2. QED
    BY <1>23, <2>1, AttemptQuiet DEF LeaseExpires, LeaseLost, RetryDue
<1>24. ASSUME RequestRemoval
       PROVE  AttemptInv'
  <2>1. /\ row'.stage = row.stage /\ row'.attempt = row.attempt /\ row'.deleting
        /\ ~Active(row)'
    BY <1>2, <1>24, MarkedRow, StageFacts DEF RequestRemoval, Active
  <2>2. DeletesClosed'
    BY <1>24, <2>1, DeletesSame DEF RequestRemoval, stores
  <2>3. NoNeeds
    BY <2>1 DEF NoNeeds, IsCurrent, Current
  <2>4. QED
    BY <2>2, <2>3, AttemptIdle
<1>25. ASSUME RemoveRemote \/ RemovalFails
       PROVE  AttemptInv'
  <2>1. row.deleting /\ ~Active(row) /\ UNCHANGED row
    BY <1>25 DEF RemoveRemote, RemovalFails, RecordInv, record, NextRemoval
  <2>2. NoNeeds
    BY <2>1 DEF NoNeeds, IsCurrent, Current, Active
  <2>3. DeletesClosed'
    <3>1. fence'.generation = fence.generation /\ (fence'.aborted <=> fence.aborted)
      <4>1. CASE UNCHANGED fence
        BY <4>1
      <4>2. CASE remover \in DOMAIN RemovalOp /\ Apply(RemovalOp[remover])
        <5>1. fence' \in {fence, Close(fence)} /\ fence \in Fences(Attempts, Attempts)
          BY <1>1, <4>2, RemovalOpFacts DEF Apply, TypeOK
        <5>2. QED
          BY <5>1 DEF Close, Fences
      <4>3. QED
        BY <1>25, <4>1, <4>2 DEF RemoveRemote, RemovalFails, stores
    <3>2. \A op \in late' : op \in late \/ Harmless(op)
      <4>1. CASE RemoveRemote
        BY <4>1 DEF RemoveRemote
      <4>2. CASE RemovalFails
        BY <1>1, <4>2, OutliveFacts, RemovalOpFacts DEF RemovalFails, Harmless, NoLateWipe
      <4>3. QED
        BY <1>25, <4>1, <4>2
    <3>3. QED
      BY <2>1, <3>1, <3>2 DEF AttemptInv, DeletesClosed, Closed, Harmless
  <2>4. QED
    BY <2>2, <2>3, AttemptIdle
<1>26. ASSUME RemoveRow
       PROVE  AttemptInv'
  <2>1. row'.stage = "REMOVED" /\ row'.attempt = row.attempt /\ row'.owner = NoOwner
    BY <1>2, <1>26, RemovedRow DEF RemoveRow
  <2>2. DeletesClosed'
    BY <1>26, <2>1, DeletesSame DEF RemoveRow, stores
  <2>3. QED
    BY <2>1, <2>2, AttemptIdle, Unowned DEF NoNeeds
<1>27. ASSUME NEW task \in Attempts, SweepVectors(task)
       PROVE  AttemptInv'
  <2>1. row.stage = "REMOVED" /\ UNCHANGED <<row, fence, late>>
    BY <1>27 DEF SweepVectors, record
  <2>2. DeletesClosed'
    BY <2>1, DeletesSame
  <2>3. NoNeeds
    BY <2>1, StageFacts DEF NoNeeds, IsCurrent, Current, Active
  <2>4. QED
    BY <2>2, <2>3, AttemptIdle
<1>28. ASSUME LateLands
       PROVE  AttemptInv'
  <2>1. PICK op \in late : late' = late \ {op} /\ (IF Refused(op) THEN UNCHANGED stores ELSE Apply(op))
    BY <1>28 DEF LateLands
  <2>2. UNCHANGED <<row, job>>
    BY <1>28 DEF LateLands, record
  <2>3. Stands
    BY <1>1, <2>1, <2>2, StandsApply, StandsSame
  <2>4. NeedsKept
    BY <1>3, <2>2, NeedsSame
  <2>5. QED
    BY <2>3, <2>4, AttemptStands
<1>29. ASSUME UNCHANGED vars
       PROVE  AttemptInv'
  BY <1>4, <1>29 DEF vars, record
<1>30. QED
  BY <1>5, <1>6, <1>7, <1>8, <1>9, <1>10, <1>11, <1>12, <1>13, <1>14, <1>15, <1>16, <1>17, <1>18,
     <1>19, <1>20, <1>21, <1>22, <1>23, <1>24, <1>25, <1>26, <1>27, <1>28, <1>29
     DEF Next, WorkerStep

LEMMA AttemptInit == Init => AttemptInv
BY JobFacts DEF Init, AttemptInv, DeletesClosed, NewRow, EmbeddedSteps, ShownSteps

(* What an execution has written stands until its document is READY and as *)
(* long as it is: no late request of this or an earlier attempt removes it.*)
THEOREM AttemptInvariance == Spec => []AttemptInv
<1>1. ExclusiveInv /\ RecordInv /\ FenceInv /\ AttemptInv /\ [Next]_vars => AttemptInv'
  BY AttemptStep
<1>2. QED
  BY <1>1, AttemptInit, ExclusiveInvariance, RecordInvariance, FenceInvariance, PTL DEF Spec

(* A READY document shows the graph of its own attempt, unless an abort of *)
(* that very attempt came late, whatever kinds of requests come late.      *)
THEOREM ReadyGraphIsShown == Spec => []ReadyGraphCurrent
<1>1. FenceInv /\ AttemptInv => ReadyGraphCurrent
  BY DEF FenceInv, AttemptInv, Shown, ReadyGraphCurrent
<1>2. QED
  BY <1>1, FenceInvariance, AttemptInvariance, PTL

(* It has its attempt's vectors as well, as long as no request that deletes*)
(* all vectors of a document outlives its caller.  Without this it fails:  *)
(* see late_delete in the README.                                          *)
THEOREM ReadyIsShown ==
  ASSUME "delete_all" \notin LateKinds
  PROVE  Spec => []ReadyIsCurrent
<1>1. AttemptInv => ReadyVectorsCurrent
  BY DEF AttemptInv, Shown, ReadyVectorsCurrent, NoLateWipe
<1>2. QED
  BY <1>1, AttemptInvariance, ReadyGraphIsShown, PTL DEF ReadyIsCurrent

-----------------------------------------------------------------------------
(***************************************************************************)
(* The refinement of UploadJob: each transaction on the row is one of its  *)
(* actions or a stutter, and what happens to the stores between them is not*)
(* seen, except that a late abort can take a READY document's graph.       *)
(***************************************************************************)

(* An aborted projection has no graph, whichever attempt aborted it.       *)
AbortedInv == fence.aborted => graph = 0

LEMMA AbortedApply ==
  ASSUME TypeOK, AbortedInv, NEW op \in Ops, Apply(op)
  PROVE  AbortedInv'
<1>1. op.kind \in OpKinds /\ fence \in Fences(Attempts, Attempts)
  BY DEF Ops, TypeOK
<1>2. CASE op.kind = "baseline"
  <2>1. fence' = Advance(fence, GraphWrite(op)) /\ GraphWrite(op).mode = "baseline"
    BY <1>2 DEF Apply, GraphWrite
  <2>2. ~fence'.aborted
    BY <1>1, <2>1 DEF Advance, Fences
  <2>3. QED
    BY <2>2 DEF AbortedInv
<1>3. CASE op.kind \in {"abort", "tombstone"}
  BY <1>3 DEF Apply, AbortedInv
<1>4. CASE op.kind \in {"upsert", "delete", "delete_all"}
  BY <1>4 DEF Apply, AbortedInv
<1>5. QED
  BY <1>1, <1>2, <1>3, <1>4 DEF OpKinds

LEMMA AbortedStep ==
  ASSUME TypeOK, AbortedInv, [Next]_vars
  PROVE  AbortedInv'
<1>1. CASE UNCHANGED <<graph, fence>>
  BY <1>1 DEF AbortedInv
<1>2. CASE \E w \in Workers : CleanUp(w)
  BY <1>2 DEF CleanUp, AbortedInv, stores
<1>3. CASE \E w \in Workers : FencedWrite(w)
  BY <1>3, FencedOp, AbortedApply
<1>4. CASE RemoveRemote
  <2>1. CASE remover \in DOMAIN RemovalOp
    BY <1>4, <2>1, RemovalOpFacts, AbortedApply DEF RemoveRemote
  <2>2. CASE remover \notin DOMAIN RemovalOp
    BY <1>4, <2>2 DEF RemoveRemote, stores, AbortedInv
  <2>3. QED
    BY <2>1, <2>2
<1>5. CASE LateLands
  <2>1. PICK op \in late : UNCHANGED stores \/ Apply(op)
    BY <1>5 DEF LateLands
  <2>2. op \in Ops
    BY DEF TypeOK, Ops
  <2>3. QED
    BY <2>1, <2>2, AbortedApply DEF stores, AbortedInv
<1>6. \/ UNCHANGED <<graph, fence>> \/ \E w \in Workers : CleanUp(w) \/ FencedWrite(w)
      \/ RemoveRemote \/ LateLands
  <2>1. ASSUME NEW i \in Instances, Crash(i)
        PROVE  UNCHANGED <<graph, fence>> \/ \E w \in Workers : CleanUp(w)
    BY <2>1 DEF Crash, WorkersOf, stores
  <2>2. QED
    BY <2>1, ZenonT(60) DEF Next, WorkerStep, Recover, Dispatch, RetryUpload, RetryQueued,
       RetrySourceFails, Stop, Stopped, Claim, ClaimRefused, Begin, Superseded, SetStage,
       ReserveChunks, SaveCheckpoint, GraphExtracted, Complete, ClearCheckpoints, Raise, Fail,
       FailureSuperseded, Cancel, Heartbeat, BeginFails, FailureNotRecorded, LeaseExpires, LeaseLost,
       RetryDue, RequestRemoval, RemoveRow, RemovalFails, SweepVectors, stores, vars
<1>7. QED
  BY <1>1, <1>2, <1>3, <1>4, <1>5, <1>6

THEOREM AbortedInvariance == Spec => []AbortedInv
<1>1. Init => AbortedInv
  BY DEF Init, AbortedInv, NewFence
<1>2. QED
  BY <1>1, AbortedStep, TypeCorrect, PTL DEF Spec

(* What an owner is told of an attempt, from its stage in the history.     *)
LEMMA OutcomeFacts ==
  ASSUME NEW r, NEW n
  PROVE  /\ OutcomeOf(r, "none", n) = "none"
         /\ \A stage \in ActiveStages : OutcomeOf(r, stage, n) = "open"
         /\ OutcomeOf(r, "FAILED", n) = IF n = r.attempt /\ ~r.retryable THEN "rejected" ELSE "failed"
         /\ OutcomeOf(r, "READY", n) =
              IF n = r.attempt /\ r.graphStatus = "GRAPH_READY" THEN "complete" ELSE "partial"
BY DEF OutcomeOf, ActiveStages

(* Attempts other than the row's are told by their stage alone.            *)
LEMMA OutcomeOfOthers ==
  ASSUME NEW q, NEW r, NEW n, NEW stage \in {"none"} \cup ActiveStages \cup DeletableStages,
         n # q.attempt, n # r.attempt
  PROVE  OutcomeOf(q, stage, n) = OutcomeOf(r, stage, n)
<1>1. stage \in {"none", "FAILED", "READY"} \/ stage \in ActiveStages
  BY DEF DeletableStages
<1>2. CASE stage \in ActiveStages
  BY <1>2, OutcomeFacts
<1>3. CASE stage \in {"none", "FAILED", "READY"}
  BY <1>3 DEF OutcomeOf, ActiveStages
<1>4. QED
  BY <1>1, <1>2, <1>3

LEMMA HistoryValues ==
  ASSUME TypeOK, RecordInv, row.stage # "REMOVED", NEW n \in Attempts
  PROVE  /\ history[n] \in {"none"} \cup ActiveStages \cup DeletableStages
         /\ history[row.attempt] = row.stage /\ row.attempt \in Attempts
<1>1. row.attempt \in Attempts /\ row.stage \in ActiveStages \cup DeletableStages
  BY RowFields DEF TypeOK, Stages
<1>2. QED
  BY <1>1 DEF RecordInv, HistorySettled

(* Only attempts whose stage or whose place changes change their outcome.  *)
LEMMA OutcomeChanges ==
  ASSUME TypeOK, RecordInv, row.stage # "REMOVED",
         NEW S \in SUBSET Attempts, row.attempt \in S, row'.attempt \in S,
         \A n \in Attempts \ S : history'[n] = history[n]
  PROVE  \A n \in Attempts \ S : Outcome'[n] = Outcome[n]
<1>1. ASSUME NEW n \in Attempts \ S
      PROVE  Outcome'[n] = Outcome[n]
  <2>1. history[n] \in {"none"} \cup ActiveStages \cup DeletableStages /\ history'[n] = history[n]
    BY HistoryValues
  <2>2. OutcomeOf(row', history[n], n) = OutcomeOf(row, history[n], n)
    BY <2>1, OutcomeOfOthers
  <2>3. QED
    BY <2>1, <2>2 DEF Outcome
<1>2. QED
  BY <1>1

LEMMA OutcomeNow ==
  ASSUME TypeOK, RecordInv, row.stage # "REMOVED"
  PROVE  /\ row.attempt \in Attempts
         /\ Promise!Now = OutcomeOf(row, row.stage, row.attempt)
         /\ Outcome[row.attempt] = OutcomeOf(row, row.stage, row.attempt)
<1>1. row.attempt \in Attempts
  BY RowFields DEF TypeOK
<1>2. history[row.attempt] = row.stage
  BY <1>1, HistoryValues
<1>3. QED
  BY <1>1, <1>2 DEF Promise!Now, Outcome

(* A row of which the owner sees the same.                                 *)
RowSeen == RowTouched /\ row'.retryable = row.retryable

LEMMA SeenSame ==
  ASSUME RowSeen, UNCHANGED history
  PROVE  Outcome' = Outcome /\ Removal' = Removal /\ Found' = Found
<1>1. ASSUME NEW stage, NEW n
      PROVE  OutcomeOf(row', stage, n) = OutcomeOf(row, stage, n)
  BY DEF RowSeen, RowTouched, OutcomeOf
<1>2. Outcome' = Outcome
  BY <1>1 DEF Outcome
<1>3. QED
  BY <1>2 DEF RowSeen, RowTouched, Removal, Found

(* Nothing is found before or after a step.                                *)
LEMMA NothingFound ==
  /\ ~Found => Passages = 0 /\ Concepts = 0
  /\ ~Found' => Passages' = 0 /\ Concepts' = 0
BY DEF Passages, Concepts

LEMMA Unseen ==
  ASSUME RowSeen, UNCHANGED <<history, checkpoints>>, Found => UNCHANGED <<vectors, graph>>
  PROVE  UNCHANGED Promise!vars
<1>1. Outcome' = Outcome /\ Removal' = Removal /\ Found' = Found /\ row'.attempt = row.attempt
  BY SeenSame DEF RowSeen, RowTouched
<1>2. Passages' = Passages /\ Concepts' = Concepts
  <2>1. CASE Found
    BY <1>1, <2>1 DEF Passages, Concepts
  <2>2. CASE ~Found
    BY <1>1, <2>2, NothingFound
  <2>3. QED
    BY <2>1, <2>2
<1>3. QED
  BY <1>1, <1>2 DEF Promise!vars

LEMMA NotFoundActive == Active(row) => ~Found
BY NotRemoved DEF Found, DeletableStages

(* An attempt ends.                                                        *)
LEMMA OutcomeEnds ==
  ASSUME TypeOK, RecordInv, row.stage # "REMOVED", NEW stage, NEW result,
         row'.attempt = row.attempt, history' = [history EXCEPT ![row.attempt] = stage],
         OutcomeOf(row', stage, row.attempt) = result
  PROVE  Outcome' = [Outcome EXCEPT ![row.attempt] = result]
<1>1. row.attempt \in Attempts /\ history \in [Attempts -> Stages \cup {"none"}]
  BY RowFields DEF TypeOK
<1>2. \A n \in Attempts \ {row.attempt} : Outcome'[n] = Outcome[n]
  BY <1>1, OutcomeChanges
<1>3. Outcome'[row.attempt] = result
  BY <1>1 DEF Outcome
<1>4. Outcome' = [n \in Attempts |-> Outcome'[n]] /\ Outcome = [n \in Attempts |-> Outcome[n]]
  BY DEF Outcome
<1>5. QED
  BY <1>1, <1>2, <1>3, <1>4

LEMMA FailRefines ==
  ASSUME TypeOK, RecordInv, Active(row), NEW retryable \in BOOLEAN, row' = Failed(row, retryable),
         history' = [history EXCEPT ![row.attempt] = "FAILED"], UNCHANGED checkpoints
  PROVE  Promise!Next
<1> DEFINE again == retryable /\ row.attempt < MaxProcessingAttempts
           result == IF again THEN "failed" ELSE "rejected"
<1>1. /\ row'.stage = "FAILED" /\ row'.attempt = row.attempt /\ row'.deleting = row.deleting
      /\ row'.retryable = again
  BY FailedRow DEF TypeOK
<1>2. row.stage # "REMOVED" /\ ~row.deleting /\ Promise!Now = "open"
  BY NotRemoved, OutcomeNow, OutcomeFacts DEF RecordInv, Active
<1>3. OutcomeOf(row', "FAILED", row.attempt) = result
  <2>1. OutcomeOf(row', "FAILED", row.attempt)
          = IF row.attempt = row'.attempt /\ ~row'.retryable THEN "rejected" ELSE "failed"
    BY OutcomeFacts, Zenon
  <2> HIDE DEF again
  <2>2. QED
    BY <1>1, <2>1
<1>4. Outcome' = [Outcome EXCEPT ![row.attempt] = result]
  BY <1>1, <1>2, <1>3, OutcomeEnds
<1>5. ~Found /\ ~Found' /\ Removal' = Removal
  BY <1>1, <1>2, NotFoundActive DEF Found, Removal
<1>6. Promise!Fail(result)
  BY <1>1, <1>2, <1>4, <1>5, NothingFound DEF Promise!Fail, Promise!Ends
<1>7. result \in {"failed", "rejected"}
  OBVIOUS
<1>8. QED
  BY <1>6, <1>7 DEF Promise!Next

(* One attempt is over and the next begins.                                *)
LEMMA AgainRefines ==
  ASSUME TypeOK, RecordInv, ~row.deleting, row.stage # "REMOVED", row.attempt + 1 \in Attempts,
         row' = NextAttempt(row),
         \/ /\ Active(row) /\ row.attempt < MaxProcessingAttempts
            /\ history' = [history EXCEPT ![row.attempt] = "FAILED", ![row.attempt + 1] = "UPLOADED"]
         \/ /\ CanReprocess(row)
            /\ history' = [history EXCEPT ![row.attempt + 1] = "UPLOADED"],
         UNCHANGED checkpoints
  PROVE  Promise!TryAgain
<1> DEFINE m == row.attempt
           Over == IF Promise!Now = "open" THEN "failed" ELSE Promise!Now
<1>1. /\ row'.stage = "UPLOADED" /\ row'.attempt = m + 1 /\ row'.deleting = row.deleting
      /\ m \in Attempts /\ m \in Nat /\ m + 1 # m
      /\ history \in [Attempts -> Stages \cup {"none"}]
  BY NextRow, RowFields, AttemptFacts DEF TypeOK
<1>2. history[m] = row.stage /\ Promise!Now = OutcomeOf(row, row.stage, m)
  BY OutcomeNow, HistoryValues
<1>3. /\ \/ Promise!Now \in {"open", "failed"} /\ m < MaxProcessingAttempts
         \/ Promise!Now = "partial" /\ m < MaxGraphProcessingAttempts
      /\ OutcomeOf(row', history'[m], m) = Over
  <2>1. CASE /\ Active(row) /\ m < MaxProcessingAttempts
             /\ history' = [history EXCEPT ![m] = "FAILED", ![m + 1] = "UPLOADED"]
    <3>1. Promise!Now = "open" /\ history'[m] = "FAILED"
      BY <1>1, <1>2, <2>1, OutcomeFacts DEF Active
    <3>2. QED
      BY <1>1, <2>1, <3>1, OutcomeFacts
  <2>2. CASE /\ row.stage = "FAILED" /\ row.retryable /\ m < MaxProcessingAttempts
             /\ history' = [history EXCEPT ![m + 1] = "UPLOADED"]
    <3>1. Promise!Now = "failed" /\ history'[m] = "FAILED"
      BY <1>1, <1>2, <2>2, OutcomeFacts
    <3>2. QED
      BY <1>1, <2>2, <3>1, OutcomeFacts
  <2>3. CASE /\ row.stage = "READY" /\ row.graphStatus # "GRAPH_READY"
             /\ m < MaxGraphProcessingAttempts
             /\ history' = [history EXCEPT ![m + 1] = "UPLOADED"]
    <3>1. Promise!Now = "partial" /\ history'[m] = "READY"
      BY <1>1, <1>2, <2>3, OutcomeFacts
    <3>2. QED
      BY <1>1, <2>3, <3>1, OutcomeFacts
  <2>4. QED
    BY <2>1, <2>2, <2>3 DEF CanReprocess
<1>4. Outcome'[m] = Over
  BY <1>1, <1>3 DEF Outcome
<1>5. Outcome'[m + 1] = "open"
  <2>1. history'[m + 1] = "UPLOADED" /\ "UPLOADED" \in ActiveStages
    BY <1>1 DEF ActiveStages
  <2>2. QED
    BY <2>1, OutcomeFacts DEF Outcome
<1>6. \A n \in Attempts \ {m, m + 1} : Outcome'[n] = Outcome[n]
  <2>1. \A n \in Attempts \ {m, m + 1} : history'[n] = history[n]
    BY <1>1
  <2>2. QED
    BY <1>1, <2>1, OutcomeChanges
<1>7. Outcome' = [Outcome EXCEPT ![m] = Over, ![m + 1] = "open"]
  <2>1. Outcome' = [n \in Attempts |-> Outcome'[n]] /\ Outcome = [n \in Attempts |-> Outcome[n]]
    BY DEF Outcome
  <2> HIDE DEF Over
  <2>2. QED
    BY <1>1, <1>4, <1>5, <1>6, <2>1
<1>8. Removal = "none" /\ Removal' = "none" /\ ~Found'
  BY <1>1 DEF Removal, Found
<1>9. QED
  BY <1>1, <1>3, <1>7, <1>8, NothingFound DEF Promise!TryAgain

LEMMA StageRefines ==
  ASSUME TypeOK, RecordInv, NEW w \in Workers, SetStage(w)
  PROVE  UNCHANGED Promise!vars
<1> DEFINE stage == job[w].at
<1>1. /\ stage \in ActiveStages /\ stage \in Stages /\ Active(row) /\ row' = Staged(row, stage)
      /\ history' = [history EXCEPT ![row.attempt] = stage] /\ UNCHANGED checkpoints
  BY StageFacts DEF SetStage, StageSteps, IsCurrent, Current
<1>2. row'.stage = stage /\ row'.attempt = row.attempt /\ row'.deleting = row.deleting
  BY <1>1, StagedRow DEF TypeOK
<1>3. row.stage # "REMOVED" /\ ~row.deleting
  BY <1>1, NotRemoved DEF RecordInv
<1>4. row.attempt \in Attempts /\ Outcome[row.attempt] = "open"
  BY <1>1, <1>3, OutcomeNow, OutcomeFacts DEF Active
<1>5. OutcomeOf(row', stage, row.attempt) = "open"
  BY <1>1, OutcomeFacts
<1>6. Outcome' = [Outcome EXCEPT ![row.attempt] = "open"]
  BY <1>1, <1>2, <1>3, <1>5, OutcomeEnds
<1>7. Outcome' = Outcome
  <2>1. Outcome = [n \in Attempts |-> Outcome[n]]
    BY DEF Outcome
  <2>2. QED
    BY <1>4, <1>6, <2>1
<1>8. ~Found /\ ~Found' /\ Removal' = Removal
  <2>1. Active(row)'
    BY <1>1, <1>2 DEF Active
  <2>2. row'.stage # "REMOVED" /\ row'.stage # "READY"
    BY <2>1, StageFacts DEF Active, ActiveStages
  <2>3. QED
    BY <1>1, <1>2, <1>3, <2>2, NotFoundActive DEF Found, Removal
<1>9. QED
  BY <1>1, <1>2, <1>7, <1>8, NothingFound DEF Promise!vars

(* The attempt that is READY now is what readers find.                     *)
LEMMA CompleteRefines ==
  ASSUME TypeOK, RecordInv, AttemptInv, AttemptInv', AbortedInv, NoLateWipe,
         NEW w \in Workers, Complete(w)
  PROVE  Promise!Next
<1>1. /\ Active(row) /\ UNCHANGED <<checkpoints, graph, fence>>
      /\ history' = [history EXCEPT ![row.attempt] = "READY"]
  BY DEF Complete, IsCurrent, Current, stores
<1>2. PICK g \in GraphStatuses, rebuild \in Rebuilds :
        /\ g = "GRAPH_READY" => checkpoints = Batches
        /\ row' = Completed(row, g, rebuild)
  BY DEF Complete
<1> DEFINE result == IF g = "GRAPH_READY" THEN "complete" ELSE "partial"
<1>3. /\ row'.stage = "READY" /\ row'.attempt = row.attempt /\ row'.deleting = row.deleting
      /\ row'.graphStatus = g
  BY <1>2, CompletedRow DEF TypeOK
<1>4. row.stage # "REMOVED" /\ ~row.deleting /\ Promise!Now = "open" /\ row.attempt \in Attempts
  BY <1>1, NotRemoved, OutcomeNow, OutcomeFacts DEF RecordInv, Active
<1>5. OutcomeOf(row', "READY", row.attempt) = result
  <2>1. OutcomeOf(row', "READY", row.attempt)
          = IF row.attempt = row'.attempt /\ row'.graphStatus = "GRAPH_READY" THEN "complete" ELSE "partial"
    BY OutcomeFacts, Zenon
  <2>2. QED
    BY <1>3, <2>1
<1>6. Outcome' = [Outcome EXCEPT ![row.attempt] = result]
  <2> HIDE DEF result
  <2>1. QED
    BY <1>1, <1>3, <1>4, <1>5, OutcomeEnds
<1>7. Found' /\ Removal = "none" /\ Removal' = "none"
  BY <1>3, <1>4 DEF Found, Removal
<1>8. Shown'
  BY <1>3, <1>4 DEF AttemptInv
<1>9. Passages' = row.attempt /\ Concepts' \in {row.attempt, 0}
  BY <1>1, <1>3, <1>7, <1>8 DEF Passages, Concepts, Shown, AbortedInv
<1>10. Promise!Succeed(result)
  BY <1>1, <1>2, <1>3, <1>4, <1>6, <1>7, <1>9 DEF Promise!Succeed, Promise!Ends
<1>11. result \in Promise!Ready
  BY DEF Promise!Ready
<1>12. QED
  BY <1>10, <1>11 DEF Promise!Next

LEMMA SaveRefines ==
  ASSUME TypeOK, RecordInv, NEW w \in Workers, SaveCheckpoint(w)
  PROVE  Promise!Save
<1>1. /\ Active(row) /\ UNCHANGED <<row, history, vectors, graph>>
      /\ checkpoints < Batches /\ checkpoints' = checkpoints + 1
  BY DEF SaveCheckpoint, IsCurrent, Current, stores
<1>2. Promise!Now = "open"
  BY <1>1, NotRemoved, OutcomeNow, OutcomeFacts DEF Active
<1>3. UNCHANGED <<Outcome, Removal, Passages, Concepts>>
  BY <1>1 DEF Outcome, Removal, Passages, Concepts, Found
<1>4. QED
  BY <1>1, <1>2, <1>3 DEF Promise!Save

LEMMA ClearRefines ==
  ASSUME TypeOK, RecordInv, NEW w \in Workers, ClearCheckpoints(w)
  PROVE  Promise!Discard \/ UNCHANGED Promise!vars
<1>1. checkpoints' \in {0, checkpoints} /\ UNCHANGED <<row, history, vectors, graph>>
  BY DEF ClearCheckpoints, stores
<1>2. UNCHANGED <<row.attempt, Outcome, Removal, Passages, Concepts>>
  BY <1>1 DEF Outcome, Removal, Passages, Concepts, Found
<1>3. CASE UNCHANGED checkpoints
  BY <1>2, <1>3 DEF Promise!vars
<1>4. CASE row.stage = "REMOVED"
  BY <1>1, <1>3, <1>4 DEF RecordInv
<1>5. CASE row.stage = "READY" /\ row.graphStatus = "GRAPH_READY" /\ checkpoints' = 0
  <2>1. Promise!Now = "complete"
    BY <1>5, OutcomeNow, OutcomeFacts
  <2>2. QED
    BY <1>2, <1>5, <2>1 DEF Promise!Discard
<1>6. QED
  BY <1>1, <1>3, <1>4, <1>5 DEF ClearCheckpoints, At, RecordInv

LEMMA RequestRefines ==
  ASSUME TypeOK, RecordInv, RequestRemoval
  PROVE  Promise!RequestRemoval \/ UNCHANGED Promise!vars
<1>1. /\ row.stage \in DeletableStages /\ UNCHANGED <<history, checkpoints, vectors, graph>>
      /\ row'.stage = row.stage /\ row'.attempt = row.attempt /\ row'.deleting
      /\ row'.graphStatus = row.graphStatus /\ row'.retryable = row.retryable
  BY MarkedRow DEF RequestRemoval, TypeOK, stores
<1>2. CASE row.deleting
  <2>1. RowSeen
    BY <1>1, <1>2 DEF RowSeen, RowTouched, TypeOK, Rows
  <2>2. QED
    BY <1>1, <2>1, Unseen
<1>3. CASE ~row.deleting
  <2>1. Outcome' = Outcome
    BY <1>1 DEF Outcome, OutcomeOf
  <2>2. row.stage # "REMOVED" /\ row.stage \in {"READY", "FAILED"}
    BY <1>1, StageFacts DEF DeletableStages
  <2>3. Promise!Now \in {"failed", "rejected"} \cup Promise!Ready
    BY <2>2, OutcomeNow, OutcomeFacts DEF Promise!Ready
  <2>4. Removal = "none" /\ Removal' = "requested" /\ ~Found'
    BY <1>1, <1>3, <2>2 DEF Removal, Found
  <2>5. QED
    BY <1>1, <2>1, <2>3, <2>4, NothingFound DEF Promise!RequestRemoval
<1>4. QED
  BY <1>2, <1>3

LEMMA RemoveRefines ==
  ASSUME TypeOK, RecordInv, RemoveRow
  PROVE  Promise!Remove
<1>1. /\ row'.stage = "REMOVED" /\ row'.attempt = row.attempt /\ row'.deleting
      /\ history' = [n \in Attempts |-> "none"] /\ checkpoints' = 0
  BY RemovedRow DEF RemoveRow, TypeOK
<1>2. row.deleting /\ row.stage # "REMOVED"
  BY StageFacts DEF RemoveRow, RecordInv
<1>3. Outcome' = [n \in Promise!Attempts |-> "none"]
  <2>1. \A n \in Attempts : OutcomeOf(row', history'[n], n) = "none"
    BY <1>1, OutcomeFacts
  <2>2. Outcome' = [n \in Attempts |-> "none"]
    BY <2>1 DEF Outcome
  <2>3. QED
    BY <2>2 DEF Attempts, Promise!Attempts
<1>4. Removal = "requested" /\ Removal' = "done" /\ ~Found /\ ~Found'
  BY <1>1, <1>2 DEF Removal, Found
<1>5. QED
  BY <1>1, <1>3, <1>4, NothingFound DEF Promise!Remove

(* A READY document loses its graph to a late abort, or nothing at all.    *)
LEMMA LateRefines ==
  ASSUME TypeOK, RecordInv, AttemptInv, AttemptInv', AbortedInv, AbortedInv', NoLateWipe, LateLands
  PROVE  Promise!LoseConcepts \/ UNCHANGED Promise!vars
<1>1. UNCHANGED <<row, history, checkpoints>>
  BY DEF LateLands, record
<1>2. RowSeen
  BY <1>1 DEF RowSeen, RowTouched
<1>3. CASE ~Found
  BY <1>1, <1>2, <1>3, Unseen
<1>4. CASE Found
  <2>1. Outcome' = Outcome /\ Removal' = Removal /\ Found'
    BY <1>1, <1>2, <1>4, SeenSame
  <2>2. Shown /\ Shown'
    BY <1>1, <1>4 DEF Found, AttemptInv
  <2>3. Passages' = Passages
    BY <1>1, <1>4, <2>1, <2>2 DEF Passages, Shown
  <2>4. Concepts = graph /\ Concepts' = graph'
    BY <1>4, <2>1 DEF Concepts
  <2>5. row.attempt \in Attempts /\ row.attempt # 0
    BY RowFields, AttemptFacts DEF TypeOK
  <2>6. graph \in {row.attempt, 0} /\ graph' \in {row.attempt, 0}
    BY <1>1, <2>2 DEF Shown, AbortedInv
  <2>7. CASE graph' = graph
    BY <1>1, <2>1, <2>3, <2>4, <2>7 DEF Promise!vars
  <2>8. CASE graph' = 0
    <3>1. Promise!Now \in Promise!Ready
      BY <1>4, OutcomeNow, OutcomeFacts DEF Found, Promise!Ready
    <3>2. QED
      BY <1>1, <2>1, <2>3, <2>4, <2>8, <3>1 DEF Promise!LoseConcepts
  <2>9. CASE graph = 0 /\ graph' = row.attempt
    <3>1. PICK op \in late : ~Refused(op) /\ Apply(op)
      BY <2>5, <2>9 DEF LateLands, stores
    <3>2. op.kind = "baseline" /\ op.task = row.attempt
      BY <2>5, <2>9, <3>1 DEF Apply
    <3>3. op \in Ops /\ fence \in Fences(Attempts, Attempts) /\ fence' = Advance(fence, GraphWrite(op))
      BY <3>1, <3>2 DEF Apply, TypeOK, Ops
    <3>4. ~(op.task = fence.generation /\ fence.aborted)
      BY <3>1, <3>2, <3>3, AdvanceFacts
    <3>5. QED
      BY <2>2, <2>5, <2>9, <3>2, <3>4 DEF Shown
  <2>10. QED
    BY <2>6, <2>7, <2>8, <2>9
<1>5. QED
  BY <1>3, <1>4

LEMMA PromiseStep ==
  ASSUME TypeOK, RecordInv, AttemptInv, AttemptInv', AbortedInv, AbortedInv', NoLateWipe, [Next]_vars
  PROVE  [Promise!Next]_Promise!vars
<1>1. /\ row \in Rows(Instances) /\ row.attempt \in Attempts
      /\ \A w \in Workers : Home[w] \in Instances
      /\ \A w \in Workers : IsCurrent(w) => Active(row)
  BY RowFields, HomeFacts DEF TypeOK, IsCurrent, Current
<1>2. UNCHANGED row => RowSeen
  BY DEF RowSeen, RowTouched
<1>3. ASSUME RowSeen, UNCHANGED <<history, checkpoints>>, UNCHANGED stores \/ ~Found
      PROVE  UNCHANGED Promise!vars
  BY <1>3, Unseen DEF stores
<1>4. ASSUME UNCHANGED record, UNCHANGED stores \/ ~Found
      PROVE  UNCHANGED Promise!vars
  BY <1>2, <1>3, <1>4 DEF record
<1>5. ASSUME NEW i \in Instances, Recover(i)
      PROVE  Promise!Next
  <2>1. Active(row) /\ row.stage # "REMOVED" /\ ~row.deleting
    BY <1>5, NotRemoved DEF Recover, Interrupted, RecordInv
  <2>2. CASE row.attempt < MaxProcessingAttempts
    <3>1. row.attempt + 1 \in Attempts
      BY <1>1, <2>2, AttemptFacts
    <3>2. Promise!TryAgain
      BY <1>5, <2>1, <2>2, <3>1, AgainRefines DEF Recover
    <3>3. QED
      BY <3>2 DEF Promise!Next
  <2>3. CASE ~(row.attempt < MaxProcessingAttempts)
    BY <1>5, <2>1, <2>3, FailRefines DEF Recover
  <2>4. QED
    BY <2>2, <2>3
<1>6. ASSUME NEW i \in Instances, RetryUpload(i)
      PROVE  Promise!Next
  <2>1. row.attempt + 1 \in Attempts
    BY <1>1, <1>6, AttemptFacts DEF RetryUpload, CanReprocess
  <2>2. ~row.deleting /\ row.stage # "REMOVED"
    BY <1>6 DEF RetryUpload, CanReprocess
  <2>3. Promise!TryAgain
    BY <1>6, <2>1, <2>2, AgainRefines DEF RetryUpload
  <2>4. QED
    BY <2>3 DEF Promise!Next
<1>7. ASSUME NEW i \in Instances, RetrySourceFails(i)
      PROVE  Promise!Next \/ UNCHANGED Promise!vars
  <2>1. CASE Active(row) /\ row.attempt = retrying[i]
    BY <1>7, <2>1, FailRefines DEF RetrySourceFails
  <2>2. CASE ~(Active(row) /\ row.attempt = retrying[i])
    BY <1>2, <1>3, <1>7, <2>2 DEF RetrySourceFails
  <2>3. QED
    BY <2>1, <2>2
<1>8. ASSUME NEW i \in Instances, Dispatch(i) \/ RetryQueued(i) \/ Stop(i) \/ Stopped(i)
      PROVE  UNCHANGED Promise!vars
  BY <1>4, <1>8 DEF Dispatch, RetryQueued, Stop, Stopped, GoDown
<1>9. ASSUME NEW i \in Instances, Crash(i)
      PROVE  UNCHANGED Promise!vars
  <2>1. UNCHANGED stores \/ \E w \in Workers : IsCurrent(w)
    BY <1>9 DEF Crash, WorkersOf
  <2>2. QED
    BY <1>1, <1>4, <1>9, <2>1, NotFoundActive DEF Crash, GoDown
<1>10. ASSUME NEW w \in Workers, Claim(w) \/ Heartbeat(w) \/ Cancel(w)
       PROVE  UNCHANGED Promise!vars
  <2>1. RowSeen
    <3>1. CASE Claim(w)
      BY <1>1, <3>1, LeasedRow DEF Claim, RowSeen, RowTouched
    <3>2. CASE Heartbeat(w)
      BY <1>1, <3>2, LeaseChanged DEF Heartbeat, RowSeen, RowTouched, Leases
    <3>3. CASE Cancel(w)
      BY <1>1, <3>3, UnleasedRow DEF Cancel, RowSeen, RowTouched
    <3>4. QED
      BY <1>10, <3>1, <3>2, <3>3
  <2>2. QED
    BY <1>3, <1>10, <2>1 DEF Claim, Heartbeat, Cancel
<1>11. ASSUME NEW w \in Workers,
              \/ ClaimRefused(w) \/ BeginFails(w) \/ Begin(w) \/ Superseded(w) \/ ReserveChunks(w)
              \/ GraphExtracted(w) \/ Raise(w) \/ FailureSuperseded(w)
       PROVE  UNCHANGED Promise!vars
  BY <1>4, <1>11 DEF ClaimRefused, BeginFails, Begin, Superseded, ReserveChunks, GraphExtracted, Raise,
                     FailureSuperseded
<1>12. ASSUME NEW w \in Workers, FencedWrite(w) \/ FailureNotRecorded(w)
       PROVE  UNCHANGED Promise!vars
  <2>1. IsCurrent(w) /\ UNCHANGED record
    BY <1>12 DEF FencedWrite, FailureNotRecorded
  <2>2. QED
    BY <1>1, <1>4, <2>1, NotFoundActive
<1>13. ASSUME NEW w \in Workers, SetStage(w)
       PROVE  UNCHANGED Promise!vars
  BY <1>13, StageRefines
<1>14. ASSUME NEW w \in Workers, SaveCheckpoint(w) \/ Complete(w) \/ ClearCheckpoints(w)
       PROVE  Promise!Next \/ UNCHANGED Promise!vars
  BY <1>14, SaveRefines, CompleteRefines, ClearRefines DEF Promise!Next
<1>15. ASSUME NEW w \in Workers, Fail(w)
       PROVE  Promise!Next
  BY <1>1, <1>15, FailRefines DEF Fail
<1>16. ASSUME LeaseExpires \/ LeaseLost \/ RetryDue
       PROVE  UNCHANGED Promise!vars
  <2>1. RowSeen
    <3>1. CASE LeaseExpires \/ LeaseLost
      BY <1>1, <3>1, LeaseChanged DEF LeaseExpires, LeaseLost, RowSeen, RowTouched, Leases
    <3>2. CASE RetryDue
      BY <1>1, <3>2, RebuildChanged DEF RetryDue, RowSeen, RowTouched, Rebuilds
    <3>3. QED
      BY <1>16, <3>1, <3>2
  <2>2. QED
    BY <1>3, <1>16, <2>1 DEF LeaseExpires, LeaseLost, RetryDue
<1>17. ASSUME RequestRemoval \/ RemoveRow
       PROVE  Promise!Next \/ UNCHANGED Promise!vars
  BY <1>17, RequestRefines, RemoveRefines DEF Promise!Next
<1>18. ASSUME RemoveRemote \/ RemovalFails \/ \E task \in Attempts : SweepVectors(task)
       PROVE  UNCHANGED Promise!vars
  <2>1. row.deleting /\ UNCHANGED record
    BY <1>18 DEF RemoveRemote, RemovalFails, SweepVectors, RecordInv, NextRemoval
  <2>2. QED
    BY <1>4, <2>1 DEF Found
<1>19. ASSUME LateLands
       PROVE  Promise!Next \/ UNCHANGED Promise!vars
  BY <1>19, LateRefines DEF Promise!Next
<1>20. ASSUME UNCHANGED vars
       PROVE  UNCHANGED Promise!vars
  BY <1>4, <1>20 DEF vars
<1>21. QED
  BY <1>5, <1>6, <1>7, <1>8, <1>9, <1>10, <1>11, <1>12, <1>13, <1>14, <1>15, <1>16, <1>17, <1>18,
     <1>19, <1>20
     DEF Next, WorkerStep

LEMMA PromiseInit == Init => Promise!Init
<1> SUFFICES ASSUME Init PROVE Promise!Init
  OBVIOUS
<1>1. /\ row.attempt = 1 /\ row.stage = "UPLOADED" /\ ~row.deleting
      /\ checkpoints = 0
      /\ history = [n \in Attempts |-> IF n = 1 THEN "UPLOADED" ELSE "none"]
  BY DEF Init, NewRow
<1>2. \A n \in Attempts : OutcomeOf(row, history[n], n) = IF n = 1 THEN "open" ELSE "none"
  BY <1>1, OutcomeFacts DEF ActiveStages
<1>3. Outcome = [n \in Promise!Attempts |-> IF n = 1 THEN "open" ELSE "none"]
  <2>1. Outcome = [n \in Attempts |-> IF n = 1 THEN "open" ELSE "none"]
    BY <1>2 DEF Outcome
  <2>2. QED
    BY <2>1 DEF Attempts, Promise!Attempts
<1>4. Removal = "none" /\ ~Found
  BY <1>1 DEF Removal, Found
<1>5. QED
  BY <1>1, <1>3, <1>4, NothingFound DEF Promise!Init

(* However processes, leases, lost answers and late requests interleave,   *)
(* the document moves as UploadJob promises its owner: attempts one after  *)
(* the other, each with one outcome, saved batches kept, passages of the   *)
(* READY attempt only, a removal for good.  As in ReadyIsShown no request  *)
(* that deletes all vectors of a document outlives its caller.             *)
THEOREM PromiseIsKept ==
  ASSUME "delete_all" \notin LateKinds
  PROVE  Spec => PromiseKept
<1>1. NoLateWipe
  BY DEF NoLateWipe
<1>2. /\ TypeOK /\ RecordInv /\ AttemptInv /\ AttemptInv' /\ AbortedInv /\ AbortedInv' /\ [Next]_vars
      => [Promise!Next]_Promise!vars
  BY <1>1, PromiseStep
<1>3. QED
  BY <1>2, PromiseInit, RecordInvariance, AttemptInvariance, AbortedInvariance, PTL
     DEF Spec, PromiseKept, Promise!Spec

=============================================================================
