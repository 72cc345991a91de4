---------------------- MODULE GraphContinuationProofs ----------------------
(***************************************************************************)
(* Theorems about GraphContinuation for any number of workers, attempts    *)
(* and digests.  None of the properties is inductive alone: a receipt is   *)
(* true because a marker is, a marker because the store applies only what  *)
(* was sent, and what was sent agrees with the draft because an intent     *)
(* that was committed is never changed and keeps its draft.                *)
(***************************************************************************)
EXTENDS GraphContinuation, TLAPS

(* The document has reached READY in the attempt.                          *)
Reached(task) == task < attempt \/ (task = attempt /\ phase \in {"ready", "removing"})

Publication(task, digest) ==
  [mode |-> "publication", generation |-> task, task |-> task, digest |-> digest]

AttemptInv == attempt \in Attempts /\ phase \in Projection!Phases

(* A job and an intent belong to an attempt that became READY.             *)
ReachedInv ==
  /\ job.task # 0 => Reached(job.task)
  /\ \A task \in Attempts : intents[task] # NoDigest => Reached(task)

(* What is in flight is exactly what an intent announced.                  *)
AnnouncedInv ==
  \A t \in sent :
    /\ t.digest \in Baselines \cup Drafts \cup {NoDigest}
    /\ t.mode = "publication" =>
         /\ t.generation \in Attempts
         /\ intents[t.generation] # NoDigest
         /\ t = Publication(t.generation, intents[t.generation])

(* Every marker was left by a committed publication.                       *)
MarkerInv == \A m \in markers : Publication(m.generation, m.digest) \in committed

(* A receipt names an intent whose publication the store committed.        *)
ReceiptInv ==
  \A task \in receipts :
    intents[task] # NoDigest /\ Publication(task, intents[task]) \in committed

CompletedInv == job.status = "completed" => job.task \in receipts

IInv ==
  TypeOK /\ AttemptInv /\ ReachedInv /\ AnnouncedInv /\ MarkerInv /\ ReceiptInv
  /\ CompletedInv /\ EvidenceKept

-----------------------------------------------------------------------------
(* The attempts are an interval that starts at 1.                          *)
LEMMA AttemptFacts ==
  /\ MaxAttempts \in Nat /\ 1 \in Attempts /\ Attempts \subseteq Nat
  /\ 0 \notin Attempts
  /\ \A task \in Attempts : MaxTries(task) \in 0..MaxAttempts
BY MaxAttemptsAssumption DEF Attempts, MaxTries

(* A job starts with no try counted and with at least one to go.           *)
LEMMA NewJobOK ==
  ASSUME attempt \in Attempts, attempt < MaxAttempts, job' = NewJob(attempt)
  PROVE  JobOK' /\ job'.task = attempt /\ job'.status = "pending"
<1>1. job' = [task |-> attempt, status |-> "pending", why |-> "none", tries |-> 0,
              lease |-> "none", due |-> FALSE, body |-> TRUE, changed |-> FALSE]
  BY DEF NewJob, NoJob
<1>2. job' \in Jobs
  BY <1>1, AttemptFacts DEF Jobs, Statuses, Reasons
<1>3. 0 <= MaxTries(attempt) /\ MaxTries(attempt) >= 1
  BY AttemptFacts DEF MaxTries
<1>4. QED
  BY <1>1, <1>2, <1>3 DEF JobOK

(* A document without a job has a well typed one.                          *)
LEMMA NoJobOK == ASSUME job' = NoJob PROVE JobOK'
<1>1. job' \in Jobs
  BY AttemptFacts DEF NoJob, Jobs, Statuses, Reasons
<1>2. QED
  BY <1>1 DEF JobOK, NoJob

(* The invariant holds after the upload.                                   *)
LEMMA InitIInv == Init => IInv
<1> SUFFICES ASSUME Init PROVE IInv
  OBVIOUS
<1> USE DEF Init
<1>1. attempt = 1 /\ phase = "active" /\ sent = {} /\ markers = {}
  BY DEF Projection!Init
<1>2. TypeOK
  <2>1. JobOK
    BY AttemptFacts DEF JobOK, Jobs, NoJob, Statuses, Reasons
  <2>2. result \in Results
    BY DEF NoResult, Results
  <2>3. worker \in [Workers -> Claims]
    BY AttemptFacts DEF Off, Steps, Claims
  <2>4. QED
    BY <2>1, <2>2, <2>3 DEF TypeOK
<1>3. AttemptInv
  BY <1>1, AttemptFacts DEF AttemptInv, Projection!Phases
<1>4. ReachedInv /\ AnnouncedInv /\ MarkerInv /\ ReceiptInv /\ CompletedInv /\ EvidenceKept
  BY <1>1 DEF NoJob, ReachedInv, AnnouncedInv, MarkerInv, ReceiptInv, CompletedInv, EvidenceKept
<1>5. QED
  BY <1>2, <1>3, <1>4 DEF IInv

(* The document's own steps publish nothing, and READY is only left behind *)
(* by a newer attempt or a removal.                                        *)
LEMMA DocumentSteps ==
  ASSUME IInv,
         Process \/ MarkReady \/ NextAttempt \/ RetryDue \/ RetentionPasses
           \/ RequestRemoval \/ SendTombstone \/ RemoveRow
  PROVE  IInv'
<1> USE DEF IInv
<1> USE AttemptFacts
<1>1. CASE Process
  <2>1. /\ UNCHANGED <<attempt, committed, markers, result, aged, gone, job, draft, intents,
                       receipts, cleanups, worker>>
        /\ phase \notin {"ready", "removing"} /\ phase' \notin {"ready", "removing"}
        /\ phase' \in Projection!Phases
        /\ \A t \in sent' :
             t \in sent \/ (t.mode # "publication" /\ t.digest \in Baselines \cup Drafts \cup {NoDigest})
    BY <1>1 DEF Process, Unprocessed, evidence, Projection!SendBaseline, Projection!SendAbort,
       Projection!MarkFailed, Projection!ClaimAgain, Projection!Write, Projection!Phases
  <2>2. TypeOK'
    BY <2>1 DEF TypeOK, JobOK, Results
  <2>3. AttemptInv' /\ ReachedInv' /\ MarkerInv' /\ ReceiptInv' /\ CompletedInv' /\ EvidenceKept'
    BY <2>1 DEF AttemptInv, ReachedInv, Reached, MarkerInv, ReceiptInv, CompletedInv, EvidenceKept
  <2>4. AnnouncedInv'
    BY <2>1 DEF AnnouncedInv
  <2>5. QED
    BY <2>2, <2>3, <2>4
<1>2. CASE MarkReady
  <2>1. /\ UNCHANGED <<attempt, sent, committed, markers, aged, gone, intents, receipts, cleanups,
                       worker>>
        /\ phase = "active" /\ phase' = "ready"
    BY <1>2 DEF MarkReady, evidence, Projection!MarkReady
  <2>2. \/ UNCHANGED <<job, draft>>
        \/ job' = NewJob(attempt) /\ draft' = NoDigest /\ attempt < MaxAttempts
    BY <1>2 DEF MarkReady
  <2>3. result' \in Results
    <3>1. PICK t \in Projection!SentInMode("baseline") \cap committed, open, due, limited \in BOOLEAN :
            result' = [digest |-> t.digest, open |-> open, due |-> due /\ ~limited]
      BY <1>2 DEF MarkReady
    <3>2. QED
      BY <3>1 DEF Results, AnnouncedInv, Projection!SentInMode
  <2>4. intents[attempt] = NoDigest
    BY <2>1 DEF ReachedInv, Reached, AttemptInv
  <2>5. TypeOK'
    <3>1. JobOK'
      <4>1. CASE job' = NewJob(attempt) /\ attempt < MaxAttempts
        BY <4>1, NewJobOK DEF AttemptInv
      <4>2. CASE UNCHANGED job
        BY <4>2 DEF TypeOK, JobOK
      <4>3. QED
        BY <2>2, <4>1, <4>2
    <3>2. QED
      BY <2>1, <2>2, <2>3, <3>1 DEF TypeOK
  <2>6. AttemptInv' /\ AnnouncedInv' /\ MarkerInv' /\ ReceiptInv'
    BY <2>1 DEF AttemptInv, AnnouncedInv, MarkerInv, ReceiptInv, Projection!Phases
  <2>7. ReachedInv' /\ CompletedInv'
    BY <2>1, <2>2 DEF ReachedInv, Reached, CompletedInv, NewJob, NoJob
  <2>8. EvidenceKept'
    BY <2>1, <2>4 DEF EvidenceKept, Unresolved
  <2>9. QED
    BY <2>5, <2>6, <2>7, <2>8
<1>3. CASE NextAttempt
  <2>1. /\ UNCHANGED <<sent, committed, markers, aged, gone, job, draft, intents, receipts, cleanups,
                       worker>>
        /\ attempt' = attempt + 1 /\ attempt < MaxAttempts /\ phase' = "active"
        /\ result' = NoResult
    BY <1>3 DEF NextAttempt, Unprocessed, evidence, Projection!NextAttempt
  <2>2. TypeOK'
    BY <2>1 DEF TypeOK, JobOK, NoResult, Results
  <2>3. AttemptInv' /\ AnnouncedInv' /\ MarkerInv' /\ ReceiptInv' /\ CompletedInv' /\ EvidenceKept'
    BY <2>1 DEF AttemptInv, AnnouncedInv, MarkerInv, ReceiptInv, CompletedInv, EvidenceKept,
       Attempts, Projection!Phases
  <2>4. ReachedInv'
    <3>1. attempt \in Nat /\ job.task \in Attempts \cup {0}
      BY DEF AttemptInv, TypeOK, JobOK, Jobs
    <3>2. \A task \in Attempts : Reached(task) => Reached(task)'
      BY <2>1, <3>1 DEF Reached
    <3>3. QED
      BY <2>1, <3>1, <3>2 DEF ReachedInv
  <2>5. QED
    BY <2>2, <2>3, <2>4
<1>4. CASE RetryDue \/ RetentionPasses \/ SendTombstone
  <2>1. /\ UNCHANGED <<attempt, phase, sent, committed, markers, gone, job, draft, intents,
                       receipts, cleanups, worker>>
        /\ result' \in {result, [result EXCEPT !.due = TRUE]}
        /\ aged' \in {aged, TRUE}
    BY <1>4 DEF RetryDue, RetentionPasses, SendTombstone, Unprocessed, evidence, store,
       Projection!SendTombstone
  <2>2. TypeOK'
    BY <2>1 DEF TypeOK, JobOK, Results
  <2>3. AttemptInv' /\ ReachedInv' /\ AnnouncedInv' /\ MarkerInv' /\ ReceiptInv' /\ CompletedInv'
    BY <2>1 DEF AttemptInv, ReachedInv, Reached, AnnouncedInv, MarkerInv, ReceiptInv, CompletedInv
  <2>4. EvidenceKept'
    BY <2>1 DEF EvidenceKept, Unresolved
  <2>5. QED
    BY <2>2, <2>3, <2>4
<1>5. CASE RequestRemoval \/ RemoveRow
  <2>1. /\ UNCHANGED <<attempt, sent, committed, markers, aged, intents, receipts, cleanups,
                       worker>>
        /\ phase' = "removing"
        /\ UNCHANGED <<job, draft>> \/ (job' = NoJob /\ draft' = NoDigest)
        /\ result' \in {result, NoResult} /\ gone' \in {gone, TRUE}
    BY <1>5 DEF RequestRemoval, RemoveRow, Unprocessed, evidence, store, Projection!RequestRemoval
  <2>2. TypeOK'
    <3>1. JobOK'
      <4>1. CASE UNCHANGED job
        BY <4>1 DEF TypeOK, JobOK
      <4>2. QED
        BY <2>1, <4>1, NoJobOK
    <3>2. result' \in Results
      <4>1. result \in Results /\ NoResult \in Results
        BY DEF TypeOK, NoResult, Results
      <4>2. QED
        BY <2>1, <4>1
    <3>3. QED
      BY <2>1, <3>1, <3>2 DEF TypeOK
  <2>3. AttemptInv' /\ ReachedInv' /\ AnnouncedInv' /\ MarkerInv' /\ ReceiptInv' /\ CompletedInv'
    BY <2>1 DEF AttemptInv, ReachedInv, Reached, AnnouncedInv, MarkerInv, ReceiptInv, CompletedInv,
       NoJob, Projection!Phases
  <2>4. EvidenceKept'
    BY <2>1 DEF EvidenceKept
  <2>5. QED
    BY <2>2, <2>3, <2>4
<1>6. QED
  BY <1>1, <1>2, <1>3, <1>4, <1>5

(* The store applies what was sent, and only a publication leaves a marker.*)
LEMMA StoreSteps ==
  ASSUME IInv, Land \/ LandTombstone \/ \E task \in Attempts : CleanUpIntent(task)
  PROVE  IInv'
<1> USE DEF IInv
<1>1. /\ UNCHANGED <<attempt, phase, sent, result, aged, gone, job, draft, intents, receipts,
                     worker>>
      /\ cleanups' \in SUBSET Attempts
  BY DEF Land, LandTombstone, CleanUpIntent, Unprocessed, evidence, TypeOK, Projection!Land,
     Projection!LandTombstone, Projection!Commit
<1>2. TypeOK'
  BY <1>1 DEF TypeOK, JobOK
<1>3. AttemptInv' /\ ReachedInv' /\ AnnouncedInv' /\ CompletedInv'
  BY <1>1 DEF AttemptInv, ReachedInv, Reached, AnnouncedInv, CompletedInv
<1>4. EvidenceKept'
  BY <1>1 DEF EvidenceKept, Unresolved
<1>5. committed \subseteq committed' /\ MarkerInv'
  <2>1. CASE Land
    <3>1. PICK t \in sent : Projection!Commit(t)
      BY <2>1 DEF Land, Projection!Land
    <3>2. committed' = committed \cup {t}
      BY <3>1 DEF Projection!Commit
    <3>3. CASE t.mode = "publication"
      <4>1. t = Publication(t.generation, t.digest)
        BY <3>3 DEF AnnouncedInv, Publication
      <4>2. markers' = markers \cup {[generation |-> t.generation, digest |-> t.digest]}
        BY <3>1, <3>3 DEF Projection!Commit
      <4>3. QED
        BY <3>2, <4>1, <4>2 DEF MarkerInv
    <3>4. CASE t.mode # "publication"
      BY <3>1, <3>2, <3>4 DEF MarkerInv, Projection!Commit
    <3>5. QED
      BY <3>3, <3>4
  <2>2. CASE LandTombstone \/ \E task \in Attempts : CleanUpIntent(task)
    BY <2>2 DEF LandTombstone, CleanUpIntent, Projection!LandTombstone, MarkerInv
  <2>3. QED
    BY <2>1, <2>2
<1>6. ReceiptInv'
  BY <1>1, <1>5 DEF ReceiptInv
<1>7. QED
  BY <1>2, <1>3, <1>4, <1>5, <1>6

-----------------------------------------------------------------------------
(* A step that changes nothing but the job and a worker, and completes no  *)
(* job, disturbs only their types.                                         *)
LEMMA ClaimsOnly ==
  ASSUME IInv, UNCHANGED <<document, store, draft, evidence>>,
         JobOK', job'.task = job.task, job'.body = job.body, job'.status # "completed",
         worker' \in [Workers -> Claims]
  PROVE  IInv'
<1> USE DEF IInv, document, store, evidence
<1>1. TypeOK'
  BY DEF TypeOK
<1>2. AttemptInv' /\ ReachedInv' /\ AnnouncedInv' /\ MarkerInv' /\ ReceiptInv' /\ CompletedInv'
  BY DEF AttemptInv, ReachedInv, Reached, AnnouncedInv, MarkerInv, ReceiptInv, CompletedInv
<1>3. EvidenceKept'
  BY DEF EvidenceKept, Unresolved
<1>4. QED
  BY <1>1, <1>2, <1>3

(* A step of a worker alone.                                               *)
LEMMA WorkerOnly ==
  ASSUME IInv, UNCHANGED <<document, store, job, draft, evidence>>,
         worker' \in [Workers -> Claims]
  PROVE  IInv'
<1> USE DEF IInv, document, store, evidence
<1>1. TypeOK'
  BY DEF TypeOK, JobOK
<1>2. AttemptInv' /\ ReachedInv' /\ AnnouncedInv' /\ MarkerInv' /\ ReceiptInv' /\ CompletedInv'
  BY DEF AttemptInv, ReachedInv, Reached, AnnouncedInv, MarkerInv, ReceiptInv, CompletedInv
<1>3. EvidenceKept'
  BY DEF EvidenceKept, Unresolved
<1>4. QED
  BY <1>1, <1>2, <1>3

(* A worker that goes on or leaves keeps its type.                         *)
LEMMA WorkerType ==
  ASSUME worker \in [Workers -> Claims],
         NEW w \in Workers, Leave(w) \/ \E step \in Steps : To(w, step)
  PROVE  worker' \in [Workers -> Claims]
<1>1. Off \in Claims
  BY AttemptFacts DEF Off, Steps, Claims
<1>2. QED
  BY <1>1 DEF Leave, To, Claims

(* The clock and a release change the job as its lease and due time show.  *)
LEMMA ClockSteps ==
  ASSUME IInv, JobDue \/ LeaseExpires \/ Reconfigure
  PROVE  IInv'
<1>1. JobOK /\ job \in Jobs
  BY DEF IInv, TypeOK, JobOK
<1>2. CASE JobDue \/ LeaseExpires
  <2>1. /\ JobOK' /\ job'.task = job.task /\ job'.body = job.body
        /\ job'.status = job.status /\ job.status \in {"pending", "running"}
    BY <1>1, <1>2 DEF JobDue, LeaseExpires, JobOK, Jobs
  <2>2. QED
    BY <1>2, <2>1, ClaimsOnly DEF JobDue, LeaseExpires, IInv, TypeOK
<1>3. CASE Reconfigure
  <2> USE DEF IInv, document, store, evidence
  <2>1. /\ JobOK' /\ job'.task = job.task /\ job'.body = job.body /\ job'.status = job.status
        /\ UNCHANGED <<document, store, draft, evidence, worker>>
    BY <1>1, <1>3 DEF Reconfigure, JobOK, Jobs
  <2>2. TypeOK'
    BY <2>1 DEF TypeOK
  <2>3. AttemptInv' /\ ReachedInv' /\ AnnouncedInv' /\ MarkerInv' /\ ReceiptInv' /\ CompletedInv'
    BY <2>1 DEF AttemptInv, ReachedInv, Reached, AnnouncedInv, MarkerInv, ReceiptInv, CompletedInv
  <2>4. EvidenceKept'
    BY <2>1 DEF EvidenceKept, Unresolved
  <2>5. QED
    BY <2>2, <2>3, <2>4
<1>4. QED
  BY <1>2, <1>3

(* A claim counts a try, and is given only while tries are left.           *)
LEMMA ClaimStep ==
  ASSUME IInv, NEW w \in Workers, Claim(w)
  PROVE  IInv'
<1>1. JobOK /\ job \in Jobs /\ worker \in [Workers -> Claims]
  BY DEF IInv, TypeOK, JobOK
<1>2. CASE StopReason # "none"
  <2>1. StopReason \in Reasons
    BY DEF StopReason, Reasons
  <2>2. job' = Stop(job, StopReason) /\ UNCHANGED worker
    BY <1>2 DEF Claim
  <2>3. JobOK' /\ job'.task = job.task /\ job'.body = job.body /\ job'.status = "stopped"
    BY <1>1, <2>1, <2>2 DEF Stop, JobOK, Jobs, Statuses
  <2>4. QED
    BY <1>1, <2>2, <2>3, ClaimsOnly DEF Claim
<1>3. CASE StopReason = "none"
  <2>1. Current /\ job.tries < MaxTries(job.task)
    <3>1. Current /\ ~(job.tries >= MaxTries(job.task))
      BY <1>3 DEF StopReason
    <3>2. job.task \in Attempts
      BY <3>1 DEF Current, IInv, AttemptInv
    <3>3. job.tries \in Nat /\ MaxTries(job.task) \in Nat
      <4>1. MaxTries(job.task) \in 0..MaxAttempts
        BY <3>2, AttemptFacts
      <4>2. job.tries \in 0..MaxAttempts
        BY <1>1 DEF Jobs
      <4>3. QED
        BY <4>1, <4>2
    <3>4. QED
      BY <3>1, <3>3
  <2>2. /\ job.task \in Attempts /\ MaxTries(job.task) \in 0..MaxAttempts
        /\ job.tries + 1 \in 0..MaxAttempts /\ job.tries + 1 <= MaxTries(job.task)
    BY <1>1, <2>1, AttemptFacts DEF Current, IInv, AttemptInv, Jobs
  <2>3. job' = [job EXCEPT !.status = "running", !.tries = @ + 1, !.lease = "live", !.why = "none"]
    BY <1>3 DEF Claim
  <2>4. /\ job' \in Jobs /\ job'.task = job.task /\ job'.body = job.body
        /\ job'.status = "running" /\ job'.lease = "live" /\ job'.tries = job.tries + 1
    BY <1>1, <2>2, <2>3 DEF Jobs, Statuses, Reasons
  <2>5. JobOK'
    BY <1>1, <2>2, <2>4 DEF JobOK
  <2>6. worker' = [worker EXCEPT ![w] = [at |-> "claimed", task |-> job.task, try |-> job.tries + 1]]
    BY <1>3 DEF Claim
  <2>7. worker' \in [Workers -> Claims]
    BY <1>1, <2>2, <2>6 DEF Steps, Claims
  <2>8. QED
    BY <2>4, <2>5, <2>7, ClaimsOnly DEF Claim
<1>4. QED
  BY <1>2, <1>3

(* What _locked_claim gives a worker: the job of the READY attempt.        *)
LEMMA HeldClaim ==
  ASSUME IInv, NEW w \in Workers, Holds(w)
  PROVE  /\ job.task = attempt /\ job.task \in Attempts /\ phase = "ready"
BY DEF IInv, TypeOK, AttemptInv, JobOK, Jobs, Holds, Current, Ready

(* A deferral gives up the claim and keeps the tries it used.              *)
LEMMA DeferStep ==
  ASSUME IInv, NEW w \in Workers, Defer(w)
  PROVE  IInv'
<1>1. JobOK /\ job \in Jobs /\ worker \in [Workers -> Claims]
  BY DEF IInv, TypeOK, JobOK
<1>2. /\ JobOK' /\ job'.task = job.task /\ job'.body = job.body
      /\ job'.status \in {"stopped", "pending"}
  <2>1. CASE job' = Stop(job, "attempt_limit")
    BY <1>1, <2>1 DEF Stop, JobOK, Jobs, Statuses, Reasons
  <2>2. CASE job' = [job EXCEPT !.status = "pending", !.due = FALSE, !.lease = "none"]
    BY <1>1, <2>2 DEF JobOK, Jobs, Statuses
  <2>3. QED
    BY <2>1, <2>2 DEF Defer
<1>3. worker' \in [Workers -> Claims]
  BY <1>1, WorkerType DEF Defer
<1>4. QED
  BY <1>2, <1>3, ClaimsOnly DEF Defer

(* A draft replaces none but itself, so it stays the one the intent names. *)
LEMMA SaveDraftStep ==
  ASSUME IInv, NEW w \in Workers, SaveDraft(w)
  PROVE  IInv'
<1> USE DEF IInv
<1>1. worker' \in [Workers -> Claims]
  BY WorkerType DEF SaveDraft, TypeOK, Steps
<1>2. /\ UNCHANGED <<document, store, job, evidence>>
      /\ draft' \in Drafts /\ draft \in {NoDigest, draft'}
  BY DEF SaveDraft
<1> USE DEF document, store, evidence
<1>3. TypeOK'
  BY <1>1, <1>2 DEF TypeOK, JobOK
<1>4. AttemptInv' /\ ReachedInv' /\ AnnouncedInv' /\ MarkerInv' /\ ReceiptInv' /\ CompletedInv'
  BY <1>2 DEF AttemptInv, ReachedInv, Reached, AnnouncedInv, MarkerInv, ReceiptInv, CompletedInv
<1>5. EvidenceKept'
  BY <1>2 DEF EvidenceKept, Unresolved
<1>6. QED
  BY <1>3, <1>4, <1>5

(* An intent is written once and copied from the draft.                    *)
LEMMA CommitIntentStep ==
  ASSUME IInv, NEW w \in Workers, CommitIntent(w)
  PROVE  IInv'
<1> USE DEF IInv
<1>1. worker' \in [Workers -> Claims]
  BY WorkerType DEF CommitIntent, TypeOK, Steps
<1>2. /\ UNCHANGED <<document, store, job, draft, receipts, cleanups>>
      /\ job.task = attempt /\ attempt \in Attempts /\ phase = "ready" /\ job.body
      /\ draft # NoDigest /\ draft \in Drafts
      /\ intents[attempt] \in {NoDigest, draft}
      /\ intents' = [intents EXCEPT ![attempt] = draft]
  BY HeldClaim DEF CommitIntent, Intact, TypeOK
<1>3. /\ intents' \in [Attempts -> Drafts \cup {NoDigest}]
      /\ intents'[attempt] = draft
      /\ \A task \in Attempts : intents[task] # NoDigest => intents'[task] = intents[task]
      /\ \A task \in Attempts : task # attempt => intents'[task] = intents[task]
  BY <1>2 DEF TypeOK
<1> USE DEF document, store
<1>4. TypeOK'
  BY <1>1, <1>2, <1>3 DEF TypeOK, JobOK
<1>5. AttemptInv' /\ MarkerInv' /\ CompletedInv'
  BY <1>2 DEF AttemptInv, MarkerInv, CompletedInv
<1>6. ReachedInv'
  BY <1>2, <1>3 DEF ReachedInv, Reached
<1>7. AnnouncedInv'
  BY <1>2, <1>3 DEF AnnouncedInv
<1>8. ReceiptInv'
  BY <1>2, <1>3 DEF ReceiptInv, TypeOK
<1>9. EvidenceKept'
  BY <1>2, <1>3 DEF EvidenceKept
<1>10. QED
  BY <1>4, <1>5, <1>6, <1>7, <1>8, <1>9

(* The write that is sent is the one the intent announced.                 *)
LEMMA PublishStep ==
  ASSUME IInv, NEW w \in Workers, Publish(w)
  PROVE  IInv'
<1> USE DEF IInv
<1>1. worker' \in [Workers -> Claims]
  BY WorkerType DEF Publish, TypeOK, Steps
<1>2. /\ UNCHANGED <<document, committed, markers, job, draft, evidence>>
      /\ attempt \in Attempts /\ draft # NoDigest /\ draft \in Drafts
      /\ intents[attempt] = draft
  BY HeldClaim DEF Publish, TypeOK
<1>3. \A t \in sent' : t \in sent \/ t = Publication(attempt, draft)
  BY DEF Publish, Projection!Write, Publication
<1> USE DEF document, evidence
<1>4. TypeOK'
  BY <1>1, <1>2 DEF TypeOK, JobOK
<1>5. AttemptInv' /\ ReachedInv' /\ MarkerInv' /\ ReceiptInv' /\ CompletedInv'
  BY <1>2 DEF AttemptInv, ReachedInv, Reached, MarkerInv, ReceiptInv, CompletedInv
<1>6. AnnouncedInv'
  BY <1>2, <1>3 DEF AnnouncedInv, Publication
<1>7. EvidenceKept'
  BY <1>2 DEF EvidenceKept, Unresolved
<1>8. QED
  BY <1>4, <1>5, <1>6, <1>7

(* A completion records a publication whose marker was read.               *)
LEMMA CompletedStep ==
  ASSUME IInv, Completed, MarkerSeen,
         job.task = attempt, draft # NoDigest, intents[job.task] = draft,
         worker' \in [Workers -> Claims]
  PROVE  IInv'
<1> USE DEF IInv
<1>1. /\ UNCHANGED <<attempt, phase, aged, gone, store, draft, intents, cleanups>>
      /\ receipts' = receipts \cup {attempt} /\ attempt \in Attempts
      /\ job' = [job EXCEPT !.status = "completed", !.why = "none", !.lease = "none"]
      /\ \E open \in BOOLEAN : result' = [digest |-> draft, open |-> open, due |-> TRUE]
  BY DEF Completed, AttemptInv
<1> USE DEF store
<1>2. /\ JobOK' /\ job'.task = attempt /\ job'.body = job.body /\ job'.status = "completed"
  BY <1>1 DEF TypeOK, JobOK, Jobs, Statuses, Reasons
<1>3. result' \in Results
  BY <1>1 DEF TypeOK, Results
<1>4. TypeOK'
  BY <1>1, <1>2, <1>3 DEF TypeOK
<1>5. AttemptInv' /\ AnnouncedInv' /\ MarkerInv'
  BY <1>1 DEF AttemptInv, AnnouncedInv, MarkerInv
<1>6. ReachedInv' /\ CompletedInv'
  BY <1>1, <1>2 DEF ReachedInv, Reached, CompletedInv
<1>7. ReceiptInv'
  <2>1. Publication(attempt, draft) \in committed
    BY DEF MarkerSeen, MarkerInv
  <2>2. QED
    BY <1>1, <2>1 DEF ReceiptInv
<1>8. EvidenceKept'
  BY <1>1, <1>2 DEF EvidenceKept, Unresolved
<1>9. QED
  BY <1>4, <1>5, <1>6, <1>7, <1>8

(* Pruning spares what an intent without a receipt still needs.            *)
LEMMA PruneStep ==
  ASSUME IInv, Prune
  PROVE  IInv'
<1> USE DEF IInv, document, store, evidence
<1>1. /\ UNCHANGED <<document, store, evidence, worker>>
      /\ job' = [job EXCEPT !.body = FALSE] /\ draft' = NoDigest
      /\ ~Unresolved(job.task)
  BY DEF Prune
<1>2. JobOK' /\ job'.task = job.task /\ job'.status = job.status
  BY <1>1 DEF TypeOK, JobOK, Jobs
<1>3. TypeOK'
  BY <1>1, <1>2 DEF TypeOK
<1>4. AttemptInv' /\ ReachedInv' /\ AnnouncedInv' /\ MarkerInv' /\ ReceiptInv' /\ CompletedInv'
  BY <1>1, <1>2 DEF AttemptInv, ReachedInv, Reached, AnnouncedInv, MarkerInv, ReceiptInv,
     CompletedInv
<1>5. EvidenceKept'
  BY <1>1 DEF EvidenceKept, Unresolved
<1>6. QED
  BY <1>3, <1>4, <1>5

(* Every step keeps the invariant.                                         *)
LEMMA NextIInv == ASSUME IInv, [Next]_vars PROVE IInv'
<1>1. CASE Process \/ MarkReady \/ NextAttempt \/ RetryDue \/ RetentionPasses
             \/ RequestRemoval \/ SendTombstone \/ RemoveRow
  BY <1>1, DocumentSteps
<1>2. CASE Land \/ LandTombstone \/ \E task \in Attempts : CleanUpIntent(task)
  BY <1>2, StoreSteps
<1>3. CASE JobDue \/ LeaseExpires \/ Reconfigure
  BY <1>3, ClockSteps
<1>4. ASSUME NEW w \in Workers, Claim(w) PROVE IInv'
  BY <1>4, ClaimStep
<1>5. ASSUME NEW w \in Workers, WorkerStep(w) PROVE IInv'
  <2>1. CASE Begin(w) \/ Extracted(w) \/ GiveUp(w)
    <3>1. worker' \in [Workers -> Claims]
      BY <2>1, WorkerType DEF Begin, Extracted, GiveUp, IInv, TypeOK, Steps
    <3>2. QED
      BY <2>1, <3>1, WorkerOnly DEF Begin, Extracted, GiveUp
  <2>2. CASE Defer(w)
    BY <2>2, DeferStep
  <2>3. CASE SaveDraft(w)
    BY <2>3, SaveDraftStep
  <2>4. CASE CommitIntent(w)
    BY <2>4, CommitIntentStep
  <2>5. CASE Publish(w)
    BY <2>5, PublishStep
  <2>6. CASE Complete(w)
    <3>1. job.task = attempt
      BY <2>6, HeldClaim DEF Complete
    <3>2. worker' \in [Workers -> Claims]
      BY <2>6, WorkerType DEF Complete, IInv, TypeOK
    <3>3. QED
      BY <2>6, <3>1, <3>2, CompletedStep DEF Complete
  <2>7. QED
    BY <1>5, <2>1, <2>2, <2>3, <2>4, <2>5, <2>6 DEF WorkerStep
<1>6. CASE Reconcile
  BY <1>6, CompletedStep DEF Reconcile, Current, IInv, TypeOK
<1>7. CASE Prune
  BY <1>7, PruneStep
<1>8. CASE UNCHANGED vars
  BY <1>8, WorkerOnly DEF vars, IInv, TypeOK
<1>9. QED
  BY <1>1, <1>2, <1>3, <1>4, <1>5, <1>6, <1>7, <1>8 DEF Next

-----------------------------------------------------------------------------
(* The inductive invariant holds in every reachable state.                 *)
THEOREM Invariance == Spec => []IInv
<1>1. Init => IInv
  BY InitIInv
<1>2. IInv /\ [Next]_vars => IInv'
  BY NextIInv
<1>3. QED
  BY <1>1, <1>2, PTL DEF Spec

(* Every variable keeps its type, and a job never uses more than the tries *)
(* that its document's attempts have left over.                            *)
THEOREM TypeCorrect == Spec => []TypeOK
<1>1. IInv => TypeOK
  BY DEF IInv
<1>2. QED
  BY <1>1, Invariance, PTL

(* Whatever worker dies wherever, each publication that was ever sent is   *)
(* named by a committed intent.                                            *)
THEOREM PublicationsAreAnnounced == Spec => []IntentNamesPublication
<1>1. IInv => IntentNamesPublication
  BY DEF IInv, AnnouncedInv, Publication, IntentNamesPublication
<1>2. QED
  BY <1>1, Invariance, PTL

(* A receipt and a completed job mean that the store committed the graph   *)
(* of the job's draft.                                                     *)
THEOREM ReceiptsAreTrue == Spec => []ReceiptIsTrue
<1>1. IInv => ReceiptIsTrue
  BY DEF IInv, ReceiptInv, CompletedInv, Publication, ReceiptIsTrue
<1>2. QED
  BY <1>1, Invariance, PTL

(* What is needed to finish a publication that may have happened is never  *)
(* pruned.                                                                 *)
THEOREM EvidenceIsKept == Spec => []EvidenceKept
<1>1. IInv => EvidenceKept
  BY DEF IInv
<1>2. QED
  BY <1>1, Invariance, PTL

(* Each step of the jobs is a step of the projection or leaves it alone:   *)
(* a publication is sent for a READY attempt, and always the same one.     *)
LEMMA StepImplements ==
  ASSUME IInv, [Next]_vars
  PROVE  [Projection!Next]_(Projection!vars)
<1> USE DEF Projection!Next, Projection!vars
<1>1. CASE Process
  BY <1>1 DEF Process
<1>2. CASE MarkReady
  BY <1>2 DEF MarkReady
<1>3. CASE NextAttempt
  BY <1>3 DEF NextAttempt
<1>4. CASE RequestRemoval \/ SendTombstone
  BY <1>4 DEF RequestRemoval, SendTombstone
<1>5. CASE Land \/ LandTombstone
  BY <1>5 DEF Land, LandTombstone
<1>6. ASSUME NEW task \in Attempts, CleanUpIntent(task)
      PROVE  Projection!LandTombstone
  BY <1>6 DEF CleanUpIntent
<1>7. ASSUME NEW w \in Workers, Publish(w)
      PROVE  [Projection!Next]_(Projection!vars)
  <2>1. /\ phase = "ready" /\ draft \in Drafts /\ intents[attempt] = draft
        /\ UNCHANGED <<attempt, phase, tombstone, committed, fence, concepts, markers>>
        /\ sent' \in {sent, sent \cup {Projection!Write("publication", draft)}}
    BY <1>7, HeldClaim DEF Publish, document, IInv, TypeOK
  <2>2. \A t \in Projection!SentInMode("publication") : t.digest = draft
    BY <2>1 DEF IInv, AnnouncedInv, Publication, Projection!SentInMode
  <2>3. CASE sent' = sent
    BY <2>1, <2>3
  <2>4. CASE sent' = sent \cup {Projection!Write("publication", draft)}
    BY <2>1, <2>2, <2>4 DEF Projection!SendPublication
  <2>5. QED
    BY <2>1, <2>3, <2>4
<1>8. CASE UNCHANGED <<attempt, phase, store>>
  BY <1>8 DEF store
<1>9. ASSUME NEW w \in Workers, Claim(w) \/ WorkerStep(w), ~Publish(w)
      PROVE  UNCHANGED <<attempt, phase, store>>
  BY <1>9 DEF Claim, WorkerStep, Begin, Extracted, Defer, SaveDraft, CommitIntent, Complete,
     Completed, GiveUp, document
<1>10. CASE RetryDue \/ RetentionPasses \/ RemoveRow \/ JobDue \/ LeaseExpires \/ Reconfigure
              \/ Reconcile \/ Prune \/ UNCHANGED vars
  BY <1>8, <1>10 DEF RetryDue, RetentionPasses, RemoveRow, JobDue, LeaseExpires, Reconfigure,
     Reconcile, Completed, Prune, document, vars
<1>11. QED
  BY <1>1, <1>2, <1>3, <1>4, <1>5, <1>6, <1>7, <1>8, <1>9, <1>10 DEF Next

(* The projection under continuation jobs implements GraphProjection.      *)
THEOREM ImplementsProjection == Spec => ProjectionSpec
<1>1. Init => Projection!Init
  BY DEF Init
<1>2. QED
  BY <1>1, StepImplements, Invariance, PTL DEF Spec, ProjectionSpec, Projection!Spec

(* A job that has stopped is claimed no more.                              *)
THEOREM StoppedJobsStay == Spec => StoppedForGood
<1> DEFINE A == job.status = "stopped" /\ job.task # 0 /\ job'.task = job.task =>
                  \/ job'.status = "stopped" /\ job'.why = job.why
                  \/ job'.status = "completed" /\ job.why = "attempt_limit"
<1>1. IInv /\ [Next]_vars => [A]_vars
  <2> SUFFICES ASSUME IInv, Next, job.status = "stopped", job.task # 0, job'.task = job.task
               PROVE  \/ job'.status = "stopped" /\ job'.why = job.why
                      \/ job'.status = "completed" /\ job.why = "attempt_limit"
    OBVIOUS
  <2>1. CASE UNCHANGED job
    BY <2>1
  <2>2. CASE MarkReady
    <3>1. phase = "active" /\ attempt \in Nat
      BY <2>2, AttemptFacts DEF MarkReady, Projection!MarkReady, IInv, AttemptInv
    <3>2. job' # NewJob(attempt)
      <4>1. job.task # attempt
        BY <3>1 DEF IInv, ReachedInv, Reached
      <4>2. NewJob(attempt).task = attempt
        BY DEF NewJob, NoJob
      <4>3. QED
        BY <4>1, <4>2
    <3>3. QED
      BY <2>1, <2>2, <3>2 DEF MarkReady
  <2>3. CASE RemoveRow
    BY <2>3 DEF RemoveRow, NoJob
  <2>4. CASE JobDue \/ LeaseExpires
    BY <2>4 DEF JobDue, LeaseExpires, IInv, TypeOK, JobOK
  <2>5. CASE Reconfigure \/ Prune
    BY <2>5 DEF Reconfigure, Prune, IInv, TypeOK, JobOK, Jobs
  <2>6. ASSUME NEW w \in Workers, Claim(w)
        PROVE  FALSE
    BY <2>6 DEF Claim, DueNow
  <2>7. ASSUME NEW w \in Workers, WorkerStep(w)
        PROVE  UNCHANGED job
    BY <2>7, HeldClaim DEF WorkerStep, Begin, Extracted, Defer, SaveDraft, CommitIntent, Publish,
       Complete, GiveUp, Holds
  <2>8. CASE Reconcile
    BY <2>8 DEF Reconcile, Exhausted, Completed, IInv, TypeOK, JobOK, Jobs
  <2>9. QED
    BY <2>1, <2>2, <2>3, <2>4, <2>5, <2>6, <2>7, <2>8 DEF Next, Process, NextAttempt, RetryDue,
       RetentionPasses, RequestRemoval, SendTombstone, Land, LandTombstone, CleanUpIntent,
       Unprocessed
<1>2. QED
  BY <1>1, Invariance, PTL DEF Spec, StoppedForGood

-----------------------------------------------------------------------------
(***************************************************************************)
(* What PostgreSQL says of a READY document's graph, and what Neo4j holds. *)
(* The theorems of GraphProjection carry over, because every step of the   *)
(* jobs is one of its steps; what is added here ties the fence's payload   *)
(* to the intent, and the result of the row to the baseline or the receipt.*)
(***************************************************************************)
P == INSTANCE GraphProjectionProofs WITH Digests <- Baselines \cup Drafts

(* An attempt has one baseline.                                            *)
BaselineInv ==
  \A t, u \in sent :
    t.mode = "baseline" /\ u.mode = "baseline" /\ t.generation = u.generation
      => t.digest = u.digest

(* The fence's payload was sent, and without one the concepts are those of *)
(* the baseline.                                                           *)
PayloadInv ==
  /\ fence.payload # NoDigest => Publication(fence.generation, fence.payload) \in sent
  /\ ~fence.aborted /\ ~fence.deleted /\ fence.payload = NoDigest /\ fence.generation # 0 =>
       \E t \in sent : /\ t.mode = "baseline" /\ t.generation = fence.generation
                       /\ concepts = [generation |-> t.generation, digest |-> t.digest]

(* The row counts the graph of the baseline, and after the receipt that of *)
(* the publication.                                                        *)
ResultInv ==
  phase = "ready" =>
    IF attempt \in receipts
    THEN result.digest = intents[attempt]
    ELSE \E t \in sent : /\ t.mode = "baseline" /\ t.generation = attempt
                         /\ t.digest = result.digest

-----------------------------------------------------------------------------
(* The two instances of GraphProjection are the same specification.        *)
LEMMA SameInit == Projection!Init => P!Init
BY DEF Projection!Init, P!Init, Projection!NewFence, P!NewFence, Projection!NoConcepts,
   P!NoConcepts

(* A commit of one instance is a commit of the other.                      *)
LEMMA SameCommit == ASSUME NEW t, Projection!Commit(t) PROVE P!Commit(t)
BY DEF Projection!Commit, P!Commit, Projection!Admits, P!Admits, Projection!SameAttemptAdmits,
   P!SameAttemptAdmits, Projection!Advance, P!Advance, Projection!NoConcepts, P!NoConcepts

(* So is every step.                                                       *)
LEMMA SameNext == [Projection!Next]_(Projection!vars) => [P!Next]_(P!vars)
<1>1. Projection!Land => P!Land
  BY SameCommit DEF Projection!Land, P!Land
<1>2. Projection!LandTombstone => P!LandTombstone
  BY DEF Projection!LandTombstone, P!LandTombstone, Projection!Close, P!Close,
     Projection!NoConcepts, P!NoConcepts
<1>3. Projection!SendBaseline => P!SendBaseline
  BY DEF Projection!SendBaseline, P!SendBaseline, Projection!SentInMode, P!SentInMode,
     Projection!Write, P!Write
<1>4. Projection!SendPublication => P!SendPublication
  BY DEF Projection!SendPublication, P!SendPublication, Projection!SentInMode, P!SentInMode,
     Projection!Write, P!Write
<1>5. Projection!SendAbort \/ Projection!SendTombstone => P!SendAbort \/ P!SendTombstone
  BY DEF Projection!SendAbort, P!SendAbort, Projection!SendTombstone, P!SendTombstone,
     Projection!Write, P!Write
<1>6. Projection!MarkReady \/ Projection!ClaimAgain => P!MarkReady \/ P!ClaimAgain
  BY DEF Projection!MarkReady, P!MarkReady, Projection!ClaimAgain, P!ClaimAgain,
     Projection!SentInMode, P!SentInMode
<1>7. Projection!NextAttempt \/ Projection!MarkFailed \/ Projection!RequestRemoval
        => P!NextAttempt \/ P!MarkFailed \/ P!RequestRemoval
  BY DEF Projection!NextAttempt, P!NextAttempt, Projection!MarkFailed, P!MarkFailed,
     Projection!RequestRemoval, P!RequestRemoval
<1>8. Projection!Next => P!Next
  BY <1>1, <1>2, <1>3, <1>4, <1>5, <1>6, <1>7 DEF Projection!Next, P!Next
<1>9. QED
  BY <1>8 DEF Projection!vars, P!vars

(* The invariant proved of GraphProjection holds under continuation jobs.  *)
THEOREM StoreInvariance == Spec => []P!IInv
<1>1. P!MaxAttemptsAssumption /\ P!NoDigestAssumption /\ P!NoTaskAssumption
  BY MaxAttemptsAssumption, DisjointAssumption, NoTaskAssumption
     DEF P!MaxAttemptsAssumption, P!NoDigestAssumption, P!NoTaskAssumption
<1>2. P!Spec => []P!IInv
  BY <1>1, P!Invariance
<1>3. QED
  BY <1>2, SameInit, SameNext, ImplementsProjection, PTL
     DEF ProjectionSpec, Projection!Spec, P!Spec

-----------------------------------------------------------------------------
(* A second baseline of an attempt is never sent.                          *)
LEMMA BaselineStep ==
  ASSUME P!IInv, BaselineInv, [P!Next]_(P!vars)
  PROVE  BaselineInv'
<1>1. \A t \in sent : t.generation <= attempt
  BY DEF P!IInv, P!SentInv
<1>2. CASE P!SendBaseline
  <2>1. PICK d \in Baselines \cup Drafts : sent' = sent \cup {P!Write("baseline", d)}
    BY <1>2 DEF P!SendBaseline
  <2>2. \A t \in sent : t.mode = "baseline" => t.generation # attempt
    BY <1>2 DEF P!SendBaseline, P!SentInMode
  <2>3. QED
    BY <2>1, <2>2 DEF BaselineInv, P!Write
<1>3. CASE P!SendAbort \/ P!SendPublication
  <2>1. \A t \in sent' : t.mode = "baseline" => t \in sent
    BY <1>3 DEF P!SendAbort, P!SendPublication, P!Write
  <2>2. QED
    BY <2>1 DEF BaselineInv
<1>4. CASE UNCHANGED sent
  BY <1>4 DEF BaselineInv
<1>5. QED
  BY <1>2, <1>3, <1>4 DEF P!Next, P!vars, P!NextAttempt, P!MarkReady, P!MarkFailed, P!ClaimAgain,
     P!RequestRemoval, P!SendTombstone, P!Land, P!Commit, P!LandTombstone

(* A payload is recorded by the commit of its publication, and dropped by a *)
(* newer baseline.                                                         *)
LEMMA PayloadStep ==
  ASSUME P!IInv, PayloadInv, [P!Next]_(P!vars)
  PROVE  PayloadInv'
<1>1. fence \in P!Fences(P!Attempts, Baselines \cup Drafts)
  BY DEF P!IInv, P!TypeOK
<1>2. CASE P!Land
  <2>1. PICK t \in sent : P!Commit(t)
    BY <1>2 DEF P!Land
  <2>2. /\ UNCHANGED sent
        /\ fence'.generation = t.generation
        /\ fence'.payload = IF t.mode = "publication" THEN t.digest ELSE NoDigest
        /\ fence'.aborted = (t.mode = "abort")
        /\ concepts' = IF t.mode = "abort" THEN P!NoConcepts
                       ELSE [generation |-> t.generation, digest |-> t.digest]
    BY <1>1, <2>1 DEF P!Commit, P!Advance, P!Fences
  <2>3. /\ t \in P!Writes(P!Attempts, Baselines \cup Drafts) /\ t.task = t.generation
        /\ t.mode \in {"baseline", "publication", "abort"}
    BY DEF P!IInv, P!TypeOK, P!SentInv, P!Writes, P!Modes
  <2>4. t.mode = "publication" => t = Publication(t.generation, t.digest)
    BY <2>3 DEF P!Writes, Publication
  <2>5. CASE t.mode = "publication"
    <3>1. fence'.payload = t.digest /\ t.digest # NoDigest
      BY <2>2, <2>5 DEF P!IInv, P!SentInv
    <3>2. Publication(fence'.generation, fence'.payload) \in sent'
      BY <2>2, <2>4, <2>5, <3>1
    <3>3. QED
      BY <3>1, <3>2 DEF PayloadInv
  <2>6. CASE t.mode = "baseline"
    BY <2>2, <2>6 DEF PayloadInv
  <2>7. CASE t.mode = "abort"
    BY <2>2, <2>7 DEF PayloadInv
  <2>8. QED
    BY <2>3, <2>5, <2>6, <2>7
<1>3. CASE P!LandTombstone
  BY <1>1, <1>3 DEF P!LandTombstone, P!Close, P!Fences, PayloadInv
<1>4. CASE UNCHANGED <<fence, concepts>> /\ sent \subseteq sent'
  BY <1>4 DEF PayloadInv
<1>5. QED
  BY <1>2, <1>3, <1>4 DEF P!Next, P!vars, P!NextAttempt, P!MarkReady, P!MarkFailed, P!ClaimAgain,
     P!RequestRemoval, P!SendBaseline, P!SendAbort, P!SendPublication, P!SendTombstone

(* The row's digest changes with the baseline and with the receipt.        *)
LEMMA ResultStep ==
  ASSUME IInv, ResultInv, [Next]_vars
  PROVE  ResultInv'
<1>1. CASE MarkReady
  <2>1. PICK t \in Projection!SentInMode("baseline") \cap committed, open, due, limited \in BOOLEAN :
          result' = [digest |-> t.digest, open |-> open, due |-> due /\ ~limited]
    BY <1>1 DEF MarkReady
  <2>2. /\ UNCHANGED <<attempt, sent, receipts>> /\ phase = "active" /\ attempt \in Attempts
    BY <1>1 DEF MarkReady, Projection!MarkReady, evidence, IInv, AttemptInv
  <2>3. attempt \notin receipts
    BY <2>2, AttemptFacts DEF IInv, ReceiptInv, ReachedInv, Reached
  <2>4. QED
    BY <2>1, <2>2, <2>3 DEF ResultInv, Projection!SentInMode
<1>2. ASSUME Completed, job.task = attempt, intents[job.task] = draft
      PROVE  ResultInv'
  BY <1>2 DEF Completed, ResultInv
<1>3. ASSUME NEW w \in Workers, Complete(w)
      PROVE  ResultInv'
  BY <1>2, <1>3, HeldClaim DEF Complete
<1>4. CASE Reconcile
  BY <1>2, <1>4 DEF Reconcile, Current
<1>5. ASSUME NEW w \in Workers, CommitIntent(w)
      PROVE  ResultInv'
  <2>1. /\ UNCHANGED <<attempt, phase, sent, result, receipts>>
        /\ attempt \in Attempts /\ intents \in [Attempts -> Drafts \cup {NoDigest}]
        /\ intents[attempt] \in {NoDigest, draft}
        /\ intents' = [intents EXCEPT ![attempt] = draft]
    BY <1>5, HeldClaim DEF CommitIntent, document, store, IInv, TypeOK
  <2>2. attempt \in receipts => intents'[attempt] = intents[attempt]
    BY <2>1 DEF IInv, ReceiptInv
  <2>3. QED
    BY <2>1, <2>2 DEF ResultInv
<1>6. CASE /\ phase' = "ready" => phase = "ready" /\ attempt' = attempt
                                    /\ result'.digest = result.digest
           /\ UNCHANGED <<intents, receipts>> /\ sent \subseteq sent'
  BY <1>6 DEF ResultInv
<1>7. ASSUME NEW w \in Workers, Claim(w) \/ WorkerStep(w), ~Complete(w), ~CommitIntent(w)
      PROVE  UNCHANGED <<attempt, phase, result, intents, receipts>> /\ sent \subseteq sent'
  BY <1>7 DEF Claim, WorkerStep, Begin, Extracted, Defer, SaveDraft, Publish, GiveUp, document,
     store, evidence
<1>8. CASE Process \/ NextAttempt \/ RequestRemoval \/ SendTombstone \/ RemoveRow \/ RetryDue
  <2>1. result \in Results
    BY DEF IInv, TypeOK
  <2>2. UNCHANGED <<intents, receipts>> /\ sent \subseteq sent'
    BY <1>8 DEF Process, NextAttempt, RequestRemoval, SendTombstone, RemoveRow, RetryDue,
       Unprocessed, evidence, store, Projection!SendBaseline, Projection!SendAbort,
       Projection!MarkFailed, Projection!ClaimAgain, Projection!NextAttempt,
       Projection!RequestRemoval, Projection!SendTombstone
  <2>3. phase' = "ready" => phase = "ready" /\ attempt' = attempt /\ result'.digest = result.digest
    BY <1>8, <2>1 DEF Process, NextAttempt, RequestRemoval, SendTombstone, RemoveRow, RetryDue,
       Results, store, Projection!SendBaseline, Projection!SendAbort, Projection!MarkFailed,
       Projection!ClaimAgain, Projection!NextAttempt, Projection!RequestRemoval,
       Projection!SendTombstone
  <2>4. QED
    BY <1>6, <2>2, <2>3
<1>9. CASE \/ RetentionPasses \/ Land \/ LandTombstone \/ JobDue \/ LeaseExpires \/ Reconfigure
           \/ Prune \/ UNCHANGED vars \/ \E task \in Attempts : CleanUpIntent(task)
  <2>1. UNCHANGED <<attempt, phase, result, intents, receipts, sent>>
    BY <1>9 DEF RetentionPasses, Land, LandTombstone, JobDue, LeaseExpires, Reconfigure, Prune,
       CleanUpIntent, Unprocessed, document, evidence, store, vars, Projection!Land,
       Projection!Commit, Projection!LandTombstone
  <2>2. QED
    BY <1>6, <2>1
<1>10. QED
  BY <1>1, <1>3, <1>4, <1>5, <1>6, <1>7, <1>8, <1>9 DEF Next

SInv == BaselineInv /\ PayloadInv /\ ResultInv

(* The baseline, the fence's payload and the row's result agree in every   *)
(* reachable state.                                                        *)
THEOREM StoreAndResult == Spec => []SInv
<1>1. Init => SInv
  BY DEF Init, Projection!Init, Projection!NewFence, SInv, BaselineInv, PayloadInv, ResultInv
<1>2. IInv /\ P!IInv /\ SInv /\ [Next]_vars => SInv'
  <2> SUFFICES ASSUME IInv, P!IInv, SInv, [Next]_vars PROVE SInv'
    OBVIOUS
  <2>1. [P!Next]_(P!vars)
    BY StepImplements, SameNext
  <2>2. QED
    BY <2>1, BaselineStep, PayloadStep, ResultStep DEF SInv
<1>3. QED
  BY <1>1, <1>2, Invariance, StoreInvariance, PTL DEF Spec

(* What a READY row says of its graph is what the store shows, or an       *)
(* intent without a receipt names what the store shows instead.            *)
THEOREM ResultIsTrue == Spec => []ResultDescribesGraph
<1>1. IInv /\ P!IInv /\ SInv => ResultDescribesGraph
  <2> SUFFICES ASSUME IInv, P!IInv, SInv, phase = "ready", Projection!SentInMode("abort") = {}
               PROVE  \/ concepts = [generation |-> attempt, digest |-> result.digest]
                      \/ /\ Unresolved(attempt)
                         /\ concepts = [generation |-> attempt, digest |-> intents[attempt]]
    BY DEF ResultDescribesGraph
  <2> USE DEF SInv
  <2>1. fence.generation = attempt /\ ~fence.deleted /\ ~fence.aborted
    <3>1. P!MaxAttemptsAssumption /\ P!NoDigestAssumption /\ P!NoTaskAssumption
      BY MaxAttemptsAssumption, DisjointAssumption, NoTaskAssumption
         DEF P!MaxAttemptsAssumption, P!NoDigestAssumption, P!NoTaskAssumption
    <3>2. P!SentInMode("abort") = {}
      BY DEF P!SentInMode, Projection!SentInMode
    <3>3. QED
      BY <3>1, <3>2, P!ReadyHoldsFence
  <2>2. attempt \in Attempts /\ attempt # 0
    BY AttemptFacts DEF IInv, AttemptInv
  <2>3. CASE fence.payload # NoDigest
    <3>1. concepts = [generation |-> attempt, digest |-> fence.payload]
      BY <2>1, <2>2, <2>3 DEF P!IInv, P!StoreInv
    <3>2. fence.payload = intents[attempt] /\ intents[attempt] # NoDigest
      BY <2>1, <2>3 DEF PayloadInv, IInv, AnnouncedInv, Publication
    <3>3. attempt \in receipts => result.digest = intents[attempt]
      BY DEF ResultInv
    <3>4. QED
      BY <3>1, <3>2, <3>3 DEF Unresolved
  <2>4. CASE fence.payload = NoDigest
    <3>1. attempt \notin receipts
      <4> SUFFICES ASSUME attempt \in receipts PROVE FALSE
        OBVIOUS
      <4>1. intents[attempt] # NoDigest /\ Publication(attempt, intents[attempt]) \in committed
        BY DEF IInv, ReceiptInv
      <4>2. fence.payload = Publication(attempt, intents[attempt]).digest
        BY <2>1, <4>1 DEF P!IInv, P!FenceInv, Publication
      <4>3. QED
        BY <2>4, <4>1, <4>2 DEF Publication
    <3>2. PICK t \in sent : /\ t.mode = "baseline" /\ t.generation = attempt
                            /\ t.digest = result.digest
      BY <3>1 DEF ResultInv
    <3>3. PICK u \in sent : /\ u.mode = "baseline" /\ u.generation = attempt
                            /\ concepts = [generation |-> attempt, digest |-> u.digest]
      BY <2>1, <2>2, <2>4 DEF PayloadInv
    <3>4. QED
      BY <3>2, <3>3 DEF BaselineInv
  <2>5. QED
    BY <2>3, <2>4
<1>2. QED
  BY <1>1, Invariance, StoreInvariance, StoreAndResult, PTL
=============================================================================
