------------------------------- MODULE Retention -------------------------------
(***************************************************************************)
(* The retention loop of one process (DemoRetentionService): each round    *)
(* takes up the removals that were asked for, the documents that expired,  *)
(* the graph intents and the vectors of documents that are gone.  Every    *)
(* discovery is bounded, items fail, and meanwhile users remove and retry  *)
(* documents.  A document is its place in the order of creation.           *)
(***************************************************************************)
EXTENDS Integers, Sequences, FiniteSets, SequencesExt

CONSTANTS Documents,
          Sample,           \* those of the public sample course
          Published,        \* those with a graph intent that has no receipt
          Broken,           \* those whose remote cleanup always fails
          Protected,        \* require_upload_auth
          Limit,            \* of each discovery; in the code 50, and 100 for expired documents
          MaxEvents         \* bound on the retries, deletions, late writes, failures and stops

RetentionAssumption ==
  /\ Documents \subseteq Nat /\ IsFiniteSet(Documents)
  /\ Sample \subseteq Documents /\ Published \subseteq Documents /\ Broken \subseteq Documents
  /\ Protected \in BOOLEAN /\ Limit \in Nat /\ Cardinality(Broken) < Limit
  /\ MaxEvents \in Nat

VARIABLES row,         \* "active": a stage that is not in DELETABLE_STAGES
          expired,     \* created before the cutoff
          flagged,     \* deletion_requested
          intents,     \* intents without a cleanup receipt
          tombs,       \* the vector tombstones, in the order of next_attempt_at
          dirty,       \* documents whose vectors were written after their removal
          holder,      \* who holds the admission lock to remove which document
          round,       \* the loop: its sweep, and what that has still to do
          events       \* how many of them have happened

vars == <<row, expired, flagged, intents, tombs, dirty, holder, round, events>>

Sweeps == <<"pending", "expired", "intents", "vectors">>
Nobody == [by |-> "nobody", doc |-> 0]
Waiting == [sweep |-> 0, todo |-> <<>>]

Init ==
  /\ row = [ d \in Documents |-> "settled" ]
  /\ expired = {} /\ flagged = {} /\ dirty = {}
  /\ intents = Published
  /\ tombs = <<>>
  /\ holder = Nobody
  /\ round = Waiting
  /\ events = 0

Event == events < MaxEvents /\ events' = events + 1

\* The broken documents always fail, anything may fail a few times.
MayFail(broken) == IF broken THEN UNCHANGED events ELSE Event

-----------------------------------------------------------------------------
\* The documents and their users.

Age(d) ==
  /\ d \notin expired /\ \A older \in Documents : older < d => older \in expired
  /\ expired' = expired \cup {d}
  /\ UNCHANGED <<row, flagged, intents, tombs, dirty, holder, round, events>>

\* A retry waits for the admission lock, and is refused for a document that is to be removed.
Retry(d) ==
  /\ row[d] = "settled" /\ d \notin flagged /\ holder = Nobody
  /\ row' = [row EXCEPT ![d] = "active"]
  /\ Event
  /\ UNCHANGED <<expired, flagged, intents, tombs, dirty, holder, round>>

Settle(d) ==
  /\ row[d] = "active"
  /\ row' = [row EXCEPT ![d] = "settled"]
  /\ UNCHANGED <<expired, flagged, intents, tombs, dirty, holder, round, events>>

\* The tombstones of the document are due at once, where others may have been put off.
Stage(d) ==
  IF d \in ToSet(tombs) THEN UNCHANGED tombs
  ELSE \E i \in 1 .. Len(tombs) + 1 : tombs' = InsertAt(tombs, i, d)

\* lock_for_deletion, up to its commit.
Flag(d) ==
  /\ row[d] = "settled" /\ holder = Nobody
  /\ flagged' = flagged \cup {d}
  /\ Stage(d)

\* Its second half, with the lock anew.
Hold(by, d) ==
  /\ row[d] = "settled" /\ d \in flagged /\ holder = Nobody
  /\ holder' = [by |-> by, doc |-> d]

Request(d) ==
  /\ d \notin flagged /\ Flag(d)
  /\ UNCHANGED <<row, expired, intents, dirty, holder, round, events>>

\* A DELETE of the document, or the same one again.
UserHolds(d) ==
  /\ Hold("user", d)
  /\ Event
  /\ UNCHANGED <<row, expired, flagged, intents, tombs, dirty, round>>

\* A request of an execution that is gone arrives late.
LateWrite(d) ==
  /\ row[d] = "gone"
  /\ dirty' = dirty \cup {d}
  /\ Event
  /\ UNCHANGED <<row, expired, flagged, intents, tombs, holder, round>>

-----------------------------------------------------------------------------
\* The loop.

At(sweep) == round.sweep # 0 /\ Sweeps[round.sweep] = sweep
Removing == At("pending") \/ At("expired")
Item(d) == round.todo # <<>> /\ d = Head(round.todo) /\ holder.by # "sweep"
Rest == [round EXCEPT !.todo = Tail(@)]

First(s) == SubSeq(s, 1, IF Len(s) < Limit THEN Len(s) ELSE Limit)
Oldest(S) == First(SetToSortSeq(S, <))

Removals == { d \in Documents : row[d] = "settled" }
Gone == { d \in Documents : row[d] = "gone" }

Pending == Oldest(flagged \cap Removals)
Expired == IF Protected THEN Oldest((expired \ Sample) \cap Removals) ELSE <<>>
Uncleaned == Oldest(intents \cap Gone)
Due == First(SelectSeq(tombs, LAMBDA d : d \in Gone))

Found(sweep) ==
  CASE sweep = "pending" -> Pending [] sweep = "expired" -> Expired
    [] sweep = "intents" -> Uncleaned [] sweep = "vectors" -> Due

\* A sweep has ended, or the time to wait; a discovery that fails finds nothing.
Discover(sweep, found) ==
  /\ round.todo = <<>> /\ sweep = (round.sweep + 1) % 5
  /\ round' = IF sweep = 0 THEN Waiting ELSE [sweep |-> sweep, todo |-> found]
  /\ UNCHANGED <<row, expired, flagged, intents, tombs, dirty, holder>>
Discovers(sweep) ==
  Discover(sweep, IF sweep = 0 THEN <<>> ELSE Found(Sweeps[sweep])) /\ UNCHANGED events
DiscoveryFails(sweep) == sweep # 0 /\ Discover(sweep, <<>>) /\ MayFail(FALSE)

\* The document is not what it was when it was found.
Skip(d) ==
  /\ Removing /\ Item(d) /\ row[d] # "settled"
  /\ round' = Rest
  /\ UNCHANGED <<row, expired, flagged, intents, tombs, dirty, holder, events>>

SweepFlags(d) ==
  /\ Removing /\ Item(d) /\ d \notin flagged /\ Flag(d)
  /\ UNCHANGED <<row, expired, intents, dirty, holder, round, events>>

SweepHolds(sweep, d) ==
  /\ At(sweep) /\ Removing /\ Item(d) /\ Hold("sweep", d)
  /\ UNCHANGED <<row, expired, flagged, intents, tombs, dirty, round, events>>

\* An exception before the lock is held ends the expiry sweep, which has one session for all.
LockFails(d) ==
  /\ Removing /\ Item(d) /\ row[d] = "settled" /\ holder = Nobody
  /\ round' = IF At("expired") THEN [round EXCEPT !.todo = <<>>] ELSE Rest
  /\ MayFail(FALSE)
  /\ UNCHANGED <<row, expired, flagged, intents, tombs, dirty, holder>>

(* A variant with a plausible bug: an item that fails ends its sweep.       *)
ReleaseAborting(failed) ==
  /\ holder' = Nobody
  /\ round' = CASE holder.by # "sweep" -> round
                [] holder.by = "sweep" /\ failed -> [round EXCEPT !.todo = <<>>]
                [] holder.by = "sweep" /\ ~failed -> Rest

\* The lock is released; a sweep goes on with its next item, whatever came of this one.
Release(failed) ==
  /\ holder' = Nobody
  /\ round' = IF holder.by = "sweep" THEN Rest ELSE round

\* The vectors, the graph, the object if no other row has it, and the row.
Delete(d) ==
  /\ holder.doc = d /\ d \notin Broken
  /\ row' = [row EXCEPT ![d] = "gone"]
  /\ Release(FALSE)
  /\ UNCHANGED <<expired, flagged, intents, tombs, dirty, events>>

\* A step of it fails, or its user's process is killed.
RemovalFails ==
  /\ holder # Nobody /\ Release(TRUE)
  /\ MayFail(holder.doc \in Broken)
  /\ UNCHANGED <<row, expired, flagged, intents, tombs, dirty>>

\* reconcile_deleted_source_publication.
CleanIntent(d) ==
  /\ At("intents") /\ Item(d) /\ d \notin Broken
  /\ intents' = intents \ {d} /\ round' = Rest
  /\ UNCHANGED <<row, expired, flagged, tombs, dirty, holder, events>>

IntentFails(d) ==
  /\ At("intents") /\ Item(d)
  /\ round' = Rest
  /\ MayFail(d \in Broken)
  /\ UNCHANGED <<row, expired, flagged, intents, tombs, dirty, holder>>

\* VectorCleanupService.reconcile: it yields to whoever has the lock; else the tombstone is put
\* off, its check having succeeded or not.
PutOff(d) == tombs' = Append(SelectSeq(tombs, LAMBDA e : e # d), d)

Check(d) ==
  /\ At("vectors") /\ Item(d) /\ holder = Nobody /\ d \notin Broken
  /\ PutOff(d) /\ dirty' = dirty \ {d} /\ round' = Rest
  /\ UNCHANGED <<row, expired, flagged, intents, holder, events>>

CheckFails(d) ==
  /\ At("vectors") /\ Item(d) /\ holder = Nobody
  /\ PutOff(d) /\ round' = Rest
  /\ MayFail(d \in Broken)
  /\ UNCHANGED <<row, expired, flagged, intents, dirty, holder>>

Yield(d) ==
  /\ At("vectors") /\ Item(d) /\ holder # Nobody
  /\ round' = Rest
  /\ UNCHANGED <<row, expired, flagged, intents, tombs, dirty, holder, events>>

\* The process stops; when it starts again, the loop begins anew.
Stop ==
  /\ round' = Waiting
  /\ holder' = IF holder.by = "sweep" THEN Nobody ELSE holder
  /\ Event
  /\ UNCHANGED <<row, expired, flagged, intents, tombs, dirty>>

Loop ==
  \/ \E sweep \in 0 .. 4 : Discovers(sweep) \/ DiscoveryFails(sweep)
  \/ \E d \in Documents :
       \/ Skip(d) \/ SweepFlags(d) \/ LockFails(d) \/ \E sweep \in {"pending", "expired"} : SweepHolds(sweep, d)
       \/ CleanIntent(d) \/ IntentFails(d) \/ Check(d) \/ CheckFails(d) \/ Yield(d)
Removal == RemovalFails \/ \E d \in Documents : Delete(d)
Others == \E d \in Documents :
  Age(d) \/ Retry(d) \/ Settle(d) \/ Request(d) \/ UserHolds(d) \/ LateWrite(d)

Next == Loop \/ Removal \/ Others \/ Stop

Spec == Init /\ [][Next]_vars

\* The loop goes on; a request that holds the lock ends, and so does a document's processing.
Fairness == WF_vars(Loop) /\ WF_vars(Removal) /\ \A d \in Documents : WF_vars(Settle(d))

FairSpec == Spec /\ Fairness

-----------------------------------------------------------------------------
(***************************************************************************)
(* Broken documents hold nobody up, as long as they are fewer than a       *)
(* discovery takes: each other removal that was asked for is completed,    *)
(* each other expired document is removed unless it is of the sample, and  *)
(* once a document is gone its graph intent gets its receipt and vectors   *)
(* that were written late are deleted.                                     *)
(***************************************************************************)
EveryRemovalEnds ==
  \A d \in Documents \ Broken :
    /\ (d \in flagged \/ (Protected /\ d \in expired \ Sample)) ~> row[d] = "gone"
    /\ row[d] = "gone" ~> d \notin intents
    /\ d \in dirty ~> d \notin dirty
===============================================================================
