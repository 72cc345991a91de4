------------------------------ MODULE MCRemoval ------------------------------
(***************************************************************************)
(* How removals end: one document whose removal fails at any of its steps  *)
(* beside requests of dead executions (DocumentLifecycle), and the loop    *)
(* that takes up the removals of several documents (Retention).  Each      *)
(* behaviour is of one "part", and the variables of the other stay as they *)
(* are at first.                                                           *)
(***************************************************************************)
EXTENDS DocumentLifecycle

CONSTANT a

VARIABLES part,
          status, expired, flagged, intents, tombs, dirty, holder, round, events

\* One process with one worker, and an upsert that may come late.
OneProcess == {a}
AtHome == [w \in Workers |-> w]
OnlyUpsert == {"upsert"}

\* The oldest document cannot be cleaned up, the newest is the sample; discoveries of two.
loopVars == <<status, expired, flagged, intents, tombs, dirty, holder, round, events>>
Rounds == INSTANCE Retention WITH
  row <- status, Documents <- 1 .. 3, Sample <- {3}, Published <- {2}, Broken <- {1},
  Protected <- TRUE, Limit <- 2, MaxEvents <- 2

ASSUME Rounds!RetentionAssumption

MCInit == part \in {"loop", "document"} /\ Init /\ Rounds!Init

MCNext ==
  \/ part = "loop" /\ Rounds!Next /\ UNCHANGED <<part, vars>>
  \/ part = "document" /\ Next /\ UNCHANGED <<part, loopVars>>

\* The fairness of each module, for the behaviours of its part.
MCFairness ==
  /\ WF_loopVars(part = "loop" /\ Rounds!Loop) /\ WF_loopVars(part = "loop" /\ Rounds!Removal)
  /\ \A d \in 1 .. 3 : WF_loopVars(part = "loop" /\ Rounds!Settle(d))
  /\ WF_vars(part = "document" /\ Recover(a))
  /\ WF_vars(part = "document" /\ Dispatch(a))
  /\ WF_vars(part = "document" /\ (Claim(a) \/ ClaimRefused(a)))
  /\ SF_vars(part = "document" /\ Claim(a))
  /\ WF_vars(part = "document" /\ WorkerStep(a))
  /\ WF_vars(part = "document" /\ LeaseExpires)
  /\ WF_vars(part = "document" /\ row.deleting /\ RequestRemoval)
  /\ \A store \in {"vectors", "graph", "object"} :
       SF_vars(part = "document" /\ remover = store /\ RemoveRemote)
  /\ SF_vars(part = "document" /\ RemoveRow)
  /\ \A task \in 1 .. 2 : WF_vars(part = "document" /\ SweepVectors(task))

MCSpec == MCInit /\ [][MCNext]_<<part, vars, loopVars>> /\ MCFairness

\* Retention: each removal, expiry, intent and late vector is dealt with, but for broken documents.
EveryRemovalEnds == Rounds!EveryRemovalEnds
===============================================================================
