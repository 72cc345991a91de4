----------------------------- MODULE MCGraphJobs -----------------------------
(***************************************************************************)
(* A graph job until it ends (GraphContinuation), and what it waits for:   *)
(* the calls of a process to its providers (ProviderFailover).  Each       *)
(* behaviour is of one "part", and the variables of the other stay as they *)
(* are at first.                                                           *)
(***************************************************************************)
EXTENDS ProviderFailover

CONSTANTS w1, b1, d1, NoTask, NoDigest

VARIABLES part,
          attempt, phase, sent, tombstone, committed, fence, concepts, markers,
          result, aged, gone, job, draft, intents, receipts, cleanups, worker

callVars == <<now, blocked, call, failing, told, overtaken>>

jobVars == <<attempt, phase, sent, tombstone, committed, fence, concepts, markers,
             result, aged, gone, job, draft, intents, receipts, cleanups, worker>>
Jobs == INSTANCE GraphContinuation WITH
  Workers <- {w1}, Baselines <- {b1}, Drafts <- {d1}, MaxAttempts <- 3, DocumentAttempts <- 2

MCInit == part \in {"calls", "job"} /\ Init /\ Jobs!Init

MCNext ==
  \/ part = "calls" /\ Next /\ UNCHANGED <<part, jobVars>>
  \/ part = "job" /\ Jobs!Next /\ UNCHANGED <<part, callVars>>

\* The fairness of GraphContinuation: no property of the calls rests on any.
MCSpec == MCInit /\ [][MCNext]_<<part, callVars, jobVars>> /\ Jobs!Fairness

\* GraphContinuation: a job ends.
JobEnds == Jobs!JobEnds

\* GraphContinuation: a publication that was announced is acknowledged or cleaned up.
IntentsAreClosed == Jobs!IntentsAreClosed
===============================================================================
