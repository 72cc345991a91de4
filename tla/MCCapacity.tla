----------------------------- MODULE MCCapacity -----------------------------
(***************************************************************************)
(* Continuation jobs: of one document, with its graph (GraphContinuation), *)
(* or of two, with their bytes (GraphCapacity), whose snapshots and drafts *)
(* would not both fit.  Each behaviour is of one "part", and the variables *)
(* of the other stay as they are at first.                                 *)
(***************************************************************************)
EXTENDS MCGraphContinuation

VARIABLES part, ready, body, lock, transaction

bytesVars == <<ready, body, lock, transaction>>

Bytes == INSTANCE GraphCapacity WITH
  document <- ready, job <- body, Documents <- {d1, d2}, Processes <- Workers, Sizes <- {1, 2},
  MaxJobs <- 0, MaxBytes <- 3, MaxDrafts <- 1, MaxDraftBytes <- 1, MaxTasks <- 2

ASSUME Bytes!CapacityAssumption

MCInit == part \in {"job", "bytes"} /\ Init /\ Bytes!Init

MCNext ==
  \/ part = "job" /\ Next /\ UNCHANGED <<part, bytesVars>>
  \/ part = "bytes" /\ Bytes!Next /\ UNCHANGED <<part, vars>>

MCSpec == MCInit /\ [][MCNext]_<<part, vars, bytesVars>>

\* GraphCapacity: snapshots and drafts never take more than their capacity.
CapacityKept == Bytes!CapacityKept
=============================================================================
