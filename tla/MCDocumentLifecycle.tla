------------------------ MODULE MCDocumentLifecycle ------------------------
(* TLC instances of DocumentLifecycle: two processes a and b.  With one    *)
(* worker each a worker is named like its process, and the two can be      *)
(* exchanged; two workers in a are where the coordinator's own races are.  *)
EXTENDS DocumentLifecycle, TLC

CONSTANTS a, b, a1, a2

TwoInstances == {a, b}
OneWorkerEach == {a, b}
TwoWorkersOnA == {a1, a2, b}
HomeOf == [w \in Workers |-> IF w = b THEN b ELSE a]

ProcessSymmetry == Permutations({a, b})
WorkerSymmetry == Permutations({a1, a2})

AllButDeleteAll == OpKinds \ {"delete_all"}
OnlyUpsert == {"upsert"}
OnlyDeleteAll == {"delete_all"}
OnlyAbort == {"abort"}
=============================================================================
