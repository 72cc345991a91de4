----------------------- MODULE GraphProjectionProofs -----------------------
(***************************************************************************)
(* Theorems about GraphProjection for every number of attempts and every   *)
(* set of digests.  The properties are not inductive by themselves: that a *)
(* READY upload shows its own attempt rests on what the fence remembers of *)
(* every transaction the store ever committed, which IInv spells out.      *)
(***************************************************************************)
EXTENDS GraphProjection, TLAPS

(* A transaction names an attempt that existed when it started, and that   *)
(* attempt's own task.                                                     *)
SentInv ==
  /\ \A w \in sent : w.generation <= attempt /\ w.task = w.generation
  /\ \A w \in sent : w.mode = "abort" <=> w.digest = NoDigest

(* The fence has seen everything that committed, and nothing else; what it *)
(* remembers of its own generation was sent by that generation.            *)
FenceInv ==
  /\ fence.generation <= attempt
  /\ fence.generation # 0 => fence.task = fence.generation
  /\ \A w \in committed : w.generation <= fence.generation
  /\ \A w \in committed :
       w.mode = "publication" /\ w.generation = fence.generation => fence.payload = w.digest
  /\ \A w \in sent : w.mode = "publication" => w.generation <= fence.generation
  /\ fence.aborted =>
       /\ \E w \in sent : w.mode = "abort" /\ w.generation = fence.generation
       /\ fence.payload = NoDigest
  /\ tombstone \/ fence.deleted => phase = "removing"

(* The projection and its markers are what the fence says was written last.*)
StoreInv ==
  IF fence.deleted \/ fence.aborted \/ fence.generation = 0
  THEN concepts = NoConcepts /\ markers = {}
  ELSE IF fence.payload # NoDigest
       THEN /\ concepts = [generation |-> fence.generation, digest |-> fence.payload]
            /\ markers \subseteq {concepts}
       ELSE concepts.generation = fence.generation /\ markers = {}

(* PostgreSQL declares READY only on an acknowledged baseline.             *)
ReadyInv == phase = "ready" => SentInMode("baseline") \cap committed # {}

IInv == TypeOK /\ SentInv /\ FenceInv /\ StoreInv /\ ReadyInv

-----------------------------------------------------------------------------
(* An admitted transaction leaves a fence of the right type, at its own    *)
(* generation, which is no older than the one before.                      *)
LEMMA AdvanceType ==
  ASSUME NEW f \in Fences(Attempts, Digests), NEW w \in Writes(Attempts, Digests),
         Admits(f, w)
  PROVE  /\ Advance(f, w) \in Fences(Attempts, Digests)
         /\ f.generation <= w.generation
         /\ ~f.deleted
         /\ Advance(f, w).generation = w.generation
         /\ Advance(f, w).task = w.task
         /\ Advance(f, w).deleted = f.deleted
         /\ Advance(f, w).aborted = (w.mode = "abort")
         /\ Advance(f, w).payload = IF w.mode = "publication" THEN w.digest ELSE NoDigest
<1>1. /\ w.generation \in Nat /\ w.task \in Attempts /\ w.digest \in Digests \cup {NoDigest}
      /\ f.generation \in Nat
  BY DEF Fences, Writes
<1>2. f.generation <= w.generation /\ ~f.deleted
  BY <1>1 DEF Admits, SameAttemptAdmits
<1>3. (w.mode = "abort") \in BOOLEAN
  OBVIOUS
<1>4. Advance(f, w) \in Fences(Attempts, Digests)
  BY <1>1, <1>3 DEF Fences, Advance
<1>5. /\ Advance(f, w).generation = w.generation
      /\ Advance(f, w).task = w.task
      /\ Advance(f, w).deleted = f.deleted
      /\ Advance(f, w).payload = IF w.mode = "publication" THEN w.digest ELSE NoDigest
  BY DEF Fences, Advance
<1>6. Advance(f, w).aborted = (w.mode = "abort")
  BY DEF Fences, Advance
<1>7. QED
  BY <1>2, <1>4, <1>5, <1>6

LEMMA CloseType ==
  ASSUME NEW f \in Fences(Attempts, Digests)
  PROVE  /\ Close(f) \in Fences(Attempts, Digests)
         /\ Close(f).deleted
         /\ Close(f).generation = f.generation
         /\ Close(f).task = f.task
         /\ Close(f).aborted = f.aborted
         /\ Close(f).payload = f.payload
BY DEF Fences, Close

LEMMA WriteType ==
  ASSUME attempt \in Attempts, NEW m \in Modes, NEW d \in Digests \cup {NoDigest}
  PROVE  /\ Write(m, d) \in Writes(Attempts, Digests)
         /\ Write(m, d).mode = m
         /\ Write(m, d).generation = attempt
         /\ Write(m, d).task = attempt
         /\ Write(m, d).digest = d
BY MaxAttemptsAssumption DEF Write, Writes, Attempts

LEMMA InitIInv == Init => IInv
<1> SUFFICES ASSUME Init PROVE IInv
  OBVIOUS
<1>1. attempt \in Attempts /\ fence = NewFence /\ sent = {} /\ committed = {} /\ markers = {}
  BY MaxAttemptsAssumption DEF Init, Attempts
<1>2. NewFence \in Fences(Attempts, Digests) /\ NoConcepts \in Stamps
  BY DEF NewFence, Fences, NoConcepts, Stamps
<1>3. TypeOK
  BY <1>1, <1>2 DEF Init, TypeOK, Phases
<1>4. SentInv /\ FenceInv /\ StoreInv /\ ReadyInv
  BY <1>1 DEF Init, SentInv, FenceInv, StoreInv, ReadyInv, NewFence, Attempts
<1>5. QED
  BY <1>3, <1>4 DEF IInv

(* PostgreSQL's own steps leave the store alone; what they can disturb is  *)
(* the relation of the counter and the phase to what was sent.             *)
LEMMA RowSteps ==
  ASSUME IInv, NextAttempt \/ MarkReady \/ MarkFailed \/ ClaimAgain \/ RequestRemoval
  PROVE  IInv'
<1> USE DEF IInv
<1>1. CASE NextAttempt
  <2>1. TypeOK'
    BY <1>1, MaxAttemptsAssumption DEF NextAttempt, TypeOK, Attempts, Phases
  <2>2. SentInv'
    <3>1. \A w \in sent : w.generation \in Nat
      BY DEF TypeOK, Writes
    <3>2. QED
      BY <1>1, <3>1 DEF NextAttempt, SentInv, TypeOK, Attempts
  <2>3. FenceInv'
    <3>1. fence.generation \in Nat
      BY DEF TypeOK, Fences
    <3>2. QED
      BY <1>1, <3>1 DEF NextAttempt, FenceInv, TypeOK, Attempts
  <2>4. StoreInv' /\ ReadyInv'
    BY <1>1 DEF NextAttempt, StoreInv, ReadyInv
  <2>5. QED
    BY <2>1, <2>2, <2>3, <2>4
<1>2. CASE MarkReady
  BY <1>2 DEF MarkReady, TypeOK, Phases, SentInv, FenceInv, StoreInv, ReadyInv, SentInMode
<1>3. CASE MarkFailed
  BY <1>3 DEF MarkFailed, TypeOK, Phases, SentInv, FenceInv, StoreInv, ReadyInv
<1>4. CASE ClaimAgain
  BY <1>4 DEF ClaimAgain, TypeOK, Phases, SentInv, FenceInv, StoreInv, ReadyInv
<1>5. CASE RequestRemoval
  BY <1>5 DEF RequestRemoval, TypeOK, Phases, SentInv, FenceInv, StoreInv, ReadyInv
<1>6. QED
  BY <1>1, <1>2, <1>3, <1>4, <1>5

(* A READY upload's attempt already holds the fence: its baseline          *)
(* committed.                                                              *)
LEMMA ReadyHoldsFence ==
  ASSUME IInv, phase = "ready"
  PROVE  /\ fence.generation = attempt /\ ~fence.deleted
         /\ SentInMode("abort") = {} => ~fence.aborted
<1>1. attempt \in Nat /\ fence.generation \in Nat
  BY DEF IInv, TypeOK, Attempts, Fences
<1>2. PICK w \in SentInMode("baseline") : w \in committed
  BY DEF IInv, ReadyInv
<1>3. w.generation = attempt
  BY <1>2 DEF SentInMode
<1>4. fence.generation = attempt
  BY <1>1, <1>2, <1>3 DEF IInv, FenceInv
<1>5. SentInMode("abort") = {} => ~fence.aborted
  BY <1>4 DEF IInv, FenceInv, SentInMode
<1>6. QED
  BY <1>4, <1>5 DEF IInv, FenceInv

(* Starting a transaction only adds to what may land.                      *)
LEMMA SendSteps ==
  ASSUME IInv, SendBaseline \/ SendAbort \/ SendPublication \/ SendTombstone
  PROVE  IInv'
<1> USE DEF IInv
<1>1. attempt \in Attempts /\ attempt \in Nat /\ "baseline" \in Modes /\ "abort" \in Modes
      /\ "publication" \in Modes
  BY DEF TypeOK, Attempts, Modes
<1>2. CASE SendBaseline
  <2>1. PICK d \in Digests : sent' = sent \cup {Write("baseline", d)}
    BY <1>2 DEF SendBaseline
  <2>2. /\ Write("baseline", d) \in Writes(Attempts, Digests)
        /\ Write("baseline", d).mode = "baseline"
        /\ Write("baseline", d).generation = attempt
        /\ Write("baseline", d).task = attempt
        /\ Write("baseline", d).digest = d
        /\ d # NoDigest
    BY <1>1, WriteType, NoDigestAssumption
  <2>3. TypeOK'
    BY <1>2, <2>1, <2>2 DEF SendBaseline, TypeOK
  <2>4. SentInv'
    BY <1>1, <1>2, <2>1, <2>2 DEF SendBaseline, SentInv
  <2>5. FenceInv'
    BY <1>2, <2>1, <2>2 DEF SendBaseline, FenceInv
  <2>6. StoreInv' /\ ReadyInv'
    BY <1>2 DEF SendBaseline, StoreInv, ReadyInv
  <2>7. QED
    BY <2>3, <2>4, <2>5, <2>6
<1>3. CASE SendAbort
  <2>1. sent' = sent \cup {Write("abort", NoDigest)}
    BY <1>3 DEF SendAbort
  <2>2. /\ Write("abort", NoDigest) \in Writes(Attempts, Digests)
        /\ Write("abort", NoDigest).mode = "abort"
        /\ Write("abort", NoDigest).generation = attempt
        /\ Write("abort", NoDigest).task = attempt
        /\ Write("abort", NoDigest).digest = NoDigest
    BY <1>1, WriteType
  <2>3. TypeOK'
    BY <1>3, <2>1, <2>2 DEF SendAbort, TypeOK, Phases
  <2>4. SentInv'
    BY <1>1, <1>3, <2>1, <2>2 DEF SendAbort, SentInv
  <2>5. FenceInv'
    BY <1>3, <2>1, <2>2 DEF SendAbort, FenceInv
  <2>6. StoreInv' /\ ReadyInv'
    BY <1>3 DEF SendAbort, StoreInv, ReadyInv
  <2>7. QED
    BY <2>3, <2>4, <2>5, <2>6
<1>4. CASE SendPublication
  <2>1. PICK d \in Digests : sent' = sent \cup {Write("publication", d)}
    BY <1>4 DEF SendPublication
  <2>2. /\ Write("publication", d) \in Writes(Attempts, Digests)
        /\ Write("publication", d).mode = "publication"
        /\ Write("publication", d).generation = attempt
        /\ Write("publication", d).task = attempt
        /\ Write("publication", d).digest = d
        /\ d # NoDigest
    BY <1>1, WriteType, NoDigestAssumption
  <2>3. fence.generation = attempt
    BY <1>4, ReadyHoldsFence DEF SendPublication
  <2>4. TypeOK'
    BY <1>4, <2>1, <2>2 DEF SendPublication, TypeOK
  <2>5. SentInv'
    BY <1>1, <1>4, <2>1, <2>2 DEF SendPublication, SentInv
  <2>6. FenceInv'
    BY <1>1, <1>4, <2>1, <2>2, <2>3 DEF SendPublication, FenceInv
  <2>7. StoreInv'
    BY <1>4 DEF SendPublication, StoreInv
  <2>8. ReadyInv'
    BY <1>4, <2>1, <2>2 DEF SendPublication, ReadyInv, SentInMode
  <2>9. QED
    BY <2>4, <2>5, <2>6, <2>7, <2>8
<1>5. CASE SendTombstone
  BY <1>5 DEF SendTombstone, TypeOK, SentInv, FenceInv, StoreInv, ReadyInv, SentInMode
<1>6. QED
  BY <1>2, <1>3, <1>4, <1>5

(* A committed transaction: the fence, the projection and the markers move *)
(* together, and an older or repeated one is refused or changes nothing.   *)
LEMMA CommitStep ==
  ASSUME IInv, NEW w \in sent, Commit(w)
  PROVE  IInv'
<1> USE DEF IInv
<1>1. /\ fence \in Fences(Attempts, Digests)
      /\ w \in Writes(Attempts, Digests)
      /\ Admits(fence, w)
      /\ fence' = Advance(fence, w)
  BY DEF TypeOK, Commit
<1>2. /\ w.mode \in Modes
      /\ w.generation \in Nat /\ w.task \in Attempts /\ w.digest \in Digests \cup {NoDigest}
      /\ fence.generation \in Nat
      /\ attempt \in Attempts
      /\ w.generation <= attempt /\ w.task = w.generation
      /\ w.mode = "abort" <=> w.digest = NoDigest
  BY <1>1 DEF Fences, Writes, TypeOK, SentInv
<1>3. /\ fence' \in Fences(Attempts, Digests)
      /\ fence.generation <= w.generation
      /\ ~fence.deleted
      /\ fence'.generation = w.generation
      /\ fence'.task = w.task
      /\ fence'.deleted = fence.deleted
      /\ fence'.aborted = (w.mode = "abort")
      /\ fence'.payload = IF w.mode = "publication" THEN w.digest ELSE NoDigest
  BY <1>1, AdvanceType
<1>4. w.generation # 0
  BY <1>2, MaxAttemptsAssumption DEF Attempts
<1>5. w.mode = "publication" => w.generation = fence.generation
  BY <1>2, <1>3 DEF FenceInv
<1>6. \/ w.generation > fence.generation
      \/ w.generation = fence.generation /\ SameAttemptAdmits(fence, w)
  BY <1>1 DEF Admits, SameAttemptAdmits
<1>7. w.mode = "publication" =>
        ~fence.aborted /\ fence.payload \in {NoDigest, w.digest}
  BY <1>2, <1>5, <1>6 DEF SameAttemptAdmits
<1>8. w.mode # "publication" /\ w.generation = fence.generation => fence.payload = NoDigest
  BY <1>2, <1>6 DEF SameAttemptAdmits
<1>9. /\ concepts' = IF w.mode = "abort" THEN NoConcepts
                     ELSE [generation |-> w.generation, digest |-> w.digest]
      /\ markers' = IF w.mode = "publication"
                    THEN markers \cup {[generation |-> w.generation, digest |-> w.digest]}
                    ELSE {}
      /\ committed' = committed \cup {w}
      /\ UNCHANGED <<attempt, phase, sent, tombstone>>
  BY DEF Commit
<1>10. TypeOK'
  <2>1. concepts' \in Stamps
    BY <1>2, <1>9 DEF Stamps, NoConcepts
  <2>2. markers' \subseteq Stamps
    BY <1>2, <1>9 DEF Stamps, TypeOK
  <2>3. QED
    BY <1>3, <1>9, <2>1, <2>2 DEF TypeOK
<1>11. SentInv'
  BY <1>9 DEF SentInv
<1>12. FenceInv'
  <2>1. \A v \in committed : v \in sent /\ v.generation \in Nat
    BY DEF TypeOK, Writes
  <2>2. \A v \in committed' : v.generation <= fence'.generation
    BY <1>2, <1>3, <1>9, <2>1 DEF FenceInv
  <2>3. ASSUME NEW v \in committed', v.mode = "publication", v.generation = fence'.generation
        PROVE  fence'.payload = v.digest
    <3>1. CASE v = w
      BY <1>3, <2>3, <3>1
    <3>2. CASE v \in committed
      <4>1. v.generation = w.generation /\ v.generation <= fence.generation
        BY <1>3, <2>3, <3>2 DEF FenceInv
      <4>2. w.generation = fence.generation
        BY <1>2, <1>3, <2>1, <3>2, <4>1
      <4>3. fence.payload = v.digest
        BY <2>3, <3>2, <4>1, <4>2 DEF FenceInv
      <4>4. v.digest # NoDigest
        BY <2>1, <2>3, <3>2 DEF SentInv
      <4>5. w.mode = "publication" /\ w.digest = v.digest
        BY <1>7, <1>8, <4>2, <4>3, <4>4
      <4>6. QED
        BY <1>3, <4>5
    <3>3. QED
      BY <1>9, <3>1, <3>2
  <2>4. \A v \in sent : v.mode = "publication" => v.generation <= fence'.generation
    <3>1. \A v \in sent : v.generation \in Nat
      BY DEF TypeOK, Writes
    <3>2. QED
      BY <1>2, <1>3, <3>1 DEF FenceInv
  <2>5. fence'.aborted =>
          /\ \E v \in sent : v.mode = "abort" /\ v.generation = fence'.generation
          /\ fence'.payload = NoDigest
    BY <1>3
  <2>6. fence'.generation <= attempt /\ fence'.task = fence'.generation /\ ~fence'.deleted
    BY <1>2, <1>3
  <2>7. QED
    BY <1>9, <2>2, <2>3, <2>4, <2>5, <2>6 DEF FenceInv
<1>13. StoreInv'
  <2>1. CASE w.mode = "abort"
    BY <1>3, <1>9, <2>1 DEF StoreInv
  <2>2. CASE w.mode = "baseline"
    BY <1>3, <1>4, <1>9, <2>2 DEF StoreInv
  <2>3. CASE w.mode = "publication"
    <3>1. concepts' = [generation |-> w.generation, digest |-> w.digest]
      BY <1>9, <2>3
    <3>2. markers \subseteq {concepts'}
      BY <1>3, <1>4, <1>5, <1>7, <2>3, <3>1 DEF StoreInv
    <3>3. markers' \subseteq {concepts'}
      BY <1>9, <2>3, <3>1, <3>2
    <3>4. w.digest # NoDigest /\ ~fence'.aborted /\ ~fence'.deleted /\ fence'.payload = w.digest
      BY <1>2, <1>3, <2>3
    <3>5. QED
      BY <1>3, <1>4, <3>1, <3>3, <3>4 DEF StoreInv
  <2>4. QED
    BY <1>2, <2>1, <2>2, <2>3 DEF Modes
<1>14. ReadyInv'
  BY <1>9 DEF ReadyInv, SentInMode
<1>15. QED
  BY <1>10, <1>11, <1>12, <1>13, <1>14

(* The tombstone may land only once removal was requested.                 *)
LEMMA TombstoneStep ==
  ASSUME IInv, LandTombstone
  PROVE  IInv'
<1> USE DEF IInv
<1>1. /\ Close(fence) \in Fences(Attempts, Digests)
      /\ Close(fence).deleted
      /\ Close(fence).generation = fence.generation
      /\ Close(fence).task = fence.task
      /\ Close(fence).aborted = fence.aborted
      /\ Close(fence).payload = fence.payload
  BY CloseType DEF TypeOK
<1>2. TypeOK'
  BY <1>1 DEF LandTombstone, TypeOK, NoConcepts, Stamps
<1>3. SentInv' /\ FenceInv'
  BY <1>1 DEF LandTombstone, SentInv, FenceInv
<1>4. StoreInv' /\ ReadyInv'
  BY <1>1 DEF LandTombstone, StoreInv, ReadyInv, SentInMode
<1>5. QED
  BY <1>2, <1>3, <1>4

LEMMA NextIInv == IInv /\ [Next]_vars => IInv'
<1> SUFFICES ASSUME IInv, [Next]_vars PROVE IInv'
  OBVIOUS
<1>1. CASE NextAttempt \/ MarkReady \/ MarkFailed \/ ClaimAgain \/ RequestRemoval
  BY <1>1, RowSteps
<1>2. CASE SendBaseline \/ SendAbort \/ SendPublication \/ SendTombstone
  BY <1>2, SendSteps
<1>3. CASE Land
  BY <1>3, CommitStep DEF Land
<1>4. CASE LandTombstone
  BY <1>4, TombstoneStep
<1>5. CASE UNCHANGED vars
  BY <1>5 DEF vars, IInv, TypeOK, SentInv, FenceInv, StoreInv, ReadyInv, SentInMode
<1>6. QED
  BY <1>1, <1>2, <1>3, <1>4, <1>5 DEF Next

(* The inductive invariant holds in every reachable state.                 *)
THEOREM Invariance == Spec => []IInv
<1>1. Init => IInv
  BY InitIInv
<1>2. IInv /\ [Next]_vars => IInv'
  BY NextIInv
<1>3. QED
  BY <1>1, <1>2, PTL DEF Spec

(* Every variable keeps its type.                                          *)
THEOREM TypeCorrect == Spec => []TypeOK
<1>1. IInv => TypeOK
  BY DEF IInv
<1>2. QED
  BY <1>1, Invariance, PTL

(* A READY upload always holds the fence with its own attempt and, if that *)
(* attempt was never aborted, shows its graph, whatever is still in flight.*)
THEOREM ReadyIsCurrent == Spec => []ReadyShowsItsAttempt
<1>1. IInv => ReadyShowsItsAttempt
  <2> SUFFICES ASSUME IInv, phase = "ready"
               PROVE  /\ fence.generation = attempt /\ ~fence.deleted
                      /\ SentInMode("abort") = {} => concepts.generation = attempt
    BY DEF ReadyShowsItsAttempt
  <2>1. /\ fence.generation = attempt /\ ~fence.deleted
        /\ SentInMode("abort") = {} => ~fence.aborted
    BY ReadyHoldsFence
  <2>2. attempt # 0
    BY MaxAttemptsAssumption DEF IInv, TypeOK, Attempts
  <2>3. ~fence.aborted => concepts.generation = fence.generation
    BY <2>1, <2>2 DEF IInv, StoreInv
  <2>4. QED
    BY <2>1, <2>3
<1>2. QED
  BY <1>1, Invariance, PTL

(* A continuation's committed publication stays what a READY upload shows. *)
THEOREM PublicationStays == Spec => []PublicationIsNotUndone
<1>1. IInv => PublicationIsNotUndone
  <2> SUFFICES ASSUME IInv, phase = "ready",
                      NEW w \in SentInMode("publication") \cap committed
               PROVE  concepts = [generation |-> attempt, digest |-> w.digest]
    BY DEF PublicationIsNotUndone
  <2>1. fence.generation = attempt /\ ~fence.deleted
    BY ReadyHoldsFence
  <2>2. w \in sent /\ w \in committed /\ w.mode = "publication" /\ w.generation = attempt
    BY DEF SentInMode
  <2>3. fence.payload = w.digest
    BY <2>1, <2>2 DEF IInv, FenceInv
  <2>4. w.digest # NoDigest
    BY <2>2 DEF IInv, SentInv
  <2>5. attempt # 0
    BY MaxAttemptsAssumption DEF IInv, TypeOK, Attempts
  <2>6. ~fence.aborted
    BY <2>3, <2>4 DEF IInv, FenceInv
  <2>7. QED
    BY <2>1, <2>3, <2>4, <2>5, <2>6 DEF IInv, StoreInv
<1>2. QED
  BY <1>1, Invariance, PTL

(* A readable marker always names the projection that is there.            *)
THEOREM MarkersAreTrue == Spec => []MarkerNamesProjection
<1>1. IInv => MarkerNamesProjection
  BY DEF IInv, StoreInv, MarkerNamesProjection
<1>2. QED
  BY <1>1, Invariance, PTL

(* A removed or aborted projection is empty and stays so.                  *)
THEOREM ClosedIsEmpty == Spec => []ClosedStaysEmpty
<1>1. IInv => ClosedStaysEmpty
  BY DEF IInv, StoreInv, ClosedStaysEmpty
<1>2. QED
  BY <1>1, Invariance, PTL

(* No step takes the fence back to an older attempt, reopens it after a    *)
(* deletion, or drops a publication of the attempt that holds it.          *)
THEOREM FenceAdvances == Spec => FenceOnlyAdvances
<1> DEFINE P == /\ fence'.generation >= fence.generation
                /\ fence.deleted => fence' = fence
                /\ (fence'.generation = fence.generation /\ fence.payload # NoDigest)
                      => fence'.payload = fence.payload
<1>1. IInv /\ [Next]_vars => [P]_vars
  <2> SUFFICES ASSUME IInv, Next PROVE P
    OBVIOUS
  <2>1. fence \in Fences(Attempts, Digests) /\ fence.generation \in Nat
    BY DEF IInv, TypeOK, Fences
  <2>2. CASE Land
    <3>1. PICK w \in sent : Commit(w)
      BY <2>2 DEF Land
    <3>2. w \in Writes(Attempts, Digests) /\ Admits(fence, w) /\ fence' = Advance(fence, w)
      BY <3>1 DEF IInv, TypeOK, Commit
    <3>3. /\ w.generation \in Nat
          /\ fence.generation <= w.generation
          /\ ~fence.deleted
          /\ fence'.generation = w.generation
          /\ fence'.payload = IF w.mode = "publication" THEN w.digest ELSE NoDigest
      BY <2>1, <3>2, AdvanceType DEF Writes
    <3>4. w.generation = fence.generation /\ fence.payload # NoDigest
            => w.mode = "publication" /\ w.digest = fence.payload
      BY <2>1, <3>2, <3>3 DEF Admits, SameAttemptAdmits
    <3>5. QED
      BY <2>1, <3>3, <3>4
  <2>3. CASE LandTombstone
    <3>1. fence' = Close(fence)
      BY <2>3 DEF LandTombstone
    <3>2. Close(fence).generation = fence.generation /\ Close(fence).payload = fence.payload
      BY <2>1, CloseType
    <3>3. fence.deleted => Close(fence) = fence
      BY <2>1 DEF Close, Fences
    <3>4. QED
      BY <2>1, <3>1, <3>2, <3>3
  <2>4. CASE fence' = fence
    BY <2>1, <2>4
  <2>5. QED
    BY <2>2, <2>3, <2>4 DEF Next, NextAttempt, MarkReady, MarkFailed, ClaimAgain,
       RequestRemoval, SendBaseline, SendAbort, SendPublication, SendTombstone
<1>2. QED
  BY <1>1, Invariance, PTL DEF Spec, FenceOnlyAdvances
=============================================================================
