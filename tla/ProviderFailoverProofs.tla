------------------------ MODULE ProviderFailoverProofs ------------------------
(***************************************************************************)
(* Proofs about ProviderFailover, for any calls, keys, cooldown and times  *)
(* that providers ask to wait: a circuit is open only while its provider   *)
(* is failing, and before the time that a provider named it is sent no     *)
(* first request but those of calls let through before it named it.        *)
(***************************************************************************)
EXTENDS ProviderFailover, TLAPS

CallStates ==
  [at : {"idle", "asking", "repairing"}, kind : Kinds, place : 0 .. Len(Route),
   repair : 0 .. Len(Route), sent : BOOLEAN]

(* A call that waits has a place on the route.                             *)
CallInv ==
  /\ call \in [Calls -> CallStates]
  /\ \A c \in Calls : Waiting(c) => call[c].place # 0

(* A provider that asked for more time than the diagnostics round away has *)
(* a circuit that is open as long.                                         *)
ToldInv == \A p \in Providers : told[p] > now + 1 => told[p] <= blocked[p]

(* The breaker has just let a call through, or the provider has said since *)
(* that it wants to be left alone: a claim about the time before the send. *)
PassedInv ==
  \A c \in Calls :
    Reserving(c) /\ call[c].at = "asking" => told[Asked(c)] <= now + 1 \/ c \in overtaken

IInv == TypeOK /\ CallInv /\ OpenMeansFailing /\ ToldInv /\ PassedInv

-----------------------------------------------------------------------------
LEMMA RouteFacts ==
  /\ Len(Route) \in 0 .. 2
  /\ \A i \in 1 .. Len(Route) : Route[i] \in Providers
BY DEF Route, Providers

(* What comes with a time to wait says that the provider has no quota left,*)
(* or is down; both open its circuit.                                      *)
LEMMA ToldToWait ==
  ASSUME NEW kind \in Kinds, NEW p \in Providers, NEW outcome, <<outcome, TRUE>> \in Failures[<<kind, p>>]
  PROVE  outcome \in {"quota", "down"}
<1>1. PICK event \in Events : outcome = Outcome(kind, p, event) /\ Read(p, event)
  <2>1. <<kind, p>> \in Kinds \X Providers
    OBVIOUS
  <2>2. Failures[<<kind, p>>] =
          LET events == IF kind = "graph" THEN Events ELSE Events \ {"schema", "truncated"}
          IN  { <<Outcome(kind, p, event), FALSE>> : event \in events }
              \cup { <<Outcome(kind, p, event), TRUE>> : event \in { e \in events : Read(p, e) } }
    BY <2>1 DEF Failures
  <2>3. QED
    BY <2>2
<1>2. CASE event = "429"
  BY <1>1, <1>2 DEF Outcome, Answer, GroqGraph, CerebrasGraph, GeminiGraph, GroqOutcome,
     CerebrasOutcome, GeminiOutcome, Kinds, Providers, Lost
<1>3. CASE p = "groq" /\ event = "503"
  BY <1>1, <1>3 DEF Outcome, Answer, GroqGraph, GroqOutcome, Kinds, Lost
<1>4. CASE p = "cerebras" /\ event = "402"
  BY <1>1, <1>4 DEF Outcome, Answer, CerebrasGraph, CerebrasOutcome, Kinds, Lost
<1>5. QED
  BY <1>1, <1>2, <1>3, <1>4 DEF Read

LEMMA CallFields ==
  ASSUME NEW r \in CallStates, NEW at \in {"idle", "asking", "repairing"}, NEW k \in 0 .. Len(Route)
  PROVE  /\ [r EXCEPT !.at = at, !.sent = FALSE, !.place = k] \in CallStates
         /\ [r EXCEPT !.at = at, !.sent = FALSE, !.place = k].at = at
         /\ [r EXCEPT !.at = at, !.sent = FALSE, !.place = k].place = k
<1> DEFINE n == Len(Route)
<1> DEFINE States == [at : {"idle", "asking", "repairing"}, kind : Kinds, place : 0 .. n,
                      repair : 0 .. n, sent : BOOLEAN]
<1>1. r \in States /\ k \in 0 .. n
  BY DEF CallStates
<1> HIDE DEF n
<1>2. [r EXCEPT !.at = at, !.sent = FALSE, !.place = k] \in States
  BY <1>1
<1>3. /\ [r EXCEPT !.at = at, !.sent = FALSE, !.place = k].at = at
      /\ [r EXCEPT !.at = at, !.sent = FALSE, !.place = k].place = k
  BY <1>1
<1>4. QED
  BY <1>2, <1>3 DEF CallStates, n

(* Where a call goes next: to a provider whose circuit is closed, to the   *)
(* repair, or to its end.                                                  *)
LEMMA ProceedFacts ==
  ASSUME NEW r \in CallStates, NEW b, NEW from \in Nat \ {0}
  PROVE  /\ Proceed(r, b, from) \in CallStates
         /\ Proceed(r, b, from).at # "idle" => Proceed(r, b, from).place # 0
         /\ Proceed(r, b, from).at = "asking" =>
              /\ Proceed(r, b, from).place \in 1 .. Len(Route)
              /\ ~Open(b, Route[Proceed(r, b, from).place])
<1> DEFINE closed == { i \in from .. Len(Route) : ~Open(b, Route[i]) }
<1> DEFINE first == CHOOSE i \in closed : \A j \in closed : i <= j
<1>1. Len(Route) \in 0 .. 2
  BY RouteFacts
<1>2. Idle \in CallStates /\ Idle.at = "idle"
  BY <1>1 DEF Idle, CallStates, Kinds
<1>3. closed \subseteq {1, 2}
  BY <1>1
<1>4. closed # {} => \E i \in closed : \A j \in closed : i <= j
  BY <1>3
<1>5. closed # {} => first \in closed
  BY <1>4
<1>6. CASE closed # {}
  <2>1. Proceed(r, b, from) = [r EXCEPT !.at = "asking", !.sent = FALSE, !.place = first]
    BY <1>6 DEF Proceed
  <2>2. first \in 1 .. Len(Route) /\ ~Open(b, Route[first])
    BY <1>1, <1>5, <1>6
  <2> HIDE DEF first, closed
  <2>3. first \in 0 .. Len(Route) /\ first # 0
    BY <1>1, <2>2
  <2>4. /\ Proceed(r, b, from) \in CallStates
        /\ Proceed(r, b, from).at = "asking" /\ Proceed(r, b, from).place = first
    <3>1. "asking" \in {"idle", "asking", "repairing"}
      OBVIOUS
    <3>2. \A k \in 0 .. Len(Route) :
            /\ [r EXCEPT !.at = "asking", !.sent = FALSE, !.place = k] \in CallStates
            /\ [r EXCEPT !.at = "asking", !.sent = FALSE, !.place = k].at = "asking"
            /\ [r EXCEPT !.at = "asking", !.sent = FALSE, !.place = k].place = k
      BY <3>1, CallFields, Zenon
    <3>3. QED
      BY <2>1, <2>3, <3>2, Zenon
  <2>5. QED
    BY <2>2, <2>3, <2>4, Zenon
<1>7. CASE closed = {} /\ r.repair # 0 /\ RepairEnabled
  <2>1. Proceed(r, b, from) = [r EXCEPT !.at = "repairing", !.sent = FALSE, !.place = r.repair]
    BY <1>7 DEF Proceed
  <2> HIDE DEF first, closed
  <2>2. QED
    BY <1>1, <1>7, <2>1 DEF CallStates
<1>8. CASE closed = {} /\ ~(r.repair # 0 /\ RepairEnabled)
  <2>1. Proceed(r, b, from) = Idle
    BY <1>8 DEF Proceed
  <2> HIDE DEF first, closed
  <2>2. QED
    BY <1>2, <2>1
<1> HIDE DEF first, closed
<1>9. QED
  BY <1>6, <1>7, <1>8

LEMMA BlockFacts ==
  ASSUME TypeOK, NEW p \in Providers, NEW outcome, NEW retry \in Nat
  PROVE  /\ Block(p, outcome, retry) \in [Providers -> Nat]
         /\ \A q \in Providers : q # p => Block(p, outcome, retry)[q] = blocked[q]
         /\ outcome = "denied" => Block(p, outcome, retry) = blocked
         /\ outcome # "denied" => /\ Block(p, outcome, retry)[p] >= blocked[p]
                                  /\ Block(p, outcome, retry)[p] >= now + retry
<1>1. Cooldown \in Nat /\ now \in Nat
  BY FailoverAssumption DEF TypeOK
<1>2. QED
  BY <1>1 DEF Block, Later, TypeOK

(* What a failure does: if its provider said how long to wait, its circuit *)
(* is open at least as long; and if a circuit opens, its provider failed.  *)
LEMMA FailFacts ==
  ASSUME TypeOK, CallInv, NEW c \in Calls, NEW outcome, NEW retry \in RetryAfters \cup {0},
         Fail(c, outcome, retry)
  PROVE  LET p == Asked(c)
         IN  /\ p \in Providers
             /\ blocked' \in [Providers -> Nat]
             /\ \A q \in Providers : q # p => blocked'[q] = blocked[q]
             /\ blocked'[p] >= blocked[p]
             /\ retry # 0 => blocked'[p] >= now + retry
             /\ outcome = "denied" => blocked' = blocked
             /\ call' \in [Calls -> CallStates]
             /\ \A d \in Calls : d # c => call'[d] = call[d]
             /\ call'[c].at # "idle" => call'[c].place # 0
             /\ call'[c].at = "asking" =>
                  /\ call'[c].place \in 1 .. Len(Route)
                  /\ ~Open(blocked', Route[call'[c].place])
<1> DEFINE p == Asked(c)
<1> DEFINE b == IF Blocks(call[c].kind, p, outcome) THEN Block(p, outcome, retry) ELSE blocked
<1> DEFINE last == IF call[c].kind = "graph" /\ outcome = "structure" THEN call[c].place ELSE 0
<1> DEFINE r == IF call[c].at = "repairing" \/ outcome = "unhandled" THEN Idle
                ELSE Proceed([call[c] EXCEPT !.repair = last], b, call[c].place + 1)
<1>1. /\ call[c] \in CallStates /\ call[c].place \in 1 .. Len(Route) /\ call[c].kind \in Kinds
      /\ p \in Providers
  <2>1. Len(Route) \in 0 .. 2 /\ call[c] \in CallStates /\ call[c].place # 0
    BY RouteFacts DEF CallInv, Fail
  <2>2. call[c].place \in 0 .. Len(Route) /\ call[c].kind \in Kinds
    BY <2>1 DEF CallStates
  <2>3. call[c].place \in 1 .. Len(Route)
    BY <2>1, <2>2
  <2>4. QED
    BY <2>1, <2>2, <2>3, RouteFacts DEF Asked
<1>2. retry \in Nat
  BY FailoverAssumption
<1>3. blocked' = b /\ call' = [call EXCEPT ![c] = r]
  BY DEF Fail
<1>4. retry # 0 => outcome \in {"quota", "down"}
  <2>1. retry # 0 => <<outcome, TRUE>> \in Failures[<<call[c].kind, p>>]
    BY DEF Fail
  <2>2. QED
    BY <1>1, <2>1, ToldToWait
<1>5. /\ b \in [Providers -> Nat]
      /\ \A q \in Providers : q # p => b[q] = blocked[q]
      /\ b[p] >= blocked[p]
      /\ retry # 0 => b[p] >= now + retry
      /\ outcome = "denied" => b = blocked
  <2>1. retry # 0 => Blocks(call[c].kind, p, outcome) /\ outcome # "denied"
    BY <1>4 DEF Blocks
  <2>2. blocked \in [Providers -> Nat]
    BY DEF TypeOK
  <2> HIDE DEF p
  <2>3. QED
    BY <1>1, <1>2, <2>1, <2>2, BlockFacts
<1>6. last \in 0 .. Len(Route) /\ [call[c] EXCEPT !.repair = last] \in CallStates
  <2>1. last \in 0 .. Len(Route)
    BY <1>1, RouteFacts
  <2> HIDE DEF last
  <2>2. ASSUME NEW k \in 0 .. Len(Route) PROVE [call[c] EXCEPT !.repair = k] \in CallStates
    BY <1>1 DEF CallStates
  <2>3. QED
    BY <2>1, <2>2
<1>7. /\ r \in CallStates
      /\ r.at # "idle" => r.place # 0
      /\ r.at = "asking" => r.place \in 1 .. Len(Route) /\ ~Open(b, Route[r.place])
  <2>1. Idle \in CallStates /\ Idle.at = "idle"
    BY RouteFacts DEF Idle, CallStates, Kinds
  <2>2. call[c].place + 1 \in Nat \ {0}
    BY <1>1
  <2> HIDE DEF b, last
  <2>3. QED
    BY <1>6, <2>1, <2>2, ProceedFacts
<1> HIDE DEF p, b, r
<1>8. call' \in [Calls -> CallStates] /\ call'[c] = r /\ \A d \in Calls : d # c => call'[d] = call[d]
  BY <1>3, <1>7 DEF CallInv
<1>9. QED
  BY <1>1, <1>3, <1>5, <1>7, <1>8 DEF p

LEMMA EnterFacts ==
  ASSUME CallInv, NEW c \in Calls, NEW kind \in Kinds, Enter(c, kind)
  PROVE  /\ call' \in [Calls -> CallStates]
         /\ \A d \in Calls : d # c => call'[d] = call[d]
         /\ call'[c].at # "idle" => call'[c].place # 0
         /\ call'[c].at = "asking" => /\ call'[c].place \in 1 .. Len(Route)
                                      /\ ~Open(blocked, Route[call'[c].place])
<1> DEFINE r == Proceed([Idle EXCEPT !.kind = kind], blocked, 1)
<1>1. [Idle EXCEPT !.kind = kind] \in CallStates
  <2>1. Idle \in CallStates
    BY RouteFacts DEF Idle, CallStates, Kinds
  <2>2. QED
    BY <2>1 DEF CallStates
<1>2. /\ r \in CallStates
      /\ r.at # "idle" => r.place # 0
      /\ r.at = "asking" => r.place \in 1 .. Len(Route) /\ ~Open(blocked, Route[r.place])
  BY <1>1, ProceedFacts
<1>3. call' = [call EXCEPT ![c] = r]
  BY DEF Enter
<1> HIDE DEF r
<1>4. QED
  BY <1>2, <1>3 DEF CallInv

-----------------------------------------------------------------------------
LEMMA InitIInv == Init => IInv
<1> SUFFICES ASSUME Init PROVE IInv
  OBVIOUS
<1>1. Idle \in CallStates /\ Idle.at = "idle"
  BY RouteFacts DEF Idle, CallStates, Kinds
<1>2. CallInv
  BY <1>1 DEF Init, CallInv, Waiting
<1>3. \A c \in Calls : call[c] = Idle
  BY DEF Init
<1>4. TypeOK
  <2>1. /\ Idle.at \in {"idle", "asking", "repairing"} /\ Idle.kind \in Kinds
        /\ Idle.place \in 0 .. Len(Route) /\ Idle.repair \in 0 .. Len(Route) /\ Idle.sent \in BOOLEAN
    BY <1>1 DEF CallStates
  <2>2. /\ now \in 0 .. LastTime /\ blocked \in [Providers -> Nat] /\ told \in [Providers -> Nat]
        /\ failing \subseteq Providers /\ overtaken \subseteq Calls
    BY FailoverAssumption DEF Init
  <2>3. QED
    BY <1>3, <2>1, <2>2, Zenon DEF TypeOK
<1>5. OpenMeansFailing /\ ToldInv
  BY <1>4 DEF Init, OpenMeansFailing, ToldInv, Open
<1>6. PassedInv
  BY <1>1, <1>3 DEF PassedInv, Reserving, Waiting
<1>7. QED
  BY <1>2, <1>4, <1>5, <1>6 DEF IInv

LEMMA AskedFacts ==
  ASSUME CallInv, NEW c \in Calls, Waiting(c)
  PROVE  call[c].place \in 1 .. Len(Route) /\ Asked(c) \in Providers
<1>1. call[c] \in CallStates /\ call[c].place # 0 /\ Len(Route) \in 0 .. 2
  BY RouteFacts DEF CallInv
<1>2. call[c].place \in 0 .. Len(Route)
  BY <1>1 DEF CallStates
<1>3. call[c].place \in 1 .. Len(Route)
  BY <1>1, <1>2
<1>4. QED
  BY <1>3, RouteFacts DEF Asked

(* The typing of calls follows from CallInv; the rest is of each variable. *)
LEMMA TypeFromParts ==
  ASSUME CallInv', now' \in 0 .. LastTime, blocked' \in [Providers -> Nat],
         failing' \subseteq Providers, told' \in [Providers -> Nat], overtaken' \subseteq Calls
  PROVE  TypeOK'
<1>1. \A c \in Calls : call'[c] \in CallStates
  BY DEF CallInv
<1>2. \A c \in Calls : /\ call'[c].at \in {"idle", "asking", "repairing"} /\ call'[c].kind \in Kinds
                       /\ call'[c].place \in 0 .. Len(Route) /\ call'[c].repair \in 0 .. Len(Route)
                       /\ call'[c].sent \in BOOLEAN
  BY <1>1 DEF CallStates
<1>3. QED
  BY <1>2 DEF TypeOK

LEMMA StepIInv == ASSUME IInv, [Next]_vars PROVE IInv'
<1> USE DEF IInv
<1>1. /\ now \in Nat /\ LastTime \in Nat /\ now <= LastTime /\ blocked \in [Providers -> Nat]
      /\ failing \subseteq Providers /\ told \in [Providers -> Nat] /\ overtaken \subseteq Calls
  BY FailoverAssumption DEF TypeOK
<1>2. CASE UNCHANGED vars
  BY <1>2 DEF vars, TypeOK, CallInv, Waiting, OpenMeansFailing, Open, ToldInv, PassedInv, Reserving, Asked
<1>3. CASE Status
  <2>1. CallInv'
    BY <1>3 DEF Status, CallInv, Waiting
  <2>2. /\ blocked' \in [Providers -> Nat]
        /\ \A p \in Providers : blocked'[p] = blocked[p] \/ (blocked'[p] = 0 /\ blocked[p] <= now + 1)
    BY <1>1, <1>3 DEF Status
  <2>3. TypeOK'
    BY <1>1, <1>3, <2>1, <2>2, TypeFromParts DEF Status
  <2>4. OpenMeansFailing'
    BY <1>1, <1>3, <2>2, <2>3 DEF Status, OpenMeansFailing, Open
  <2>5. ToldInv'
    BY <1>1, <1>3, <2>2 DEF Status, ToldInv
  <2>6. PassedInv'
    BY <1>3 DEF Status, PassedInv, Reserving, Waiting, Asked
  <2>7. QED
    BY <2>1, <2>3, <2>4, <2>5, <2>6
<1>4. CASE Tick
  <2>1. CallInv'
    BY <1>4 DEF Tick, CallInv, Waiting
  <2>2. TypeOK'
    BY <1>1, <1>4, <2>1, TypeFromParts DEF Tick
  <2>3. OpenMeansFailing' /\ ToldInv'
    BY <1>1, <1>4, <2>2 DEF Tick, OpenMeansFailing, Open, ToldInv
  <2>4. PassedInv'
    <3>1. ASSUME NEW c \in Calls, Reserving(c) PROVE told[Asked(c)] \in Nat
      BY <1>1, <3>1, AskedFacts DEF Reserving
    <3>2. now' = now + 1 /\ call' = call /\ told' = told /\ overtaken' = overtaken
      BY <1>4 DEF Tick
    <3>3. QED
      BY <1>1, <3>1, <3>2 DEF PassedInv, Reserving, Waiting, Asked
  <2>5. QED
    BY <2>1, <2>2, <2>3, <2>4
<1>5. ASSUME NEW c \in Calls, NEW kind \in Kinds, Enter(c, kind)
      PROVE  IInv'
  <2>1. CallInv'
    BY <1>5, EnterFacts DEF CallInv, Waiting
  <2>2. TypeOK'
    BY <1>1, <1>5, <2>1, TypeFromParts DEF Enter, TypeOK
  <2>3. OpenMeansFailing' /\ ToldInv'
    BY <1>5, <2>2 DEF Enter, OpenMeansFailing, Open, ToldInv
  <2>4. PassedInv'
    <3>1. now' = now /\ blocked' = blocked /\ told' = told /\ overtaken' = overtaken
      BY <1>5 DEF Enter
    <3>2. \A d \in Calls : d # c => call'[d] = call[d]
      BY <1>5, EnterFacts
    <3>3. call'[c].at = "asking" => told[Route[call'[c].place]] <= now + 1
      <4>1. call'[c].at = "asking" => /\ Route[call'[c].place] \in Providers
                                      /\ ~Open(blocked, Route[call'[c].place])
        BY <1>5, EnterFacts, RouteFacts
      <4>2. QED
        BY <1>1, <4>1 DEF ToldInv, Open
    <3>4. QED
      BY <3>1, <3>2, <3>3 DEF PassedInv, Reserving, Waiting, Asked
  <2>5. QED
    BY <2>1, <2>2, <2>3, <2>4
<1>6. ASSUME NEW c \in Calls, Succeed(c)
      PROVE  IInv'
  <2>1. Idle \in CallStates /\ Idle.at = "idle"
    BY RouteFacts DEF Idle, CallStates, Kinds
  <2>2. CallInv'
    BY <1>6, <2>1 DEF Succeed, CallInv, Waiting
  <2>3. /\ blocked' = [blocked EXCEPT ![Asked(c)] = 0] /\ told' = [told EXCEPT ![Asked(c)] = 0]
        /\ failing' = failing \ {Asked(c)} /\ now' = now
    BY <1>6 DEF Succeed
  <2>4. TypeOK'
    <3>1. now' \in 0 .. LastTime
      BY <1>1, <2>3
    <3>2. blocked' \in [Providers -> Nat] /\ told' \in [Providers -> Nat] /\ failing' \subseteq Providers
      BY <1>1, <2>3
    <3>3. overtaken' \subseteq Calls
      BY <1>1, <1>6 DEF Succeed
    <3>4. QED
      BY <2>2, <3>1, <3>2, <3>3, TypeFromParts
  <2>5. OpenMeansFailing' /\ ToldInv'
    BY <1>1, <2>3, <2>4 DEF OpenMeansFailing, Open, ToldInv
  <2>6. PassedInv'
    <3>1. call'[c].at = "idle" /\ \A d \in Calls : d # c => call'[d] = call[d]
      BY <1>6, <2>1 DEF Succeed, CallInv
    <3>2. overtaken' = overtaken
      BY <1>6 DEF Succeed
    <3>3. \A p \in Providers : told'[p] = told[p] \/ told'[p] = 0
      BY <1>1, <2>3
    <3>4. \A d \in Calls : Reserving(d) => Asked(d) \in Providers
      BY AskedFacts DEF Reserving
    <3>5. QED
      BY <1>1, <2>3, <3>1, <3>2, <3>3, <3>4 DEF PassedInv, Reserving, Waiting, Asked
  <2>7. QED
    BY <2>2, <2>4, <2>5, <2>6
<1>7. ASSUME NEW c \in Calls, NEW outcome \in Outcomes, NEW retry \in RetryAfters \cup {0},
             Fail(c, outcome, retry)
      PROVE  IInv'
  <2> DEFINE p == Asked(c)
  <2>1. /\ p \in Providers /\ blocked' \in [Providers -> Nat]
        /\ \A q \in Providers : q # p => blocked'[q] = blocked[q]
        /\ blocked'[p] >= blocked[p]
        /\ retry # 0 => blocked'[p] >= now + retry
        /\ outcome = "denied" => blocked' = blocked
    BY <1>7, FailFacts
  <2>2. CallInv'
    BY <1>7, FailFacts DEF CallInv, Waiting
  <2>3. retry \in Nat
    BY FailoverAssumption
  <2>4. /\ now' = now
        /\ failing' = IF outcome = "denied" THEN failing ELSE failing \cup {p}
        /\ told' = IF retry = 0 THEN told ELSE [told EXCEPT ![p] = Later(@, now + retry)]
    BY <1>7 DEF Fail
  <2> HIDE DEF p
  <2>5. told' \in [Providers -> Nat]
    BY <1>1, <2>1, <2>3, <2>4 DEF Later
  <2>6. TypeOK'
    <3>1. overtaken' \subseteq Calls
      BY <1>1, <1>7 DEF Fail
    <3>2. QED
      BY <1>1, <2>1, <2>2, <2>4, <2>5, <3>1, TypeFromParts
  <2>7. OpenMeansFailing'
    BY <2>1, <2>4, <2>6 DEF OpenMeansFailing, Open
  <2>8. ToldInv'
    <3>1. \A q \in Providers : q # p => told'[q] = told[q] /\ blocked'[q] = blocked[q]
      BY <1>1, <2>1, <2>4
    <3>2. told'[p] = told[p] \/ (retry # 0 /\ told'[p] \in {told[p], now + retry})
      BY <1>1, <2>1, <2>3, <2>4 DEF Later
    <3>3. \A q \in Providers : told[q] \in Nat /\ blocked[q] \in Nat /\ blocked'[q] \in Nat
      BY <1>1, <2>1
    <3>4. QED
      BY <1>1, <2>1, <2>3, <2>4, <3>1, <3>2, <3>3 DEF ToldInv
  <2>9. PassedInv'
    <3>1. \A d \in Calls : d # c => call'[d] = call[d]
      BY <1>7, FailFacts
    <3>2. overtaken' = (overtaken \ {c}) \cup
            (IF retry = 0 THEN {} ELSE { d \in Calls \ {c} : Reserving(d) /\ Asked(d) = p })
      BY <1>7 DEF Fail, p
    <3>3. call'[c].at = "asking" => told'[Route[call'[c].place]] <= now + 1
      <4>1. call'[c].at = "asking" => /\ Route[call'[c].place] \in Providers
                                      /\ ~Open(blocked', Route[call'[c].place])
        BY <1>7, FailFacts, RouteFacts
      <4>2. QED
        BY <1>1, <2>1, <2>4, <2>5, <2>8, <4>1 DEF ToldInv, Open
    <3>4. ASSUME NEW d \in Calls, d # c, Reserving(d), call[d].at = "asking"
          PROVE  told'[Asked(d)] <= now + 1 \/ d \in overtaken'
      <4>1. CASE retry # 0 /\ Asked(d) = p
        BY <3>2, <3>4, <4>1
      <4>2. CASE retry = 0 \/ Asked(d) # p
        <5>1. Asked(d) \in Providers
          BY <3>4, AskedFacts DEF Reserving
        <5>2. told'[Asked(d)] = told[Asked(d)]
          BY <1>1, <2>4, <4>2, <5>1
        <5>3. QED
          BY <3>2, <3>4, <5>2 DEF PassedInv
      <4>3. QED
        BY <4>1, <4>2
    <3>5. QED
      BY <2>4, <3>1, <3>3, <3>4 DEF PassedInv, Reserving, Waiting, Asked
  <2>10. QED
    BY <2>2, <2>6, <2>7, <2>8, <2>9
<1>8. ASSUME NEW c \in Calls, Send(c)
      PROVE  IInv'
  <2>1. /\ call' = [call EXCEPT ![c].sent = TRUE] /\ overtaken' = overtaken \ {c}
        /\ now' = now /\ blocked' = blocked /\ failing' = failing /\ told' = told
    BY <1>8 DEF Send
  <2>2. /\ call' \in [Calls -> CallStates] /\ call'[c].sent = TRUE
        /\ \A d \in Calls : call'[d].at = call[d].at /\ call'[d].place = call[d].place
        /\ \A d \in Calls : d # c => call'[d] = call[d]
    <3>1. [call[c] EXCEPT !.sent = TRUE] \in CallStates
      BY DEF CallInv, CallStates
    <3>2. /\ [call[c] EXCEPT !.sent = TRUE].at = call[c].at
          /\ [call[c] EXCEPT !.sent = TRUE].place = call[c].place
          /\ [call[c] EXCEPT !.sent = TRUE].sent = TRUE
      BY DEF CallInv, CallStates
    <3>3. /\ call' \in [Calls -> CallStates] /\ call'[c] = [call[c] EXCEPT !.sent = TRUE]
          /\ \A d \in Calls : d # c => call'[d] = call[d]
      BY <2>1, <3>1 DEF CallInv
    <3>4. QED
      BY <3>2, <3>3
  <2>3. CallInv'
    BY <2>2 DEF CallInv, Waiting
  <2>4. TypeOK'
    BY <1>1, <2>1, <2>3, TypeFromParts DEF TypeOK
  <2>5. OpenMeansFailing' /\ ToldInv'
    BY <2>1, <2>4 DEF OpenMeansFailing, Open, ToldInv
  <2>6. PassedInv'
    BY <2>1, <2>2 DEF PassedInv, Reserving, Waiting, Asked
  <2>7. QED
    BY <2>3, <2>4, <2>5, <2>6
<1>9. QED
  BY <1>2, <1>3, <1>4, <1>5, <1>6, <1>7, <1>8 DEF Next

(* Types, waiting calls and circuits agree with what the providers said.   *)
THEOREM Invariance == Spec => []IInv
<1>1. QED
  BY InitIInv, StepIInv, PTL DEF Spec

(* Refusals of the application's own budget open no circuit: a provider    *)
(* that calls pass over has failed since it last succeeded.                *)
THEOREM OpenOnlyWhileFailing == Spec => []OpenMeansFailing
<1>1. IInv => OpenMeansFailing
  BY DEF IInv
<1>2. QED
  BY <1>1, Invariance, PTL

(* Before the latest time that a provider asked to wait for, but for the   *)
(* half second that the diagnostics round away, the first requests that it *)
(* is sent are those of calls that were let through before it asked.       *)
THEOREM CooldownsAreKept == Spec => CooldownIsKept
<1>1. ASSUME IInv, NEW c \in Calls, Send(c), call[c].at = "asking"
      PROVE  told[Asked(c)] <= now + 1 \/ c \in overtaken
  BY <1>1 DEF IInv, PassedInv, Send
<1>2. IInv /\ [Next]_vars =>
        [ \A c \in Calls :
            Send(c) /\ call[c].at = "asking" => told[Asked(c)] <= now + 1 \/ c \in overtaken ]_vars
  BY <1>1
<1>3. QED
  BY <1>2, Invariance, PTL DEF Spec, CooldownIsKept
=============================================================================
