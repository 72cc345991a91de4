---------------------------- MODULE ProviderFailover ----------------------------
(***************************************************************************)
(* The calls of one process to its text providers with LLM_PROVIDER=groq:  *)
(* the batches of a concept graph and the answers to questions take the    *)
(* same route, and share a circuit breaker that keeps them from a provider *)
(* that failed (ProviderCircuitBreaker, IngestionService._extract_with_    *)
(* failover, SynthesisService._synthesize_with_failover_metadata).  A call *)
(* that the breaker lets through waits for its budget, sends its request   *)
(* without asking the breaker again, and waits for the provider; what the  *)
(* others do to the breaker happens meanwhile.  From an answer to the next *)
(* question to the breaker it does not wait.                               *)
(* Time is counted in half seconds.                                        *)
(***************************************************************************)
EXTENDS Integers, Sequences, FiniteSets

CONSTANTS Calls,
          Keys,            \* the providers with a key
          RepairEnabled,   \* graph_json_repair_enabled
          Cooldown,        \* llm_failover_cooldown_seconds
          RetryAfters,     \* what a provider may ask to wait; 0: it does not say
          LastTime         \* bound on the clock

Providers == {"groq", "gemini", "cerebras"}

ASSUME FailoverAssumption ==
  /\ Keys \subseteq Providers /\ RepairEnabled \in BOOLEAN
  /\ Cooldown \in Nat /\ RetryAfters \subseteq Nat /\ LastTime \in Nat

VARIABLES now,
          blocked,     \* _blocked_until; 0: no entry
          call,        \* what each call is doing
          failing,     \* history: providers that failed since they last succeeded
          told,        \* history: until when a provider asked to be left alone, since it
                       \* last succeeded
          overtaken    \* history: the calls let through that have not sent their request, when
                       \* their provider asked to be left alone

vars == <<now, blocked, call, failing, told, overtaken>>

Kinds == {"graph", "answer"}
Idle == [at |-> "idle", kind |-> "graph", place |-> 0, repair |-> 0, sent |-> FALSE]

Later(a, b) == IF a < b THEN b ELSE a

\* _graph_provider_route; the route of an answer is the same one.
Route == (IF "groq" \in Keys THEN <<"groq">> ELSE <<>>)
         \o (IF "gemini" \in Keys THEN <<"gemini">> ELSE IF "cerebras" \in Keys THEN <<"cerebras">> ELSE <<>>)

TypeOK ==
  /\ now \in 0 .. LastTime
  /\ blocked \in [Providers -> Nat]
  /\ \A c \in Calls : /\ call[c].at \in {"idle", "asking", "repairing"} /\ call[c].kind \in Kinds
                      /\ call[c].place \in 0 .. Len(Route) /\ call[c].repair \in 0 .. Len(Route)
                      /\ call[c].sent \in BOOLEAN
  /\ failing \subseteq Providers
  /\ told \in [Providers -> Nat]
  /\ overtaken \subseteq Calls

Init ==
  /\ now = 0
  /\ blocked = [ p \in Providers |-> 0 ]
  /\ call = [ c \in Calls |-> Idle ]
  /\ failing = {}
  /\ told = [ p \in Providers |-> 0 ]
  /\ overtaken = {}

-----------------------------------------------------------------------------
\* The breaker.

\* is_available; an entry whose time has come is as good as none.
Open(b, p) == b[p] > now

(* Variants with a plausible bug: the last word counts, not the longest; a  *)
(* refusal of the application's own budget opens the circuit.               *)
BlockLastWord(p, outcome, retry) ==
  IF outcome = "denied" THEN blocked ELSE [blocked EXCEPT ![p] = now + Later(Cooldown, retry)]
BlockOnDenial(p, outcome, retry) ==
  [blocked EXCEPT ![p] = Later(@, now + Later(Cooldown, retry))]

\* block: not for a refusal of the application's own budget, and never for less than before.
Block(p, outcome, retry) ==
  IF outcome = "denied" THEN blocked
  ELSE [blocked EXCEPT ![p] = Later(@, now + Later(Cooldown, retry))]

\* status, of the diagnostics page: an entry with less than half a second left is forgotten.
Status ==
  /\ blocked' = [ p \in Providers |-> IF blocked[p] <= now + 1 THEN 0 ELSE blocked[p] ]
  /\ UNCHANGED <<now, call, failing, told, overtaken>>

-----------------------------------------------------------------------------
\* A call: on its way along the route, with the breaker b.

\* The next provider whose circuit is closed; after the last one a repair at the provider
\* whose answer was the last and had not the right structure, whatever its circuit; else the
\* end: a batch fails, a question is answered from its passages alone.
Proceed(r, b, from) ==
  LET closed == { i \in from .. Len(Route) : ~Open(b, Route[i]) }
  IN  CASE closed # {} ->
             [r EXCEPT !.at = "asking", !.sent = FALSE,
                       !.place = CHOOSE i \in closed : \A j \in closed : i <= j]
        [] closed = {} /\ r.repair # 0 /\ RepairEnabled ->
             [r EXCEPT !.at = "repairing", !.sent = FALSE, !.place = r.repair]
        [] OTHER -> Idle

Waiting(c) == call[c].at # "idle"
Asked(c) == Route[call[c].place]

\* It was let through, and waits for its budget or for a thread.
Reserving(c) == Waiting(c) /\ ~call[c].sent

Enter(c, kind) ==
  /\ ~Waiting(c)
  /\ call' = [call EXCEPT ![c] = Proceed([Idle EXCEPT !.kind = kind], blocked, 1)]
  /\ UNCHANGED <<now, blocked, failing, told, overtaken>>

\* observe_provider_call, after the reservation.
Send(c) ==
  /\ Reserving(c)
  /\ call' = [call EXCEPT ![c].sent = TRUE]
  /\ overtaken' = overtaken \ {c}
  /\ UNCHANGED <<now, blocked, failing, told>>

\* record_success.
Succeed(c) ==
  /\ Waiting(c) /\ call[c].sent
  /\ LET p == Asked(c) IN
       /\ blocked' = [blocked EXCEPT ![p] = 0]
       /\ failing' = failing \ {p}
       /\ told' = [told EXCEPT ![p] = 0]
  /\ call' = [call EXCEPT ![c] = Idle]
  /\ UNCHANGED <<now, overtaken>>

\* What comes of a request: refused by the shared budget, or for want of its storage, before it is
\* sent; lost on the way; an HTTP status; a body that is no completion, an empty completion, one that was cut off;
\* one that is no graph, or no answer (the question again).  "schema" is Groq's refusal, 400, of
\* the graph that its model had generated.
Lost == {"timeout", "unreachable"}
Statuses == {"400", "401", "402", "403", "404", "422", "429", "503"}
Bodies == {"garbled", "empty", "truncated", "unusable"}
Events == {"denied", "storage"} \cup Lost \cup Statuses \cup {"schema"} \cup Bodies

\* Groq's SDK: of its exceptions some are caught nowhere.
GroqOutcome(event) ==
  CASE event \in Lost \cup {"503"}                -> "down"
    [] event \in {"401", "403"}                   -> "key"
    [] event = "429"                              -> "quota"
    [] event \in {"402", "404", "422", "garbled"} -> "unhandled"
    [] OTHER                                      -> "request"

\* A key without billing has no quota.
CerebrasOutcome(event) ==
  CASE event \in Lost \cup {"503", "garbled", "empty"} -> "down"
    [] event \in {"401", "403"}                        -> "key"
    [] event \in {"402", "429"}                        -> "quota"
    [] OTHER                                           -> "request"

GeminiOutcome(event) ==
  CASE event \in Lost \cup {"503", "garbled", "empty"} -> "down"
    [] event \in {"401", "403", "404"}                 -> "key"
    [] event = "429"                                   -> "quota"
    [] OTHER                                           -> "request"

\* What is no graph; an empty completion of Groq is read as {}.
GroqGraph(event) ==
  IF event \in {"schema", "empty", "truncated", "unusable"} THEN "structure" ELSE GroqOutcome(event)
CerebrasGraph(event) ==
  IF event \in {"truncated", "unusable"} THEN "structure" ELSE CerebrasOutcome(event)
GeminiGraph(event) ==
  IF event \in {"truncated", "unusable"} THEN "structure" ELSE GeminiOutcome(event)

\* What is no answer; Groq's empty completion comes this far.
Answer(p, event) ==
  CASE event = "unusable" \/ (p = "groq" /\ event = "empty") -> "structure"
    [] p = "groq" /\ event \notin {"empty", "unusable"}      -> GroqOutcome(event)
    [] p = "cerebras" /\ event # "unusable"                  -> CerebrasOutcome(event)
    [] p = "gemini" /\ event # "unusable"                    -> GeminiOutcome(event)

\* The exception that a call sees: "request", "key": refused as such, or for its key; "quota",
\* "down": the provider's; "structure": no graph, or no answer, in what came.
Outcome(kind, p, event) ==
  LET Asking == CASE kind = "answer"                   -> Answer(p, event)
                  [] kind = "graph" /\ p = "groq"      -> GroqGraph(event)
                  [] kind = "graph" /\ p = "cerebras"  -> CerebrasGraph(event)
                  [] kind = "graph" /\ p = "gemini"    -> GeminiGraph(event)
  IN  IF event \in {"denied", "storage"} THEN event ELSE Asking

\* Whether the time that the provider asks to wait is read (retry_after_seconds).
Read(p, event) ==
  event = "429" \/ (p = "groq" /\ event = "503") \/ (p = "cerebras" /\ event = "402")

\* The failures of a call, and whether it may be told to wait; an answer may be cut off.
Outcomes == {"denied", "storage", "structure", "request", "key", "quota", "down", "unhandled"}
Failures ==
  [ at \in Kinds \X Providers |->
      LET events == IF at[1] = "graph" THEN Events ELSE Events \ {"schema", "truncated"}
      IN  { <<Outcome(at[1], at[2], event), FALSE>> : event \in events }
          \cup { <<Outcome(at[1], at[2], event), TRUE>> : event \in { e \in events : Read(at[2], e) } } ]

\* The handlers of an answer, provider by provider, and the one of a batch.
Blocks(kind, p, outcome) ==
  \/ outcome \in {"denied", "storage", "quota", "down"}
  \/ kind = "graph" /\ outcome = "key"
  \/ kind = "answer" /\ p # "cerebras" /\ outcome \in {"structure", "request", "key"}

\* A failure, and what its call does next; a repair is the last request of its batch, and an
\* exception that no handler names ends the batch's whole build, or the question.
Fail(c, outcome, retry) ==
  /\ Waiting(c) /\ (call[c].sent <=> outcome \notin {"denied", "storage"})
  /\ <<outcome, retry # 0>> \in Failures[<<call[c].kind, Asked(c)>>]
  /\ LET p    == Asked(c)
         b    == IF Blocks(call[c].kind, p, outcome) THEN Block(p, outcome, retry) ELSE blocked
         last == IF call[c].kind = "graph" /\ outcome = "structure" THEN call[c].place ELSE 0
         r    == IF call[c].at = "repairing" \/ outcome = "unhandled" THEN Idle
                 ELSE Proceed([call[c] EXCEPT !.repair = last], b, call[c].place + 1)
     IN  /\ blocked' = b
         /\ call' = [call EXCEPT ![c] = r]
         /\ failing' = IF outcome = "denied" THEN failing ELSE failing \cup {p}
         /\ told' = IF retry = 0 THEN told ELSE [told EXCEPT ![p] = Later(@, now + retry)]
         /\ overtaken' = (overtaken \ {c}) \cup
              (IF retry = 0 THEN {} ELSE { d \in Calls \ {c} : Reserving(d) /\ Asked(d) = p })
  /\ UNCHANGED now

Tick == now < LastTime /\ now' = now + 1 /\ UNCHANGED <<blocked, call, failing, told, overtaken>>

Next ==
  \/ Status \/ Tick
  \/ \E c \in Calls :
       \/ \E kind \in Kinds : Enter(c, kind)
       \/ Send(c) \/ Succeed(c)
       \/ \E outcome \in Outcomes, retry \in RetryAfters \cup {0} : Fail(c, outcome, retry)

Spec == Init /\ [][Next]_vars

-----------------------------------------------------------------------------
(***************************************************************************)
(* A cooldown honours the reset and is not shortened by a failure: before  *)
(* the latest time that a provider asked to wait for in any answer since   *)
(* it last succeeded, but for the half second that the diagnostics round   *)
(* away, the only first requests it is sent are those of calls that the    *)
(* breaker had let through before the provider asked and that were waiting *)
(* for their budget then.                                                  *)
(***************************************************************************)
CooldownIsKept ==
  [][ \A c \in Calls :
        Send(c) /\ call[c].at = "asking" => told[Asked(c)] <= now + 1 \/ c \in overtaken ]_vars

(***************************************************************************)
(* Refusals of the application's own budget open no circuit: a provider    *)
(* that calls pass over has failed, or its budget could not be read, since *)
(* it last succeeded.  Otherwise a holdback of background work would keep  *)
(* the next question from the capacity that is reserved for it.            *)
(***************************************************************************)
OpenMeansFailing == TypeOK /\ \A p \in Providers : Open(blocked, p) => p \in failing
===============================================================================
