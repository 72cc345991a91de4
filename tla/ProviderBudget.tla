----------------------------- MODULE ProviderBudget -----------------------------
(***************************************************************************)
(* The request budget of one provider, which all processes share: a row of *)
(* provider_budgets counts requests and estimated tokens in the current    *)
(* minute and the current day, under an advisory lock and by the clock of  *)
(* the database.  Background work leaves a reserve to interactive          *)
(* requests.  A reservation stays whatever becomes of its request.         *)
(*                                                                         *)
(* The clock shows a window for each period.  A day starts with a minute,  *)
(* so that waiting for a day is waiting for a minute as well; how many     *)
(* minutes a day has plays no part.                                        *)
(***************************************************************************)
EXTENDS Integers

CONSTANTS Callers,
          Background,  \* callers whose operation is in BACKGROUND_OPERATIONS
          Cost,        \* of a caller's request: one request, and its estimate
          Limit,       \* for a period and a unit; 0: no limit
          Reserve,     \* for a period and a unit, kept for interactive requests
          LastWindow   \* bound on the clock

Periods == {"minute", "day"}
Units == {"requests", "tokens"}
Classes == {"background", "interactive"}
Windows == 0..LastWindow
Clocks == [Periods -> Windows]

ASSUME CallersAssumption == Background \subseteq Callers /\ Cost \in [Callers -> [Units -> Nat]]
ASSUME LastWindowAssumption == LastWindow \in Nat
ASSUME LimitAssumption ==      \* validate_provider_reserves
  /\ Limit \in [Periods -> [Units -> Nat]] /\ Reserve \in [Periods -> [Units -> Nat]]
  /\ \A p \in Periods, u \in Units : Reserve[p][u] # 0 => Reserve[p][u] < Limit[p][u]

VARIABLES
  clock,     \* of the database
  budget,    \* the row: for each period a window and what was used in it
  caller,    \* the step of a caller and the clock that its transaction read
  spent,     \* history: what each class was granted in each window
  told       \* history: what refused callers wait for, until another is granted

vars == <<clock, budget, caller, spent, told>>

Class(c) == IF c \in Background THEN "background" ELSE "interactive"
Held(c, p, u) == IF c \in Background THEN Reserve[p][u] ELSE 0

(* Counts of an older window are over.                                     *)
Used(p, window, u) == IF budget[p].window = window THEN budget[p].used[u] ELSE 0

(* A variant with a plausible bug: background work leaves no reserve.      *)
ExceededInAll(c, at) ==
  {p \in Periods : \E u \in Units :
     Limit[p][u] # 0 /\ Used(p, at[p], u) + Cost[c][u] > Limit[p][u]}

(* admission_denial: the periods whose budget the request would pass.      *)
Exceeded(c, at) ==
  {p \in Periods : \E u \in Units :
     Limit[p][u] # 0 /\ Used(p, at[p], u) + Cost[c][u] > Limit[p][u] - Held(c, p, u)}

(* A variant with a plausible bug: the shortest reset is returned.         *)
ShortestReset(periods) == IF "minute" \in periods THEN "minute" ELSE "day"

(* The longest reset of several.                                           *)
Reset(periods) == IF "day" \in periods THEN "day" ELSE "minute"

Idle == [at |-> "idle", clock |-> [p \in Periods |-> 0]]
NotTold == [reset |-> "none", since |-> 0]

-----------------------------------------------------------------------------
Init ==
  /\ clock = [p \in Periods |-> 0]
  /\ budget = [p \in Periods |-> [window |-> 0, used |-> [u \in Units |-> 0]]]
  /\ caller = [c \in Callers |-> Idle]
  /\ told = [c \in Callers |-> NotTold]
  /\ spent = [k \in Classes |-> [p \in Periods |-> [w \in Windows |-> [u \in Units |-> 0]]]]

Tick ==
  /\ \A p \in Periods : clock[p] < LastWindow
  /\ clock' \in {[clock EXCEPT !["minute"] = @ + 1], [p \in Periods |-> clock[p] + 1]}
  /\ UNCHANGED <<budget, caller, spent, told>>

Ask(c) ==
  /\ caller[c].at = "idle"
  /\ caller' = [caller EXCEPT ![c] = [Idle EXCEPT !.at = "waiting"]]
  /\ UNCHANGED <<clock, budget, spent, told>>

(* A variant with a plausible bug: the clock was read before.              *)
LockReadingEarly(c) ==
  /\ caller[c].at = "waiting" /\ \A d \in Callers : caller[d].at # "deciding"
  /\ \E early \in Clocks :
       /\ \A p \in Periods : early[p] <= clock[p]
       /\ caller' = [caller EXCEPT ![c] = [at |-> "deciding", clock |-> early]]
  /\ UNCHANGED <<clock, budget, spent, told>>

(* pg_advisory_xact_lock, and only then clock_timestamp.                   *)
Lock(c) ==
  /\ caller[c].at = "waiting" /\ \A d \in Callers : caller[d].at # "deciding"
  /\ caller' = [caller EXCEPT ![c] = [at |-> "deciding", clock |-> clock]]
  /\ UNCHANGED <<clock, budget, spent, told>>

(* The row is brought to the windows read, and the request added.          *)
Commit(c) ==
  LET at == caller[c].clock IN
  /\ Exceeded(c, at) = {}
  /\ budget' = [p \in Periods |->
                  [window |-> at[p],
                   used |-> [u \in Units |-> Used(p, at[p], u) + Cost[c][u]]]]
  /\ spent' = [spent EXCEPT ![Class(c)] =
                 [p \in Periods |->
                    [w \in Windows |->
                       [u \in Units |-> @[p][w][u] + (IF w = at[p] THEN Cost[c][u] ELSE 0)]]]]
  /\ told' = [d \in Callers |-> NotTold]

Grant(c) ==
  /\ caller[c].at = "deciding" /\ Commit(c)
  /\ caller' = [caller EXCEPT ![c] = [Idle EXCEPT !.at = "granted"]]
  /\ UNCHANGED clock

(* SharedProviderBudgetExceeded: the transaction rolls back.               *)
Deny(c) ==
  LET at == caller[c].clock
      reset == Reset(Exceeded(c, at))
  IN
  /\ caller[c].at = "deciding" /\ Exceeded(c, at) # {}
  /\ told' = [told EXCEPT ![c] = [reset |-> reset, since |-> at[reset]]]
  /\ caller' = [caller EXCEPT ![c] = Idle]
  /\ UNCHANGED <<clock, budget, spent>>

(* A lost connection, cancellation or the end of the process; a reservation*)
(* may have been committed all the same.                                   *)
Stop(c) ==
  /\ caller[c].at \in {"waiting", "deciding", "granted"}
  /\ \/ caller[c].at = "deciding" /\ Commit(c)
     \/ UNCHANGED <<budget, spent, told>>
  /\ caller' = [caller EXCEPT ![c] = Idle]
  /\ UNCHANGED clock

(* provider_metrics.observe sends the request.                             *)
Send(c) ==
  /\ caller[c].at = "granted"
  /\ caller' = [caller EXCEPT ![c] = Idle]
  /\ UNCHANGED <<clock, budget, spent, told>>

Next ==
  \/ Tick
  \/ \E c \in Callers : Ask(c) \/ Lock(c) \/ Grant(c) \/ Deny(c) \/ Stop(c) \/ Send(c)

Spec == Init /\ [][Next]_vars

-----------------------------------------------------------------------------
Rows == [window : Windows, used : [Units -> Nat]]
Sessions == [at : {"idle", "waiting", "deciding", "granted"}, clock : Clocks]
Notices == [reset : {"none", "minute", "day"}, since : Windows]

(* A row is never above its limits.                                        *)
TypeOK ==
  /\ clock \in Clocks /\ budget \in [Periods -> Rows]
  /\ \A p \in Periods, u \in Units : Limit[p][u] # 0 => budget[p].used[u] <= Limit[p][u]
  /\ caller \in [Callers -> Sessions] /\ told \in [Callers -> Notices]
  /\ spent \in [Classes -> [Periods -> [Windows -> [Units -> Nat]]]]

(* All processes together are granted no more in any minute or day than    *)
(* the limits, although each may wait for the lock across the end of it.   *)
WindowsRespected ==
  \A p \in Periods, w \in Windows, u \in Units :
    Limit[p][u] # 0 =>
      spent["background"][p][w][u] + spent["interactive"][p][w][u] <= Limit[p][u]

(* An interactive request is refused only where interactive requests have  *)
(* used up what background work has to leave them.                         *)
InteractiveHoldback ==
  [][\A c \in Callers \ Background : Deny(c) =>
       \E p \in Periods, u \in Units :
         /\ Limit[p][u] # 0
         /\ spent["interactive"][p][caller[c].clock[p]][u] + Cost[c][u] > Reserve[p][u]]_vars

(* A caller that waits as it was told, while nobody else is granted        *)
(* anything, is not refused again, unless its request is too large for an  *)
(* empty window.                                                           *)
Fits(c) == \A p \in Periods, u \in Units :
  Limit[p][u] # 0 => Cost[c][u] + Held(c, p, u) <= Limit[p][u]
RetrySucceeds ==
  [][\A c \in Callers : Fits(c) /\ told[c] # NotTold /\ Deny(c) =>
       caller[c].clock[told[c].reset] = told[c].since]_vars
=============================================================================
