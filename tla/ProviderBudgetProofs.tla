-------------------------- MODULE ProviderBudgetProofs --------------------------
(***************************************************************************)
(* Theorems about ProviderBudget, for any callers, costs, limits and       *)
(* reserves, and any bound on the clock, and about GraphExtraction and the *)
(* choices of GraphBatches, for any batches, sections and budget of a build.*)
(***************************************************************************)
EXTENDS ProviderBudget, Sequences, FiniteSetTheorems, TLAPS

-----------------------------------------------------------------------------
(* At most one transaction has the lock.                                   *)
LockInv == \A c, d \in Callers :
  caller[c].at = "deciding" /\ caller[d].at = "deciding" => c = d

(* The row is no newer than what its owner read, which is no newer than    *)
(* the clock.                                                              *)
ClockInv ==
  \A p \in Periods :
    /\ budget[p].window <= clock[p]
    /\ \A c \in Callers : caller[c].at = "deciding" =>
         budget[p].window <= caller[c].clock[p] /\ caller[c].clock[p] <= clock[p]

(* A new day since a caller read the clock is a new minute too.            *)
DayInv == \A c \in Callers :
  caller[c].at = "deciding" /\ caller[c].clock["day"] < clock["day"] =>
    caller[c].clock["minute"] < clock["minute"]

(* The row counts what was granted in its window, and nothing was granted  *)
(* in a later one.                                                         *)
RowInv ==
  \A p \in Periods, u \in Units :
    /\ budget[p].used[u] = spent["background"][p][budget[p].window][u]
                             + spent["interactive"][p][budget[p].window][u]
    /\ \A w \in Windows, k \in Classes : w > budget[p].window => spent[k][p][w][u] = 0

(* Background work never enters the reserve.                               *)
ReserveInv ==
  \A p \in Periods, w \in Windows, u \in Units :
    Limit[p][u] # 0 => spent["background"][p][w][u] <= Limit[p][u] - Reserve[p][u]

(* While nobody is granted anything, a refused caller that waits finds     *)
(* room in the other period too.                                           *)
RoomIn(c, p) == \A u \in Units :
  Limit[p][u] # 0 => budget[p].used[u] + Cost[c][u] <= Limit[p][u] - Held(c, p, u)
Waits(c, now) ==
  LET r == told[c].reset IN
  /\ r \in Periods => budget[r].window <= told[c].since /\ told[c].since <= now[r]
  /\ r = "minute" => RoomIn(c, "day") \/ budget["day"].window < now["day"]
  /\ r = "day" /\ told[c].since < now["day"] => budget["minute"].window < now["minute"]
WaitInv ==
  \A c \in Callers :
    /\ told[c].reset = "none" => told[c] = NotTold
    /\ Waits(c, clock)
    /\ caller[c].at = "deciding" => Waits(c, caller[c].clock)

IInv ==
  /\ TypeOK /\ LockInv /\ ClockInv /\ DayInv /\ RowInv
  /\ ReserveInv /\ WindowsRespected /\ WaitInv

-----------------------------------------------------------------------------
LEMMA InitIInv == Init => IInv
<1> SUFFICES ASSUME Init PROVE IInv
  OBVIOUS
<1> USE CallersAssumption, LastWindowAssumption, LimitAssumption DEF Init
<1>1. 0 \in Windows
  BY DEF Windows
<1>2. TypeOK
  BY <1>1 DEF TypeOK, Clocks, Rows, Sessions, Notices, Idle, NotTold, Windows
<1>3. LockInv /\ ClockInv /\ DayInv
  BY DEF LockInv, ClockInv, DayInv, Idle
<1>4. RowInv
  BY <1>1 DEF RowInv, Classes
<1>5. ReserveInv /\ WindowsRespected
  <2> SUFFICES ASSUME NEW p \in Periods, NEW w \in Windows, NEW u \in Units, Limit[p][u] # 0
               PROVE  /\ spent["background"][p][w][u] <= Limit[p][u] - Reserve[p][u]
                      /\ spent["background"][p][w][u] + spent["interactive"][p][w][u] <= Limit[p][u]
    BY DEF ReserveInv, WindowsRespected
  <2>1. spent["background"][p][w][u] = 0 /\ spent["interactive"][p][w][u] = 0
    BY DEF Classes
  <2>2. Limit[p][u] \in Nat /\ Reserve[p][u] \in Nat /\ (Reserve[p][u] = 0 \/ Reserve[p][u] < Limit[p][u])
    OBVIOUS
  <2> QED
    BY <2>1, <2>2
<1>7. WaitInv
  BY DEF WaitInv, Waits, NotTold, Idle, Periods
<1> QED
  BY <1>2, <1>3, <1>4, <1>5, <1>7 DEF IInv

-----------------------------------------------------------------------------
(* What the row counts for the window that a transaction read is what was  *)
(* granted in that window.                                                 *)
LEMMA UsedIsSpent ==
  ASSUME IInv, NEW c \in Callers, caller[c].at = "deciding", NEW p \in Periods, NEW u \in Units
  PROVE  Used(p, caller[c].clock[p], u) =
           spent["background"][p][caller[c].clock[p]][u]
             + spent["interactive"][p][caller[c].clock[p]][u]
<1> DEFINE new == caller[c].clock[p]
           old == budget[p].window
<1>1. new \in Windows /\ old \in Windows
  BY DEF IInv, TypeOK, Sessions, Clocks, Rows
<1>2. CASE old = new
  BY <1>2 DEF Used, IInv, RowInv
<1>3. CASE old # new
  <2>1. old <= new
    BY DEF IInv, ClockInv
  <2>2. old \in Int /\ new \in Int
    BY <1>1, LastWindowAssumption DEF Windows
  <2> HIDE DEF old, new
  <2>3. new > old
    BY <1>3, <2>1, <2>2
  <2>4. caller[c].clock[p] > budget[p].window
    BY <2>3 DEF old, new
  <2>5. /\ spent["background"][p][caller[c].clock[p]][u] = 0
        /\ spent["interactive"][p][caller[c].clock[p]][u] = 0
    BY <1>1, <2>4 DEF IInv, RowInv, Classes, new
  <2> QED
    BY <1>3, <2>5 DEF Used, old, new
<1> QED
  BY <1>2, <1>3

(* What a transaction that finds room does to row and history.             *)
LEMMA CommitStep ==
  ASSUME IInv, NEW c \in Callers, caller[c].at = "deciding", Commit(c)
  PROVE  /\ budget' \in [Periods -> Rows]
         /\ \A p \in Periods, u \in Units : Limit[p][u] # 0 => budget'[p].used[u] <= Limit[p][u]
         /\ spent' \in [Classes -> [Periods -> [Windows -> [Units -> Nat]]]]
         /\ \A p \in Periods : budget'[p].window = caller[c].clock[p]
         /\ RowInv' /\ ReserveInv' /\ WindowsRespected'
<1> DEFINE at == caller[c].clock
<1> USE CallersAssumption, LastWindowAssumption, LimitAssumption
<1>1. /\ at \in Clocks /\ Cost[c] \in [Units -> Nat]
      /\ \A p \in Periods, u \in Units : Cost[c][u] \in Nat /\ at[p] \in Windows
  BY DEF IInv, TypeOK, Sessions, Clocks
<1>2. \A p \in Periods : budget[p].window \in Windows /\ budget[p].used \in [Units -> Nat]
  BY DEF IInv, TypeOK, Rows
<1>3. \A p \in Periods, u \in Units : Used(p, at[p], u) \in Nat
  BY <1>2 DEF Used
<1>4. /\ budget' = [p \in Periods |->
                      [window |-> at[p],
                       used |-> [u \in Units |-> Used(p, at[p], u) + Cost[c][u]]]]
      /\ Exceeded(c, at) = {}
  BY DEF Commit
<1>5. budget' \in [Periods -> Rows]
  <2>1. \A p \in Periods : [u \in Units |-> Used(p, at[p], u) + Cost[c][u]] \in [Units -> Nat]
    BY <1>1, <1>3
  <2>2. \A p \in Periods :
          [window |-> at[p], used |-> [u \in Units |-> Used(p, at[p], u) + Cost[c][u]]] \in Rows
    <3> TAKE p \in Periods
    <3> QED
      BY <1>1, <2>1, Zenon DEF Rows, Clocks
  <2> QED
    BY <1>4, <2>2
<1>6. \A p \in Periods : /\ budget'[p].window = at[p]
                         /\ \A u \in Units : budget'[p].used[u] = Used(p, at[p], u) + Cost[c][u]
  BY <1>4
<1>7. \A p \in Periods, u \in Units :
        Limit[p][u] # 0 => Used(p, at[p], u) + Cost[c][u] <= Limit[p][u] - Held(c, p, u)
  <2> SUFFICES ASSUME NEW p \in Periods, NEW u \in Units, Limit[p][u] # 0
               PROVE  Used(p, at[p], u) + Cost[c][u] <= Limit[p][u] - Held(c, p, u)
    OBVIOUS
  <2>1. Held(c, p, u) \in Nat /\ Limit[p][u] \in Nat
    BY DEF Held
  <2>2. ~(Used(p, at[p], u) + Cost[c][u] > Limit[p][u] - Held(c, p, u))
    BY <1>4 DEF Exceeded
  <2> QED
    BY <1>1, <1>3, <2>1, <2>2
<1>8. \A p \in Periods, u \in Units : Held(c, p, u) \in Nat /\ Limit[p][u] \in Nat
  BY DEF Held
<1>9. \A p \in Periods, u \in Units : Limit[p][u] # 0 => budget'[p].used[u] <= Limit[p][u]
  BY <1>1, <1>3, <1>6, <1>7, <1>8
<1>10. Class(c) \in Classes
  BY DEF Class, Classes
<1>11. /\ spent \in [Classes -> [Periods -> [Windows -> [Units -> Nat]]]]
       /\ spent' = [spent EXCEPT ![Class(c)] =
                      [p \in Periods |->
                         [w \in Windows |->
                            [u \in Units |-> @[p][w][u] + (IF w = at[p] THEN Cost[c][u] ELSE 0)]]]]
  BY DEF IInv, TypeOK, Commit
<1>12. \A k \in Classes, p \in Periods, w \in Windows, u \in Units :
         /\ spent[k][p][w][u] \in Nat
         /\ spent'[k][p][w][u] =
              spent[k][p][w][u] + (IF k = Class(c) /\ w = at[p] THEN Cost[c][u] ELSE 0)
  BY <1>1, <1>10, <1>11
<1>13. spent' \in [Classes -> [Periods -> [Windows -> [Units -> Nat]]]]
  <2>1. \A p \in Periods, w \in Windows, u \in Units :
          spent[Class(c)][p][w][u] + (IF w = at[p] THEN Cost[c][u] ELSE 0) \in Nat
    BY <1>1, <1>10, <1>12
  <2>2. [p \in Periods |->
           [w \in Windows |->
              [u \in Units |-> spent[Class(c)][p][w][u]
                                 + (IF w = at[p] THEN Cost[c][u] ELSE 0)]]]
          \in [Periods -> [Windows -> [Units -> Nat]]]
    BY <2>1
  <2> QED
    BY <1>10, <1>11, <2>2
<1>14. \A p \in Periods : budget[p].window <= at[p]
  BY DEF IInv, ClockInv
<1>15. \A p \in Periods, u \in Units :
         Used(p, at[p], u) = spent["background"][p][at[p]][u] + spent["interactive"][p][at[p]][u]
  BY UsedIsSpent
<1>16. "background" \in Classes /\ "interactive" \in Classes
       /\ (Class(c) = "background" \/ Class(c) = "interactive")
  BY DEF Classes, Class
<1>17. RowInv'
  <2> SUFFICES ASSUME NEW p \in Periods, NEW u \in Units
               PROVE  /\ budget'[p].used[u] = spent'["background"][p][budget'[p].window][u]
                                                + spent'["interactive"][p][budget'[p].window][u]
                      /\ \A w \in Windows, k \in Classes :
                           w > budget'[p].window => spent'[k][p][w][u] = 0
    BY DEF RowInv
  <2>1. spent'["background"][p][at[p]][u] + spent'["interactive"][p][at[p]][u]
          = spent["background"][p][at[p]][u] + spent["interactive"][p][at[p]][u] + Cost[c][u]
    BY <1>1, <1>12, <1>16
  <2>2. ASSUME NEW w \in Windows, NEW k \in Classes, w > at[p]
        PROVE  spent'[k][p][w][u] = 0
    <3>1. w > budget[p].window /\ w # at[p]
      BY <1>1, <1>2, <1>14, <2>2 DEF Windows
    <3>2. spent[k][p][w][u] = 0
      BY <3>1 DEF IInv, RowInv
    <3> QED
      BY <1>12, <3>1, <3>2
  <2> QED
    BY <1>6, <1>15, <2>1, <2>2
<1>18. ReserveInv' /\ WindowsRespected'
  <2> SUFFICES ASSUME NEW p \in Periods, NEW w \in Windows, NEW u \in Units, Limit[p][u] # 0
               PROVE  /\ spent'["background"][p][w][u] <= Limit[p][u] - Reserve[p][u]
                      /\ spent'["background"][p][w][u] + spent'["interactive"][p][w][u] <= Limit[p][u]
    BY DEF ReserveInv, WindowsRespected
  <2>1. /\ spent["background"][p][w][u] <= Limit[p][u] - Reserve[p][u]
        /\ spent["background"][p][w][u] + spent["interactive"][p][w][u] <= Limit[p][u]
    BY DEF IInv, ReserveInv, WindowsRespected
  <2>2. CASE w # at[p]
    BY <1>12, <1>16, <2>1, <2>2
  <2>3. CASE w = at[p]
    <3>1. spent["background"][p][w][u] + spent["interactive"][p][w][u] + Cost[c][u]
            <= Limit[p][u] - Held(c, p, u)
      BY <1>7, <1>15, <2>3
    <3>2. /\ Limit[p][u] \in Nat /\ Reserve[p][u] \in Nat /\ Held(c, p, u) \in Nat
          /\ Cost[c][u] \in Nat
          /\ spent["background"][p][w][u] \in Nat /\ spent["interactive"][p][w][u] \in Nat
      BY <1>1, <1>8, <1>12, <1>16
    <3>3. CASE c \in Background
      <4>1. /\ spent'["background"][p][w][u] = spent["background"][p][w][u] + Cost[c][u]
            /\ spent'["interactive"][p][w][u] = spent["interactive"][p][w][u]
        BY <1>12, <1>16, <2>3, <3>2, <3>3 DEF Class
      <4>2. Held(c, p, u) = Reserve[p][u]
        BY <3>3 DEF Held
      <4> QED
        BY <3>1, <3>2, <4>1, <4>2
    <3>4. CASE c \notin Background
      <4>1. /\ spent'["background"][p][w][u] = spent["background"][p][w][u]
            /\ spent'["interactive"][p][w][u] = spent["interactive"][p][w][u] + Cost[c][u]
        BY <1>12, <1>16, <2>3, <3>2, <3>4 DEF Class
      <4> QED
        BY <2>1, <3>1, <3>2, <4>1
    <3> QED
      BY <3>3, <3>4
  <2> QED
    BY <2>2, <2>3
<1> QED
  BY <1>5, <1>6, <1>9, <1>13, <1>17, <1>18

-----------------------------------------------------------------------------
(* A row that stays keeps its part of the invariant.                       *)
LEMMA RowStays ==
  ASSUME IInv, UNCHANGED <<budget, spent>>
  PROVE  /\ budget' \in [Periods -> Rows]
         /\ \A p \in Periods, u \in Units : Limit[p][u] # 0 => budget'[p].used[u] <= Limit[p][u]
         /\ spent' \in [Classes -> [Periods -> [Windows -> [Units -> Nat]]]]
         /\ RowInv' /\ ReserveInv' /\ WindowsRespected'
BY DEF IInv, TypeOK, RowInv, ReserveInv, WindowsRespected

LEMMA TickStep == IInv /\ Tick => IInv'
<1> SUFFICES ASSUME IInv, Tick PROVE IInv'
  OBVIOUS
<1> USE LastWindowAssumption
<1>1. /\ UNCHANGED <<budget, caller, spent, told>>
      /\ \A p \in Periods : clock[p] \in Windows
  BY DEF Tick, IInv, TypeOK, Clocks
<1>2. /\ clock' \in Clocks
      /\ \A p \in Periods : clock'[p] = clock[p] \/ clock'[p] = clock[p] + 1
      /\ clock'["minute"] = clock["minute"] + 1
  <2>1. /\ clock \in Clocks /\ \A p \in Periods : clock[p] < LastWindow
        /\ \/ clock' = [clock EXCEPT !["minute"] = @ + 1]
           \/ clock' = [p \in Periods |-> clock[p] + 1]
    BY DEF Tick, IInv, TypeOK
  <2>2. \A p \in Periods : clock[p] + 1 \in Windows
    BY <1>1, <2>1 DEF Windows
  <2>3. "minute" \in Periods
    BY DEF Periods
  <2> QED
    BY <1>1, <2>1, <2>2, <2>3 DEF Clocks
<1>3. \A p \in Periods : /\ clock[p] \in Nat /\ clock'[p] \in Nat
                         /\ clock[p] <= clock'[p]
                         /\ budget[p].window \in Nat
  <2> TAKE p \in Periods
  <2>1. clock[p] \in Nat /\ clock'[p] \in Nat
    BY <1>1, <1>2 DEF Windows, Clocks
  <2>2. budget[p].window \in Nat
    BY DEF Windows, IInv, TypeOK, Rows
  <2> QED
    BY <1>2, <2>1, <2>2
<1>4. TypeOK'
  BY <1>1, <1>2, RowStays DEF IInv, TypeOK
<1>5. LockInv'
  BY <1>1 DEF IInv, LockInv
<1>6. ClockInv'
  <2> SUFFICES ASSUME NEW p \in Periods
               PROVE  /\ budget[p].window <= clock'[p]
                      /\ \A c \in Callers : caller[c].at = "deciding" =>
                           /\ budget[p].window <= caller[c].clock[p]
                           /\ caller[c].clock[p] <= clock'[p]
    BY <1>1 DEF ClockInv
  <2>1. budget[p].window <= clock'[p]
    BY <1>3 DEF IInv, ClockInv
  <2>2. ASSUME NEW c \in Callers, caller[c].at = "deciding"
        PROVE  /\ budget[p].window <= caller[c].clock[p]
               /\ caller[c].clock[p] <= clock'[p]
    <3>1. budget[p].window <= caller[c].clock[p] /\ caller[c].clock[p] <= clock[p]
      BY <2>2 DEF IInv, ClockInv
    <3>2. caller[c].clock[p] \in Nat
      BY DEF IInv, TypeOK, Sessions, Clocks, Windows
    <3> QED
      BY <1>3, <3>1, <3>2
  <2> QED
    BY <2>1, <2>2
<1>9. DayInv'
  <2> SUFFICES ASSUME NEW c \in Callers, caller[c].at = "deciding"
               PROVE  caller[c].clock["minute"] < clock'["minute"]
    BY <1>1 DEF DayInv
  <2>1. "minute" \in Periods
    BY DEF Periods
  <2>2. caller[c].clock["minute"] <= clock["minute"]
    BY <2>1 DEF IInv, ClockInv
  <2>3. caller[c].clock["minute"] \in Nat
    BY <2>1 DEF IInv, TypeOK, Sessions, Clocks, Windows
  <2> QED
    BY <1>2, <1>3, <2>1, <2>2, <2>3
<1>8. WaitInv'
  <2> SUFFICES ASSUME NEW c \in Callers PROVE Waits(c, clock)'
    BY <1>1 DEF IInv, WaitInv, Waits, RoomIn
  <2>1. Waits(c, clock)
    BY DEF IInv, WaitInv
  <2>2. told[c].since \in Nat
    BY DEF IInv, TypeOK, Notices, Windows
  <2>3. "day" \in Periods /\ "minute" \in Periods
    BY DEF Periods
  <2>4. RoomIn(c, "day")' <=> RoomIn(c, "day")
    BY <1>1 DEF RoomIn
  <2> DEFINE r == told[c].reset
  <2>5. r \in Periods => budget[r].window <= told[c].since /\ told[c].since <= clock'[r]
    BY <1>3, <2>1, <2>2 DEF Waits
  <2>6. r = "minute" => RoomIn(c, "day") \/ budget["day"].window < clock'["day"]
    BY <1>3, <2>1, <2>3 DEF Waits
  <2>7. budget["minute"].window < clock'["minute"]
    <3>1. budget["minute"].window <= clock["minute"]
      BY <2>3 DEF IInv, ClockInv
    <3> QED
      BY <1>2, <1>3, <2>3, <3>1
  <2> QED
    BY <1>1, <2>4, <2>5, <2>6, <2>7 DEF Waits
<1> QED
  BY <1>1, <1>4, <1>5, <1>6, <1>8, <1>9, RowStays DEF IInv

-----------------------------------------------------------------------------
(* A caller that gets neither the lock nor a reservation.                  *)
LEMMA QuietStep ==
  ASSUME NEW c \in Callers, IInv, UNCHANGED <<clock, budget, spent, told>>,
         NEW at \in {"idle", "waiting"}, caller' = [caller EXCEPT ![c] = [Idle EXCEPT !.at = at]]
  PROVE  IInv'
<1>1. 0 \in Windows
  BY LastWindowAssumption DEF Windows
<1>2. TypeOK'
  BY <1>1, RowStays DEF IInv, TypeOK, Sessions, Clocks, Idle
<1>3. \A d \in Callers : caller'[d].at = "deciding" => caller'[d] = caller[d]
  BY DEF IInv, TypeOK, Idle
<1>4. LockInv'
  <2> SUFFICES ASSUME NEW d \in Callers, NEW e \in Callers,
                      caller'[d].at = "deciding", caller'[e].at = "deciding"
               PROVE  d = e
    BY DEF LockInv
  <2> QED
    BY <1>3 DEF IInv, LockInv
<1>5. ClockInv' /\ DayInv' /\ WaitInv'
  BY <1>3 DEF IInv, ClockInv, DayInv, WaitInv, Waits, RoomIn
<1> QED
  BY <1>2, <1>4, <1>5, RowStays DEF IInv

LEMMA AskStep == ASSUME NEW c \in Callers PROVE IInv /\ Ask(c) => IInv'
BY QuietStep DEF Ask

LEMMA LockStep == ASSUME NEW c \in Callers PROVE IInv /\ Lock(c) => IInv'
<1> SUFFICES ASSUME IInv, Lock(c) PROVE IInv'
  OBVIOUS
<1>1. /\ UNCHANGED <<clock, budget, spent, told>>
      /\ caller' = [caller EXCEPT ![c] = [at |-> "deciding", clock |-> clock]]
      /\ \A d \in Callers : caller[d].at # "deciding"
  BY DEF Lock
<1>2. TypeOK'
  BY <1>1, RowStays DEF IInv, TypeOK, Sessions
<1>3. \A d \in Callers : /\ caller'[d].at = "deciding" => d = c /\ caller'[d].clock = clock
  BY <1>1 DEF IInv, TypeOK
<1>4. LockInv'
  <2> SUFFICES ASSUME NEW d \in Callers, NEW e \in Callers,
                      caller'[d].at = "deciding", caller'[e].at = "deciding"
               PROVE  d = e
    BY DEF LockInv
  <2> QED
    BY <1>3
<1>5. ClockInv' /\ DayInv'
  <2>1. \A p \in Periods : clock[p] \in Nat
    BY DEF IInv, TypeOK, Clocks, Windows
  <2>2. "day" \in Periods
    BY DEF Periods
  <2> QED
    BY <1>1, <1>3, <2>1, <2>2 DEF IInv, ClockInv, DayInv
<1>6. WaitInv'
  BY <1>1, <1>3 DEF IInv, WaitInv, Waits, RoomIn
<1> QED
  BY <1>1, <1>2, <1>4, <1>5, <1>6, RowStays DEF IInv

(* A commit takes away every promise of quiet.                             *)
LEMMA GrantStep ==
  ASSUME NEW c \in Callers, IInv, caller[c].at = "deciding", Commit(c), UNCHANGED clock,
         NEW at \in {"idle", "granted"}, caller' = [caller EXCEPT ![c] = [Idle EXCEPT !.at = at]]
  PROVE  IInv'
<1>1. /\ told' = [d \in Callers |-> NotTold]
      /\ 0 \in Windows
  BY LastWindowAssumption DEF Commit, IInv, TypeOK, Windows
<1>2. TypeOK'
  BY <1>1, CommitStep DEF IInv, TypeOK, Sessions, Notices, Clocks, Idle, NotTold
<1>3. \A d \in Callers : /\ caller'[d].at # "deciding"
                         /\ d # c => caller'[d] = caller[d]
  BY DEF IInv, LockInv, TypeOK, Idle
<1>4. LockInv' /\ DayInv'
  <2>1. ASSUME NEW d \in Callers, caller'[d].at = "deciding" PROVE FALSE
    BY <1>3, <2>1
  <2> QED
    BY <2>1 DEF LockInv, DayInv
<1>5. ClockInv'
  <2> SUFFICES ASSUME NEW p \in Periods PROVE budget'[p].window <= clock'[p]
    BY <1>3 DEF ClockInv
  <2>1. budget'[p].window = caller[c].clock[p]
    BY CommitStep
  <2>2. caller[c].clock[p] <= clock[p]
    BY DEF IInv, ClockInv
  <2> QED
    BY <2>1, <2>2
<1>6. WaitInv'
  BY <1>1, <1>3 DEF WaitInv, Waits, NotTold, Periods
<1> QED
  BY <1>2, <1>4, <1>5, <1>6, CommitStep DEF IInv

(* What a refused caller is told holds of the row that refused it.         *)
LEMMA DenyStep == ASSUME NEW c \in Callers PROVE IInv /\ Deny(c) => IInv'
<1> SUFFICES ASSUME IInv, Deny(c) PROVE IInv'
  OBVIOUS
<1> USE LastWindowAssumption
<1> DEFINE at == caller[c].clock
           reset == Reset(Exceeded(c, at))
<1>1. /\ UNCHANGED <<clock, budget, spent>>
      /\ caller[c].at = "deciding" /\ Exceeded(c, at) # {}
      /\ told' = [told EXCEPT ![c] = [reset |-> reset, since |-> at[reset]]]
      /\ caller' = [caller EXCEPT ![c] = Idle]
      /\ 0 \in Windows
  BY DEF Deny, Windows
<1>2. /\ at \in Clocks /\ reset \in Periods /\ at[reset] \in Windows
  BY <1>1 DEF IInv, TypeOK, Sessions, Clocks, Reset, Periods
<1>3. TypeOK'
  BY <1>1, <1>2, RowStays DEF IInv, TypeOK, Sessions, Notices, Clocks, Idle, Periods
<1>4. \A d \in Callers : /\ caller'[d].at = "deciding" => d # c /\ caller'[d] = caller[d]
                         /\ d # c => told'[d] = told[d]
  BY <1>1 DEF IInv, TypeOK, Idle
<1>12. LockInv'
  <2> SUFFICES ASSUME NEW d \in Callers, NEW e \in Callers,
                      caller'[d].at = "deciding", caller'[e].at = "deciding"
               PROVE  d = e
    BY DEF LockInv
  <2> QED
    BY <1>4 DEF IInv, LockInv
<1>5. ClockInv' /\ DayInv'
  BY <1>1, <1>4 DEF IInv, ClockInv, DayInv
<1>7. told'[c] = [reset |-> reset, since |-> at[reset]]
  BY <1>1 DEF IInv, TypeOK
<1>8. \A p \in Periods : budget[p].window <= at[p] /\ at[p] <= clock[p]
  BY <1>1 DEF IInv, ClockInv
<1>9. \A p \in Periods : budget[p].window \in Nat /\ at[p] \in Nat /\ clock[p] \in Nat
  BY <1>2 DEF IInv, TypeOK, Rows, Clocks, Windows
<1>10. Waits(c, clock)'
  <2>1. "day" \in Periods /\ "minute" \in Periods
    BY DEF Periods
  <2>2. budget[reset].window <= at[reset] /\ at[reset] <= clock[reset]
    BY <1>2, <1>8
  <2>3. reset = "minute" => RoomIn(c, "day") \/ budget["day"].window < clock["day"]
    <3> SUFFICES ASSUME reset = "minute", ~(budget["day"].window < clock["day"])
                 PROVE  RoomIn(c, "day")
      OBVIOUS
    <3>1. budget["day"].window = at["day"]
      BY <1>8, <1>9, <2>1
    <3>2. "day" \notin Exceeded(c, at)
      BY DEF Reset
    <3>3. SUFFICES ASSUME NEW u \in Units, Limit["day"][u] # 0
                   PROVE  budget["day"].used[u] + Cost[c][u]
                            <= Limit["day"][u] - Held(c, "day", u)
      BY DEF RoomIn
    <3>4. ~(Used("day", at["day"], u) + Cost[c][u] > Limit["day"][u] - Held(c, "day", u))
      <4> SUFFICES ASSUME Used("day", at["day"], u) + Cost[c][u] > Limit["day"][u] - Held(c, "day", u)
                   PROVE  "day" \in Exceeded(c, at)
        BY <3>2
      <4> QED
        BY <2>1, <3>3, Zenon DEF Exceeded
    <3>5. Used("day", at["day"], u) = budget["day"].used[u]
      BY <3>1 DEF Used
    <3>6. /\ budget["day"].used[u] \in Nat /\ Cost[c][u] \in Nat
          /\ Limit["day"][u] \in Nat /\ Held(c, "day", u) \in Nat
      BY <2>1, CallersAssumption, LimitAssumption DEF IInv, TypeOK, Rows, Held
    <3> QED
      BY <3>4, <3>5, <3>6
  <2>4. reset = "day" /\ at[reset] < clock["day"] => budget["minute"].window < clock["minute"]
    <3> SUFFICES ASSUME reset = "day", at["day"] < clock["day"]
                 PROVE  budget["minute"].window < clock["minute"]
      OBVIOUS
    <3>1. at["minute"] < clock["minute"]
      BY <1>1 DEF IInv, DayInv
    <3> QED
      BY <1>8, <1>9, <2>1, <3>1
  <2>5. RoomIn(c, "day")' <=> RoomIn(c, "day")
    BY <1>1 DEF RoomIn
  <2> QED
    BY <1>1, <1>7, <2>2, <2>3, <2>4, <2>5 DEF Waits
<1>11. WaitInv'
  BY <1>1, <1>2, <1>4, <1>7, <1>10 DEF IInv, WaitInv, Waits, RoomIn, Periods
<1> QED
  BY <1>1, <1>3, <1>5, <1>11, <1>12, RowStays DEF IInv

LEMMA StopStep == ASSUME NEW c \in Callers PROVE IInv /\ Stop(c) => IInv'
<1> SUFFICES ASSUME IInv, Stop(c) PROVE IInv'
  OBVIOUS
<1>1. /\ UNCHANGED clock
      /\ caller' = [caller EXCEPT ![c] = Idle]
      /\ Idle = [Idle EXCEPT !.at = "idle"]
      /\ 0 \in Windows
  BY LastWindowAssumption DEF Stop, Idle, Windows
<1>2. CASE caller[c].at = "deciding" /\ Commit(c)
  BY <1>1, <1>2, GrantStep
<1>3. CASE UNCHANGED <<budget, spent, told>>
  BY <1>1, <1>3, QuietStep
<1> QED
  BY <1>2, <1>3 DEF Stop

LEMMA SendStep == ASSUME NEW c \in Callers PROVE IInv /\ Send(c) => IInv'
<1>1. Idle = [Idle EXCEPT !.at = "idle"]
  BY DEF Idle
<1> QED
  BY <1>1, QuietStep DEF Send

-----------------------------------------------------------------------------
LEMMA NextIInv == IInv /\ [Next]_vars => IInv'
<1> SUFFICES ASSUME IInv, [Next]_vars PROVE IInv'
  OBVIOUS
<1>1. CASE Tick
  BY <1>1, TickStep
<1>2. ASSUME NEW c \in Callers, Ask(c) PROVE IInv'
  BY <1>2, AskStep
<1>3. ASSUME NEW c \in Callers, Lock(c) PROVE IInv'
  BY <1>3, LockStep
<1>4. ASSUME NEW c \in Callers, Grant(c) PROVE IInv'
  BY <1>4, GrantStep DEF Grant
<1>5. ASSUME NEW c \in Callers, Deny(c) PROVE IInv'
  BY <1>5, DenyStep
<1>6. ASSUME NEW c \in Callers, Stop(c) PROVE IInv'
  BY <1>6, StopStep
<1>7. ASSUME NEW c \in Callers, Send(c) PROVE IInv'
  BY <1>7, SendStep
<1>8. CASE UNCHANGED vars
  BY <1>8, RowStays
  DEF vars, IInv, TypeOK, LockInv, ClockInv, DayInv, WaitInv, Waits, RoomIn
<1> QED
  BY <1>1, <1>2, <1>3, <1>4, <1>5, <1>6, <1>7, <1>8 DEF Next

(* The inductive invariant holds of every reachable state.                 *)
THEOREM Invariance == Spec => []IInv
<1>1. Init => IInv
  BY InitIInv
<1>2. IInv /\ [Next]_vars => IInv'
  BY NextIInv
<1> QED
  BY <1>1, <1>2, PTL DEF Spec

(* Types are kept, and the row never passes its limits.                    *)
THEOREM TypeCorrect == Spec => []TypeOK
<1>1. IInv => TypeOK
  BY DEF IInv
<1> QED
  BY <1>1, Invariance, PTL

(* Whatever the limits and however many processes, no minute and no day    *)
(* has more granted than its limit.                                        *)
THEOREM WindowsAreRespected == Spec => []WindowsRespected
<1>1. IInv => WindowsRespected
  BY DEF IInv
<1> QED
  BY <1>1, Invariance, PTL

(* An interactive request is refused only for what interactive requests    *)
(* have used, because background work stays out of the reserve.            *)
THEOREM HoldbackIsKept == Spec => InteractiveHoldback
<1>1. IInv /\ [Next]_vars =>
        [\A c \in Callers \ Background : Deny(c) =>
           \E p \in Periods, u \in Units :
             /\ Limit[p][u] # 0
             /\ spent["interactive"][p][caller[c].clock[p]][u] + Cost[c][u] > Reserve[p][u]]_vars
  <2> SUFFICES ASSUME IInv, NEW c \in Callers \ Background, Deny(c)
               PROVE  \E p \in Periods, u \in Units :
                        /\ Limit[p][u] # 0
                        /\ spent["interactive"][p][caller[c].clock[p]][u] + Cost[c][u] > Reserve[p][u]
    OBVIOUS
  <2>1. PICK p \in Periods, u \in Units :
          /\ Limit[p][u] # 0
          /\ Used(p, caller[c].clock[p], u) + Cost[c][u] > Limit[p][u] - Held(c, p, u)
    BY DEF Deny, Exceeded
  <2> DEFINE w == caller[c].clock[p]
  <2>2. w \in Windows
    BY DEF IInv, TypeOK, Sessions, Clocks
  <2>3. Used(p, w, u) = spent["background"][p][w][u] + spent["interactive"][p][w][u]
    BY UsedIsSpent DEF Deny
  <2>4. spent["background"][p][w][u] <= Limit[p][u] - Reserve[p][u]
    BY <2>1, <2>2 DEF IInv, ReserveInv
  <2>5. /\ Held(c, p, u) = 0 /\ Cost[c][u] \in Nat
        /\ Limit[p][u] \in Nat /\ Reserve[p][u] \in Nat
        /\ spent["background"][p][w][u] \in Nat /\ spent["interactive"][p][w][u] \in Nat
    BY <2>2, CallersAssumption, LimitAssumption DEF Held, IInv, TypeOK, Classes
  <2>6. spent["interactive"][p][w][u] + Cost[c][u] > Reserve[p][u]
    BY <2>1, <2>3, <2>4, <2>5
  <2> QED
    BY <2>1, <2>6
<1> QED
  BY <1>1, Invariance, PTL DEF Spec, InteractiveHoldback

(* A caller that has waited for the window it was told to wait for finds   *)
(* both periods open.                                                      *)
THEOREM RetriesSucceed == Spec => RetrySucceeds
<1>1. IInv /\ [Next]_vars =>
        [\A c \in Callers : Fits(c) /\ told[c] # NotTold /\ Deny(c) =>
           caller[c].clock[told[c].reset] = told[c].since]_vars
  <2> SUFFICES ASSUME IInv, NEW c \in Callers, Fits(c), told[c] # NotTold, Deny(c),
                      caller[c].clock[told[c].reset] # told[c].since
               PROVE  FALSE
    OBVIOUS
  <2> DEFINE at == caller[c].clock
             r == told[c].reset
  <2>1. caller[c].at = "deciding" /\ Exceeded(c, at) # {}
    BY DEF Deny
  <2>2. /\ \A p \in Periods : at[p] \in Nat /\ budget[p].window \in Nat
        /\ told[c].since \in Nat
        /\ r \in {"minute", "day"} /\ "minute" \in Periods /\ "day" \in Periods
    BY DEF IInv, TypeOK, Sessions, Clocks, Rows, Notices, Windows, WaitInv, Periods
  <2>3. Waits(c, at)
    BY <2>1 DEF IInv, WaitInv
  <2>4. told[c].since < at[r] /\ budget[r].window < at[r]
    BY <2>2, <2>3 DEF Waits
  <2>5. \A p \in Periods : budget[p].window < at[p] \/ RoomIn(c, p)
    BY <2>2, <2>3, <2>4 DEF Waits, Periods
  <2>6. ASSUME NEW p \in Periods, NEW u \in Units, Limit[p][u] # 0
        PROVE  ~(Used(p, at[p], u) + Cost[c][u] > Limit[p][u] - Held(c, p, u))
    <3>1. /\ budget[p].used[u] \in Nat /\ Cost[c][u] \in Nat
          /\ Limit[p][u] \in Nat /\ Held(c, p, u) \in Nat
      BY CallersAssumption, LimitAssumption DEF IInv, TypeOK, Rows, Held
    <3>2. Cost[c][u] <= Limit[p][u] - Held(c, p, u)
      BY <2>6, <3>1 DEF Fits
    <3>3. CASE budget[p].window = at[p]
      <4>1. RoomIn(c, p)
        BY <2>2, <2>5, <3>3
      <4> QED
        BY <2>6, <3>1, <3>3, <4>1 DEF RoomIn, Used
    <3>4. CASE budget[p].window # at[p]
      BY <3>1, <3>2, <3>4 DEF Used
    <3> QED
      BY <3>3, <3>4
  <2> QED
    BY <2>1, <2>6 DEF Exceeded
<1> QED
  BY <1>1, Invariance, PTL DEF Spec, RetrySucceeds

-----------------------------------------------------------------------------
(* The builds of a document's graph (GraphExtraction), for any batches in  *)
(* any sections, any budget of a build and any number of builds that end   *)
(* early.                                                                  *)
CONSTANTS Batches, SectionOf, MaxBatches, Linking, Sparse, Malformed, MaxAbandoned
VARIABLES saved, links, result, build, abandoned

E == INSTANCE GraphExtraction

LEMMA SameCounts ==
  \A S : (E!IsFiniteSet(S) <=> IsFiniteSet(S)) /\ E!Cardinality(S) = Cardinality(S)
<1>1. \A S : E!IsFiniteSet(S) <=> IsFiniteSet(S)
  BY DEF IsFiniteSet, E!IsFiniteSet
<1>2. \A S : E!Cardinality(S) = Cardinality(S)
  BY DEF Cardinality, E!Cardinality
<1>3. QED
  BY <1>1, <1>2

(* How many of S come before x.                                            *)
PlaceOf(S, x) == Cardinality({ y \in S : y < x })

LEMMA PlaceFacts ==
  ASSUME NEW S \in SUBSET Nat, IsFiniteSet(S)
  PROVE  /\ Cardinality(S) \in Nat
         /\ \A x \in S : PlaceOf(S, x) \in 0 .. (Cardinality(S) - 1)
         /\ \A x, y \in S : x < y => PlaceOf(S, x) < PlaceOf(S, y)
<1> DEFINE Before(x) == { y \in S : y < x }
<1>1. \A x : IsFiniteSet(Before(x)) /\ Cardinality(Before(x)) \in Nat
  <2>1. \A x : Before(x) \in SUBSET S
    OBVIOUS
  <2> HIDE DEF Before
  <2>2. QED
    BY <2>1, FS_Subset, FS_CardinalityType
<1>2. \A T \in SUBSET S, x \in S : Before(x) \subseteq T /\ x \in T => Cardinality(Before(x)) < Cardinality(T)
  <2> SUFFICES ASSUME NEW T \in SUBSET S, NEW x \in S, Before(x) \subseteq T, x \in T
               PROVE  Cardinality(Before(x)) < Cardinality(T)
    OBVIOUS
  <2>1. x \notin Before(x)
    OBVIOUS
  <2>2. IsFiniteSet(T) /\ Cardinality(T) \in Nat
    BY FS_Subset, FS_CardinalityType
  <2> HIDE DEF Before
  <2>3. QED
    BY <1>1, <2>1, <2>2, FS_Subset
<1>3. Cardinality(S) \in Nat
  BY FS_CardinalityType
<1>4. \A x \in S : Cardinality(Before(x)) < Cardinality(S)
  BY <1>2
<1>5. \A x, y \in S : x < y => Cardinality(Before(x)) < Cardinality(Before(y))
  <2> SUFFICES ASSUME NEW x \in S, NEW y \in S, x < y
               PROVE  Cardinality(Before(x)) < Cardinality(Before(y))
    OBVIOUS
  <2>1. \A z \in S : z < x => z < y
    OBVIOUS
  <2>2. Before(y) \in SUBSET S /\ Before(x) \subseteq Before(y) /\ x \in Before(y)
    BY <2>1
  <2> HIDE DEF Before
  <2>3. QED
    BY <1>2, <2>2
<1>6. \A x : PlaceOf(S, x) = Cardinality(Before(x))
  BY DEF PlaceOf
<1> HIDE DEF Before
<1>7. QED
  BY <1>1, <1>3, <1>4, <1>5, <1>6

(* The places of a finite set of numbers are those from 0 on, and each     *)
(* member is at one of them.                                               *)
LEMMA NthFacts ==
  ASSUME NEW S \in SUBSET Nat, IsFiniteSet(S)
  PROVE  /\ Cardinality(S) \in Nat
         /\ \A i \in 0 .. (Cardinality(S) - 1) : E!Nth(S, i) \in S
         /\ \A x \in S : \E i \in 0 .. (Cardinality(S) - 1) : E!Nth(S, i) = x
         /\ \A i \in 0 .. (Cardinality(S) - 1) : PlaceOf(S, E!Nth(S, i)) = i
<1> DEFINE places == 0 .. (Cardinality(S) - 1)
           rank == [x \in S |-> PlaceOf(S, x)]
<1>1. \A x, y \in S : PlaceOf(S, x) = PlaceOf(S, y) => x = y
  BY PlaceFacts
<1>2. rank \in Injection(S, places)
  BY <1>1, PlaceFacts DEF Injection, IsInjective
<1>3. IsFiniteSet(places) /\ Cardinality(places) = Cardinality(S)
  <2>1. Cardinality(S) \in Nat
    BY PlaceFacts
  <2>2. IsFiniteSet(0 .. (Cardinality(S) - 1)) /\
        Cardinality(0 .. (Cardinality(S) - 1)) = Cardinality(S)
    <3> DEFINE last == Cardinality(S) - 1
    <3>1. last \in Int /\ ~(0 > last) => last - 0 + 1 = Cardinality(S)
      BY <2>1
    <3>2. last \in Int /\ (0 > last => Cardinality(S) = 0)
      BY <2>1
    <3> HIDE DEF last
    <3>3. IsFiniteSet(0 .. last) /\ Cardinality(0 .. last) = IF 0 > last THEN 0 ELSE last - 0 + 1
      BY <3>2, FS_Interval
    <3>4. QED
      BY <3>1, <3>2, <3>3 DEF last
  <2>3. QED
    BY <2>2
<1>4. rank \in Surjection(S, places)
  BY <1>2, <1>3, FS_Injection
<1>5. \A i \in places : \E x \in S : PlaceOf(S, x) = i
  BY <1>4 DEF Surjection
<1>6. \A i : E!Nth(S, i) = CHOOSE x \in S : PlaceOf(S, x) = i
  BY SameCounts DEF E!Nth, PlaceOf
<1> HIDE DEF places, rank
<1>7. \A i \in places : E!Nth(S, i) \in S /\ PlaceOf(S, E!Nth(S, i)) = i
  BY <1>5, <1>6
<1>8. \A x \in S : PlaceOf(S, x) \in places
  BY PlaceFacts DEF places
<1>9. \A x \in S : E!Nth(S, PlaceOf(S, x)) = x
  BY <1>1, <1>7, <1>8
<1>10. QED
  BY <1>7, <1>8, <1>9, PlaceFacts DEF places

(* The elements of a sequence at some of its places are in a sequence.     *)
LEMMA AtFacts ==
  ASSUME NEW T, NEW parts \in Seq(T), NEW places \in SUBSET DOMAIN parts
  PROVE  /\ E!At(parts, places) \in Seq(T)
         /\ E!Completed(E!At(parts, places)) = { parts[i] : i \in places }
<1> DEFINE n == Cardinality(places)
           at == E!At(parts, places)
<1>1. places \in SUBSET Nat /\ IsFiniteSet(places)
  <2>1. DOMAIN parts = 1 .. Len(parts) /\ Len(parts) \in Nat
    OBVIOUS
  <2>2. IsFiniteSet(DOMAIN parts)
    BY <2>1, FS_Interval
  <2>3. QED
    BY <2>1, <2>2, FS_Subset
<1>2. /\ n \in Nat
      /\ \A i \in 0 .. (n - 1) : E!Nth(places, i) \in places
      /\ \A x \in places : \E i \in 0 .. (n - 1) : E!Nth(places, i) = x
  BY <1>1, NthFacts
<1>3. at = [ m \in 1 .. n |-> parts[E!Nth(places, m - 1)] ]
  BY SameCounts DEF E!At
<1> HIDE DEF n, at
<1>4. \A m \in 1 .. n : E!Nth(places, m - 1) \in places
  BY <1>2
<1>5. \A x \in places : \E m \in 1 .. n : E!Nth(places, m - 1) = x
  <2> TAKE x \in places
  <2>1. PICK i \in 0 .. (n - 1) : E!Nth(places, i) = x
    BY <1>2
  <2>2. i + 1 \in 1 .. n /\ (i + 1) - 1 = i
    BY <1>2
  <2>3. QED
    BY <2>1, <2>2
<1>6. at \in Seq(T)
  <2>1. \A i \in places : parts[i] \in T
    OBVIOUS
  <2>2. at \in [1 .. n -> T]
    BY <1>3, <1>4, <2>1
  <2>3. QED
    BY <1>2, <2>2
<1>7. E!Completed(at) = { parts[i] : i \in places }
  <2>1. DOMAIN at = 1 .. n /\ \A m \in 1 .. n : at[m] = parts[E!Nth(places, m - 1)]
    BY <1>3
  <2>2. QED
    BY <1>4, <1>5, <2>1 DEF E!Completed
<1>8. QED
  BY <1>6, <1>7 DEF at

LEMMA InOrderFacts ==
  ASSUME NEW S \in SUBSET Nat, IsFiniteSet(S)
  PROVE  E!InOrder(S) \in Seq(S) /\ E!Completed(E!InOrder(S)) = S
<1> DEFINE n == Cardinality(S)
<1>1. /\ n \in Nat
      /\ \A i \in 0 .. (n - 1) : E!Nth(S, i) \in S
      /\ \A x \in S : \E i \in 0 .. (n - 1) : E!Nth(S, i) = x
  BY NthFacts
<1>2. E!InOrder(S) = [ m \in 1 .. n |-> E!Nth(S, m - 1) ]
  BY SameCounts DEF E!InOrder
<1> HIDE DEF n
<1>3. \A m \in 1 .. n : E!Nth(S, m - 1) \in S
  BY <1>1
<1>4. \A x \in S : \E m \in 1 .. n : E!Nth(S, m - 1) = x
  <2> TAKE x \in S
  <2>1. PICK i \in 0 .. (n - 1) : E!Nth(S, i) = x
    BY <1>1
  <2>2. i + 1 \in 1 .. n /\ (i + 1) - 1 = i
    BY <1>1
  <2>3. QED
    BY <2>1, <2>2
<1>5. E!InOrder(S) \in [1 .. n -> S]
  BY <1>2, <1>3
<1>6. E!InOrder(S) \in Seq(S)
  BY <1>1, <1>5
<1>7. DOMAIN E!InOrder(S) = 1 .. n /\ \A m \in 1 .. n : E!InOrder(S)[m] = E!Nth(S, m - 1)
  BY <1>2
<1>8. E!Completed(E!InOrder(S)) = S
  <2> DEFINE all == E!InOrder(S)
  <2>1. E!Completed(all) = { all[m] : m \in 1 .. n }
    BY <1>7 DEF E!Completed
  <2>2. \A m \in 1 .. n : all[m] \in S
    BY <1>3, <1>7
  <2>3. \A x \in S : \E m \in 1 .. n : all[m] = x
    BY <1>4, <1>7
  <2> HIDE DEF all
  <2>4. E!Completed(all) = S
    BY <2>1, <2>2, <2>3
  <2>5. QED
    BY <2>4 DEF all
<1>9. QED
  BY <1>6, <1>8

(* The saved results that hold concepts.                                   *)
LEMMA WithConceptsFacts ==
  ASSUME NEW parts \in Seq(Batches), NEW rows
  PROVE  /\ E!WithConcepts(parts, rows) \in Seq(Batches)
         /\ E!Completed(E!WithConcepts(parts, rows)) = { b \in E!Completed(parts) : rows[b] = "nodes" }
<1> DEFINE places == { i \in DOMAIN parts : rows[parts[i]] = "nodes" }
<1>1. places \in SUBSET DOMAIN parts /\ E!WithConcepts(parts, rows) = E!At(parts, places)
  BY DEF E!WithConcepts
<1>2. { parts[i] : i \in places } = { b \in E!Completed(parts) : rows[b] = "nodes" }
  BY DEF E!Completed
<1> HIDE DEF places
<1>3. QED
  BY <1>1, <1>2, AtFacts

LEMMA RecoveryType ==
  ASSUME NEW parts \in Seq(Batches)
  PROVE  E!Recovery(parts) \in Seq(Batches)
<1> DEFINE Leads(i) == \A j \in 1 .. i - 1 : SectionOf[parts[j]] # SectionOf[parts[i]]
           first == { i \in DOMAIN parts : Leads(i) }
<1>1. E!Recovery(parts) = parts \/ E!Recovery(parts) = E!At(parts, first)
  BY DEF E!Recovery
<1>2. first \in SUBSET DOMAIN parts
  OBVIOUS
<1> HIDE DEF first
<1>3. QED
  BY <1>1, <1>2, AtFacts

LEMMA AppendFacts ==
  ASSUME NEW parts \in Seq(Batches), NEW b \in Batches
  PROVE  /\ Append(parts, b) \in Seq(Batches)
         /\ E!Completed(Append(parts, b)) = E!Completed(parts) \cup {b}
<1> DEFINE more == Append(parts, b)
<1>1. /\ more \in Seq(Batches) /\ Len(parts) \in Nat
      /\ DOMAIN parts = 1 .. Len(parts) /\ DOMAIN more = 1 .. Len(parts) + 1
      /\ \A i \in 1 .. Len(parts) : more[i] = parts[i]
      /\ more[Len(parts) + 1] = b
  OBVIOUS
<1> HIDE DEF more
<1>2. \A i \in 1 .. Len(parts) + 1 : i \in 1 .. Len(parts) \/ i = Len(parts) + 1
  BY <1>1
<1>3. E!Completed(more) = E!Completed(parts) \cup {b}
  BY <1>1, <1>2 DEF E!Completed
<1>4. QED
  BY <1>1, <1>3 DEF more

-----------------------------------------------------------------------------
(* A rounded quotient of at most m.                                        *)
LEMMA RoundHalfEvenFacts ==
  ASSUME NEW a \in Nat, NEW b \in Nat \ {0}, NEW m \in Nat, a <= m * b
  PROVE  E!RoundHalfEven(a, b) \in 0 .. m
<1> DEFINE q == a \div b
           r == a % b
<1>1. q \in Nat /\ r \in Nat /\ r < b /\ a = b * q + r
  OBVIOUS
<1>2. E!RoundHalfEven(a, b) = IF 2 * r > b \/ (2 * r = b /\ q % 2 = 1) THEN q + 1 ELSE q
  BY DEF E!RoundHalfEven
<1> HIDE DEF q, r
<1>3. CASE q < m
  BY <1>1, <1>2, <1>3
<1>4. CASE q >= m
  <2>1. PICK e \in Nat : q = m + e
    <3>1. q - m \in Nat /\ q = m + (q - m)
      BY <1>1, <1>4
    <3>2. QED
      BY <3>1
  <2>2. b * q = m * b + b * e /\ b * e \in Nat
    BY <2>1
  <2>3. b * e = 0 /\ r = 0
    BY <1>1, <2>2
  <2>4. e = 0
    BY <2>1, <2>3
  <2>5. q = m /\ E!RoundHalfEven(a, b) = q
    BY <1>2, <2>1, <2>3, <2>4
  <2>6. QED
    BY <2>5
<1>5. QED
  BY <1>1, <1>3, <1>4

LEMMA EvenlySpacedType ==
  ASSUME NEW n \in Nat, NEW k \in Nat
  PROVE  E!EvenlySpaced(n, k) \subseteq 0 .. (n - 1)
<1>1. CASE k >= n
  BY <1>1 DEF E!EvenlySpaced
<1>2. CASE k < n
  <2>1. E!EvenlySpaced(n, k) =
          { E!RoundHalfEven(i * (n - 1), E!AtLeastOne(k - 1)) : i \in 0 .. (k - 1) }
    BY <1>2 DEF E!EvenlySpaced
  <2>2. ASSUME NEW i \in 0 .. (k - 1)
        PROVE  E!RoundHalfEven(i * (n - 1), E!AtLeastOne(k - 1)) \in 0 .. (n - 1)
    <3> DEFINE m == n - 1
               b == E!AtLeastOne(k - 1)
    <3>1. m \in Nat /\ b \in Nat \ {0} /\ i \in Nat /\ i <= b
      BY <1>2 DEF E!AtLeastOne
    <3> HIDE DEF m, b
    <3>2. i * m \in Nat /\ i * m <= m * b
      <4>1. PICK e \in Nat : b = i + e
        <5>1. b - i \in Nat /\ b = i + (b - i)
          BY <3>1
        <5>2. QED
          BY <5>1
      <4>2. m * b = i * m + m * e /\ m * e \in Nat /\ i * m \in Nat
        BY <3>1, <4>1
      <4>3. QED
        BY <4>2
    <3>3. E!RoundHalfEven(i * m, b) \in 0 .. m
      BY <3>1, <3>2, RoundHalfEvenFacts
    <3>4. QED
      BY <3>3 DEF m, b
  <2>3. QED
    BY <2>1, <2>2
<1>3. QED
  BY <1>1, <1>2

LEMMA SpreadType ==
  ASSUME NEW S \in SUBSET Nat, IsFiniteSet(S), NEW k \in Nat
  PROVE  E!Spread(S, k) \subseteq S
<1>1. /\ Cardinality(S) \in Nat
      /\ \A i \in 0 .. (Cardinality(S) - 1) : E!Nth(S, i) \in S
  BY NthFacts
<1>2. E!Spread(S, k) = { E!Nth(S, i) : i \in E!EvenlySpaced(Cardinality(S), k) }
  BY SameCounts DEF E!Spread
<1>3. E!EvenlySpaced(Cardinality(S), k) \subseteq 0 .. (Cardinality(S) - 1)
  BY <1>1, EvenlySpacedType
<1>4. QED
  BY <1>1, <1>2, <1>3

(* A build asks only about batches without a saved result.                 *)
LEMMA SelectType ==
  ASSUME NEW missing \in SUBSET Nat, IsFiniteSet(missing), NEW section, NEW limit \in Nat
  PROVE  E!Select(missing, section, limit) \subseteq missing
<1> DEFINE firsts == E!SectionsFirst(missing, section)
           others == missing \ firsts
<1>1. firsts \in SUBSET missing
  BY DEF E!SectionsFirst
<1>2. /\ firsts \in SUBSET Nat /\ IsFiniteSet(firsts) /\ Cardinality(firsts) \in Nat
      /\ others \in SUBSET Nat /\ IsFiniteSet(others)
  <2> HIDE DEF firsts
  <2>1. firsts \in SUBSET missing /\ others \in SUBSET missing
    BY <1>1
  <2>2. QED
    BY <2>1, FS_Subset, FS_CardinalityType
<1>3. E!Select(missing, section, limit) =
        IF Cardinality(missing) <= limit THEN missing
        ELSE IF Cardinality(firsts) >= limit THEN E!Spread(firsts, limit)
        ELSE firsts \cup E!Spread(others, limit - Cardinality(firsts))
  BY SameCounts DEF E!Select
<1> HIDE DEF firsts
<1>4. Cardinality(firsts) < limit => limit - Cardinality(firsts) \in Nat
  BY <1>2
<1>5. E!Spread(firsts, limit) \subseteq firsts
  BY <1>2, SpreadType
<1>6. Cardinality(firsts) < limit => E!Spread(others, limit - Cardinality(firsts)) \subseteq others
  <2> HIDE DEF others
  <2>1. QED
    BY <1>2, <1>4, SpreadType
<1>7. others \subseteq missing
  OBVIOUS
<1>8. ~(Cardinality(firsts) >= limit) => Cardinality(firsts) < limit
  BY <1>2
<1> HIDE DEF others
<1>9. QED
  BY <1>1, <1>3, <1>5, <1>6, <1>7, <1>8, Zenon

-----------------------------------------------------------------------------
(* What is spread evenly is spread over everything.                        *)
LEMMA QuotientFacts ==
  ASSUME NEW b \in Nat \ {0}, NEW q \in Nat, NEW r \in Nat, r < b
  PROVE  (b * q + r) \div b = q /\ (b * q + r) % b = r
<1> DEFINE a == b * q + r
           p == a \div b
           t == a % b
<1>1. a \in Nat
  OBVIOUS
<1>2. p \in Nat /\ t \in Nat /\ t < b /\ a = b * p + t
  <2> HIDE DEF a
  <2>1. QED
    BY <1>1
<1>3. b * q + r = b * p + t
  BY <1>2 DEF a
<1> HIDE DEF a, p, t
<1>4. ~(p < q)
  <2> SUFFICES ASSUME p < q PROVE FALSE
    OBVIOUS
  <2>1. PICK e \in Nat : q = p + 1 + e
    <3>1. q - p - 1 \in Nat /\ q = p + 1 + (q - p - 1)
      BY <1>2
    <3>2. QED
      BY <3>1
  <2>2. b * q = b * p + b + b * e /\ b * e \in Nat /\ b * p \in Nat
    BY <1>2, <2>1
  <2>3. QED
    BY <1>2, <1>3, <2>2
<1>5. ~(q < p)
  <2> SUFFICES ASSUME q < p PROVE FALSE
    OBVIOUS
  <2>1. PICK e \in Nat : p = q + 1 + e
    <3>1. p - q - 1 \in Nat /\ p = q + 1 + (p - q - 1)
      BY <1>2
    <3>2. QED
      BY <3>1
  <2>2. b * p = b * q + b + b * e /\ b * e \in Nat /\ b * q \in Nat
    BY <1>2, <2>1
  <2>3. QED
    BY <1>2, <1>3, <2>2
<1>6. p = q
  BY <1>2, <1>4, <1>5
<1>7. t = r
  <2>1. b * p = b * q /\ b * q \in Nat
    BY <1>6
  <2>2. QED
    BY <1>2, <1>3, <2>1
<1>8. QED
  BY <1>6, <1>7 DEF a, p, t

(* More than one apart before rounding is apart afterwards.                *)
LEMMA RoundHalfEvenGrows ==
  ASSUME NEW a \in Nat, NEW c \in Nat, NEW b \in Nat \ {0}, a + b < c
  PROVE  E!RoundHalfEven(a, b) < E!RoundHalfEven(c, b)
<1> DEFINE p == a \div b
           r == a % b
           q == c \div b
           t == c % b
<1>1. /\ p \in Nat /\ r \in Nat /\ r < b /\ a = b * p + r
      /\ q \in Nat /\ t \in Nat /\ t < b /\ c = b * q + t
  OBVIOUS
<1>2. /\ E!RoundHalfEven(a, b) = IF 2 * r > b \/ (2 * r = b /\ p % 2 = 1) THEN p + 1 ELSE p
      /\ E!RoundHalfEven(c, b) = IF 2 * t > b \/ (2 * t = b /\ q % 2 = 1) THEN q + 1 ELSE q
  BY DEF E!RoundHalfEven
<1> HIDE DEF p, r, q, t
<1>3. p < q
  <2> SUFFICES ASSUME q <= p PROVE FALSE
    BY <1>1
  <2>1. PICK e \in Nat : p = q + e
    <3>1. p - q \in Nat /\ p = q + (p - q)
      BY <1>1
    <3>2. QED
      BY <3>1
  <2>2. b * p = b * q + b * e /\ b * e \in Nat /\ b * q \in Nat
    BY <1>1, <2>1
  <2>3. QED
    BY <1>1, <2>2
<1>4. CASE q = p + 1
  <2>1. b * q = b * p + b /\ b * p \in Nat
    BY <1>1, <1>4
  <2>2. r < t
    BY <1>1, <2>1
  <2>3. 2 * r >= b => 2 * t > b
    BY <1>1, <2>2
  <2>4. CASE 2 * r >= b
    <3>1. E!RoundHalfEven(c, b) = q + 1
      BY <1>2, <2>3, <2>4
    <3>2. E!RoundHalfEven(a, b) \in {p, p + 1}
      BY <1>2
    <3>3. QED
      BY <1>1, <1>4, <3>1, <3>2
  <2>5. CASE ~(2 * r >= b)
    <3>1. E!RoundHalfEven(a, b) = p
      BY <1>1, <1>2, <2>5
    <3>2. E!RoundHalfEven(c, b) \in {q, q + 1}
      BY <1>2
    <3>3. QED
      BY <1>1, <1>4, <3>1, <3>2
  <2>6. QED
    BY <2>4, <2>5
<1>5. CASE q # p + 1
  <2>1. E!RoundHalfEven(a, b) \in {p, p + 1} /\ E!RoundHalfEven(c, b) \in {q, q + 1}
    BY <1>2
  <2>2. p + 1 < q
    BY <1>1, <1>3, <1>5
  <2>3. QED
    BY <1>1, <2>1, <2>2
<1>6. QED
  BY <1>4, <1>5

(* A whole number and a half one.                                          *)
LEMMA RoundHalfEvenAt ==
  ASSUME NEW b \in Nat \ {0}, NEW m \in Nat
  PROVE  /\ E!RoundHalfEven(b * m, b) = m
         /\ E!RoundHalfEven(b * m, 2 * b) \in {m \div 2, (m + 1) \div 2}
<1>1. (b * m) \div b = m /\ (b * m) % b = 0
  <2>1. b * m = b * m + 0 /\ b * m \in Nat
    OBVIOUS
  <2>2. QED
    BY <2>1, QuotientFacts
<1>2. E!RoundHalfEven(b * m, b) = m
  BY <1>1 DEF E!RoundHalfEven
<1>3. PICK e \in Nat : m = 2 * e \/ m = 2 * e + 1
  <2>1. m \div 2 \in Nat /\ (m = 2 * (m \div 2) \/ m = 2 * (m \div 2) + 1)
    OBVIOUS
  <2>2. QED
    BY <2>1
<1>4. CASE m = 2 * e
  <2>1. b * m = (2 * b) * e + 0 /\ 2 * b \in Nat \ {0} /\ (2 * b) * e \in Nat
    BY <1>3, <1>4
  <2>2. (b * m) \div (2 * b) = e /\ (b * m) % (2 * b) = 0
    BY <1>3, <2>1, QuotientFacts
  <2>3. E!RoundHalfEven(b * m, 2 * b) = e
    BY <2>1, <2>2 DEF E!RoundHalfEven
  <2>4. m \div 2 = e
    BY <1>3, <1>4
  <2>5. QED
    BY <1>2, <2>3, <2>4
<1>5. CASE m = 2 * e + 1
  <2>1. b * m = (2 * b) * e + b /\ 2 * b \in Nat \ {0} /\ b < 2 * b
    BY <1>3, <1>5
  <2>2. (b * m) \div (2 * b) = e /\ (b * m) % (2 * b) = b
    BY <1>3, <2>1, QuotientFacts
  <2>3. E!RoundHalfEven(b * m, 2 * b) \in {e, e + 1}
    BY <2>1, <2>2 DEF E!RoundHalfEven
  <2>4. m \div 2 = e /\ (m + 1) \div 2 = e + 1
    BY <1>3, <1>5
  <2>5. QED
    BY <1>2, <2>3, <2>4
<1>6. QED
  BY <1>3, <1>4, <1>5

LEMMA CountTo ==
  ASSUME NEW n \in Nat
  PROVE  /\ IsFiniteSet(0 .. (n - 1)) /\ Cardinality(0 .. (n - 1)) = n
<1> DEFINE last == n - 1
<1>1. last \in Int /\ (0 > last => n = 0) /\ last - 0 + 1 = n
  OBVIOUS
<1> HIDE DEF last
<1>2. IsFiniteSet(0 .. last) /\ Cardinality(0 .. last) = IF 0 > last THEN 0 ELSE last - 0 + 1
  BY <1>1, FS_Interval
<1>3. QED
  BY <1>1, <1>2 DEF last

(* A set with as many members as another one that it is made from.         *)
LEMMA SameNumber ==
  ASSUME NEW S, IsFiniteSet(S), NEW f, DOMAIN f = S,
         \A x, y \in S : f[x] = f[y] => x = y
  PROVE  LET T == { f[x] : x \in S }
         IN  IsFiniteSet(T) /\ Cardinality(T) = Cardinality(S)
<1> DEFINE T == { f[x] : x \in S }
           g == [x \in S |-> f[x]]
<1>1. g \in Bijection(S, T)
  <2>1. g \in [S -> T] /\ \A x \in S : g[x] = f[x]
    OBVIOUS
  <2>2. \A t \in T : \E x \in S : g[x] = t
    OBVIOUS
  <2> HIDE DEF g, T
  <2>3. QED
    BY <2>1, <2>2 DEF Bijection, Injection, IsInjective, Surjection
<1>2. ExistsBijection(S, T)
  BY <1>1 DEF ExistsBijection
<1> HIDE DEF T
<1>3. IsFiniteSet(T) /\ Cardinality(T) = Cardinality(S)
  BY <1>2, FS_Bijection
<1>4. QED
  BY <1>3 DEF T

LEMMA EvenlySpacedFacts ==
  ASSUME NEW n \in Nat, NEW k \in Nat \ {0}
  PROVE  LET places == E!EvenlySpaced(n, k) IN
         /\ IsFiniteSet(places) /\ Cardinality(places) = E!Least(k, n)
         /\ n > 0 /\ k >= 2 => 0 \in places /\ n - 1 \in places
         /\ n > 0 /\ k >= 2 /\ k % 2 = 1 => \E m \in {(n - 1) \div 2, n \div 2} : m \in places
<1> DEFINE places == E!EvenlySpaced(n, k)
<1>1. CASE k >= n
  <2>1. places = 0 .. (n - 1) /\ E!Least(k, n) = n
    BY <1>1 DEF E!EvenlySpaced, E!Least
  <2>2. n > 0 => (n - 1) \div 2 \in 0 .. (n - 1)
    OBVIOUS
  <2>3. QED
    BY <2>1, <2>2, CountTo
<1>2. CASE k < n
  <2> DEFINE b == E!AtLeastOne(k - 1)
             M == n - 1
             f == [i \in 0 .. (k - 1) |-> E!RoundHalfEven(i * M, b)]
  <2>1. /\ places = { f[i] : i \in 0 .. (k - 1) } /\ E!Least(k, n) = k
        /\ b \in Nat \ {0} /\ M \in Nat /\ k <= M /\ (k >= 2 => b = k - 1)
    BY <1>2 DEF E!EvenlySpaced, E!Least, E!AtLeastOne
  <2>2. \A i \in 0 .. (k - 1) : f[i] = E!RoundHalfEven(i * M, b)
    OBVIOUS
  <2>3. DOMAIN f = 0 .. (k - 1)
    OBVIOUS
  <2> HIDE DEF f, b, M
  <2>4. \A i, j \in 0 .. (k - 1) : i < j => f[i] < f[j]
    <3> SUFFICES ASSUME NEW i \in 0 .. (k - 1), NEW j \in 0 .. (k - 1), i < j
                 PROVE  f[i] < f[j]
      OBVIOUS
    <3>1. PICK e \in Nat : j = i + 1 + e
      <4>1. j - i - 1 \in Nat /\ j = i + 1 + (j - i - 1)
        OBVIOUS
      <4>2. QED
        BY <4>1
    <3>2. j * M = i * M + M + e * M /\ e * M \in Nat /\ i * M \in Nat
      BY <2>1, <3>1
    <3>3. b < M
      BY <2>1
    <3>4. j * M \in Nat /\ i * M + b < j * M
      BY <2>1, <3>2, <3>3
    <3>5. QED
      BY <2>1, <2>2, <3>2, <3>4, RoundHalfEvenGrows
  <2>5. \A i \in 0 .. (k - 1) : f[i] \in Nat
    <3> SUFFICES ASSUME NEW i \in 0 .. (k - 1) PROVE f[i] \in Nat
      OBVIOUS
    <3>1. i * M \in Nat
      BY <2>1
    <3> HIDE DEF places
    <3>2. (i * M) \div b \in Nat
      BY <2>1, <3>1
    <3>3. QED
      BY <2>2, <3>2 DEF E!RoundHalfEven
  <2>6. \A i, j \in 0 .. (k - 1) : f[i] = f[j] => i = j
    BY <2>4, <2>5
  <2>7. IsFiniteSet(places) /\ Cardinality(places) = k
    <3>1. IsFiniteSet(0 .. (k - 1)) /\ Cardinality(0 .. (k - 1)) = k
      BY CountTo
    <3>2. QED
      BY <2>1, <2>3, <2>6, <3>1, SameNumber
  <2>8. ASSUME k >= 2
        PROVE  0 \in places /\ M \in places
    <3>1. b = k - 1 /\ 0 \in 0 .. (k - 1) /\ b \in 0 .. (k - 1)
      BY <2>1, <2>8
    <3>2. f[0] = E!RoundHalfEven(b * 0, b) /\ f[b] = E!RoundHalfEven(b * M, b)
      BY <2>1, <2>2, <3>1
    <3>3. f[0] = 0 /\ f[b] = M
      BY <2>1, <3>2, RoundHalfEvenAt
    <3>4. QED
      BY <2>1, <3>1, <3>3
  <2>9. ASSUME k >= 2, k % 2 = 1
        PROVE  \E m \in {M \div 2, (M + 1) \div 2} : m \in places
    <3>1. PICK h \in Nat \ {0} : k - 1 = 2 * h
      <4>1. k \div 2 \in Nat \ {0} /\ k - 1 = 2 * (k \div 2)
        BY <2>9
      <4>2. QED
        BY <4>1
    <3>2. h \in 0 .. (k - 1) /\ b = 2 * h
      BY <2>1, <2>9, <3>1
    <3>3. f[h] \in {M \div 2, (M + 1) \div 2}
      BY <2>1, <2>2, <3>2, RoundHalfEvenAt
    <3>4. QED
      BY <2>1, <3>2, <3>3
  <2>10. M = n - 1 /\ M + 1 = n
    BY DEF M
  <2> HIDE DEF places
  <2>11. QED
    BY <2>1, <2>7, <2>8, <2>9, <2>10 DEF places
<1>3. QED
  BY <1>1, <1>2

(* As many of S as may be, the first, a middle and the last of it.         *)
LEMMA SpreadFacts ==
  ASSUME NEW S \in SUBSET Nat, IsFiniteSet(S), NEW k \in Nat \ {0}
  PROVE  LET n == Cardinality(S) IN
         /\ E!Spread(S, k) \subseteq S
         /\ Cardinality(E!Spread(S, k)) = E!Least(k, n)
         /\ n > 0 /\ k >= 2 => E!Nth(S, 0) \in E!Spread(S, k) /\ E!Nth(S, n - 1) \in E!Spread(S, k)
         /\ n > 0 /\ k >= 2 /\ k % 2 = 1 =>
              \E m \in {(n - 1) \div 2, n \div 2} : E!Nth(S, m) \in E!Spread(S, k)
<1> DEFINE n == Cardinality(S)
           places == E!EvenlySpaced(n, k)
           f == [i \in places |-> E!Nth(S, i)]
<1>1. n \in Nat /\ \A i \in 0 .. (n - 1) : PlaceOf(S, E!Nth(S, i)) = i
  BY NthFacts
<1>2. E!Spread(S, k) = { f[i] : i \in places } /\ \A i \in places : f[i] = E!Nth(S, i)
  BY SameCounts DEF E!Spread
<1>3. DOMAIN f = places
  OBVIOUS
<1>4. places \subseteq 0 .. (n - 1)
  BY <1>1, EvenlySpacedType
<1> HIDE DEF n, f
<1>5. /\ IsFiniteSet(places) /\ Cardinality(places) = E!Least(k, n)
      /\ n > 0 /\ k >= 2 => 0 \in places /\ n - 1 \in places
      /\ n > 0 /\ k >= 2 /\ k % 2 = 1 => \E m \in {(n - 1) \div 2, n \div 2} : m \in places
  BY <1>1, EvenlySpacedFacts
<1> HIDE DEF places
<1>6. \A i, j \in places : f[i] = f[j] => i = j
  BY <1>1, <1>2, <1>4
<1>7. Cardinality({ f[i] : i \in places }) = Cardinality(places)
  BY <1>3, <1>5, <1>6, SameNumber
<1>8. E!Spread(S, k) \subseteq S
  BY SpreadType
<1>9. QED
  BY <1>2, <1>5, <1>7, <1>8 DEF n

(* "Cover each section, always including its beginning, middle, and end",  *)
(* for every document and each of its sections.                            *)
THEOREM SectionsAreCovered ==
  ASSUME NEW T, NEW chunks \in Seq(T), NEW s \in E!SectionsOf(chunks)
  PROVE  E!CoversSection(chunks, s)
<1> DEFINE all == E!ChunksOf(chunks, s)
           size == Cardinality(all)
<1>1. all \in SUBSET Nat /\ IsFiniteSet(all) /\ all # {}
  <2>1. DOMAIN chunks = 1 .. Len(chunks) /\ Len(chunks) \in Nat
    OBVIOUS
  <2>2. all \in SUBSET DOMAIN chunks /\ all # {}
    BY DEF E!ChunksOf, E!SectionsOf
  <2> HIDE DEF all
  <2>3. IsFiniteSet(DOMAIN chunks)
    BY <2>1, FS_Interval
  <2>4. QED
    BY <2>1, <2>2, <2>3, FS_Subset
<1>2. E!Sampled(chunks, s) = E!Spread(all, E!Least(9, size))
  BY SameCounts DEF E!Sampled
<1>3. E!CoversSection(chunks, s) <=>
        /\ E!Sampled(chunks, s) \subseteq all
        /\ Cardinality(E!Sampled(chunks, s)) = E!Least(9, size)
        /\ E!Nth(all, 0) \in E!Sampled(chunks, s)
        /\ E!Nth(all, size - 1) \in E!Sampled(chunks, s)
        /\ \E m \in {(size - 1) \div 2, size \div 2} : E!Nth(all, m) \in E!Sampled(chunks, s)
  BY SameCounts DEF E!CoversSection
<1> HIDE DEF all
<1>4. size \in Nat \ {0}
  BY <1>1, FS_CardinalityType, FS_EmptySet
<1> HIDE DEF size
<1>5. CASE size >= 9
  <2>1. E!Least(9, size) = 9
    BY <1>4, <1>5 DEF E!Least
  <2>2. E!Least(9, E!Least(9, size)) = 9 /\ size = Cardinality(all)
    BY <2>1 DEF E!Least, size
  <2>3. QED
    BY <1>1, <1>2, <1>3, <1>4, <2>1, <2>2, SpreadFacts
<1>6. CASE size < 9
  <2>1. E!Least(9, size) = size /\ E!Least(size, size) = size /\ size = Cardinality(all)
    BY <1>4, <1>6 DEF E!Least, size
  <2>2. E!Spread(all, size) \subseteq all /\ Cardinality(E!Spread(all, size)) = size
    BY <1>1, <1>4, <2>1, SpreadFacts
  <2>3. E!Spread(all, size) = all
    BY <1>1, <2>1, <2>2, FS_Subset
  <2>4. \A i \in 0 .. (size - 1) : E!Nth(all, i) \in all
    BY <1>1, <2>1, NthFacts
  <2>5. 0 \in 0 .. (size - 1) /\ size - 1 \in 0 .. (size - 1) /\ (size - 1) \div 2 \in 0 .. (size - 1)
    BY <1>4
  <2>6. QED
    BY <1>2, <1>3, <2>1, <2>2, <2>3, <2>4, <2>5
<1>7. QED
  BY <1>4, <1>5, <1>6

(* Each section has one first batch.                                       *)
LEMMA FirstsFacts ==
  ASSUME NEW missing \in SUBSET Nat, IsFiniteSet(missing), NEW section
  PROVE  LET firsts == E!SectionsFirst(missing, section) IN
         /\ firsts \in SUBSET missing
         /\ \A b, c \in firsts : section[b] = section[c] => b = c
         /\ \A b \in missing : \E c \in firsts : section[c] = section[b]
<1> DEFINE firsts == E!SectionsFirst(missing, section)
<1>1. firsts = { b \in missing : \A c \in missing : section[c] = section[b] => b <= c }
  BY DEF E!SectionsFirst
<1> HIDE DEF firsts
<1>2. \A b, c \in firsts : section[b] = section[c] => b = c
  BY <1>1
<1>3. ASSUME NEW b \in missing
      PROVE  \E c \in firsts : section[c] = section[b]
  <2> DEFINE same == { c \in missing : section[c] = section[b] }
             first == E!Nth(same, 0)
  <2>1. b \in same /\ same \in SUBSET missing
    OBVIOUS
  <2>2. same \in SUBSET Nat /\ IsFiniteSet(same) /\ Cardinality(same) \in Nat /\ Cardinality(same) # 0
    <3> HIDE DEF same
    <3>1. QED
      BY <2>1, FS_Subset, FS_CardinalityType, FS_EmptySet
  <2>3. first \in same /\ PlaceOf(same, first) = 0
    <3> HIDE DEF same
    <3>1. 0 \in 0 .. (Cardinality(same) - 1)
      BY <2>2
    <3>2. QED
      BY <2>2, <3>1, NthFacts
  <2>4. { c \in same : c < first } = {}
    <3> DEFINE before == { c \in same : c < first }
    <3>1. before \in SUBSET same /\ Cardinality(before) = 0
      BY <2>3 DEF PlaceOf
    <3> HIDE DEF before, same, first
    <3>2. before = {}
      BY <2>2, <3>1, FS_Subset, FS_EmptySet
    <3>3. QED
      BY <3>2 DEF before
  <2> HIDE DEF first
  <2>5. \A c \in same : first <= c
    BY <2>2, <2>3, <2>4
  <2>6. first \in missing /\ section[first] = section[b]
    BY <2>3
  <2>7. first \in firsts
    BY <1>1, <2>5, <2>6
  <2>8. QED
    BY <2>6, <2>7
<1>4. firsts \in SUBSET missing
  BY <1>1
<1>5. QED
  BY <1>2, <1>3, <1>4 DEF firsts

(* "Apply a fair free-tier budget", for any batches, sections and limits.  *)
THEOREM BudgetsAreSpread ==
  ASSUME NEW missing \in SUBSET Nat, IsFiniteSet(missing), NEW section, NEW limit \in Nat \ {0}
  PROVE  E!SpreadsBudget(missing, section, limit)
<1> DEFINE firsts == E!SectionsFirst(missing, section)
           others == missing \ firsts
           chosen == E!Select(missing, section, limit)
           Of(S) == { section[b] : b \in S }
           F == Cardinality(firsts)
           N == Cardinality(missing)
<1>1. /\ firsts \in SUBSET missing
      /\ \A b, c \in firsts : section[b] = section[c] => b = c
      /\ \A b \in missing : \E c \in firsts : section[c] = section[b]
  BY FirstsFacts
<1>2. E!SpreadsBudget(missing, section, limit) <=>
        /\ chosen \subseteq missing
        /\ Cardinality(chosen) = E!Least(limit, N)
        /\ Cardinality(Of(chosen)) = E!Least(limit, Cardinality(Of(missing)))
        /\ limit >= 2 /\ missing # {} => {E!Nth(firsts, 0), E!Nth(firsts, F - 1)} \subseteq chosen
  BY SameCounts DEF E!SpreadsBudget
<1>3. chosen = IF N <= limit THEN missing
               ELSE IF F >= limit THEN E!Spread(firsts, limit)
               ELSE firsts \cup E!Spread(others, limit - F)
  BY SameCounts DEF E!Select
<1>4. others \in SUBSET missing /\ firsts \cap others = {} /\ missing = firsts \cup others
  BY <1>1
<1> HIDE DEF firsts, others, chosen
<1>5. /\ firsts \in SUBSET Nat /\ IsFiniteSet(firsts) /\ F \in Nat
      /\ others \in SUBSET Nat /\ IsFiniteSet(others) /\ Cardinality(others) \in Nat
      /\ N \in Nat /\ F <= N
  BY <1>1, <1>4, FS_Subset, FS_CardinalityType
<1>6. Cardinality(others) = N - F
  <2>1. Cardinality(firsts \cup others) = F + Cardinality(others) - Cardinality(firsts \cap others)
    BY <1>5, FS_Union
  <2>2. N = F + Cardinality(others) - Cardinality({})
    BY <1>4, <2>1
  <2>3. QED
    BY <1>5, <2>2, FS_EmptySet
<1>7. \A S \in SUBSET firsts : IsFiniteSet(S) => Cardinality(Of(S)) = Cardinality(S)
  <2> SUFFICES ASSUME NEW S \in SUBSET firsts, IsFiniteSet(S)
               PROVE  Cardinality(Of(S)) = Cardinality(S)
    OBVIOUS
  <2> DEFINE f == [b \in S |-> section[b]]
  <2>1. /\ DOMAIN f = S /\ \A b, c \in S : f[b] = f[c] => b = c
        /\ Of(S) = { f[b] : b \in S }
    BY <1>1
  <2> HIDE DEF f, Of
  <2>2. QED
    BY <2>1, SameNumber
<1>8. Of(missing) = Of(firsts) /\ Cardinality(Of(missing)) = F
  <2>1. Of(missing) = Of(firsts)
    BY <1>1
  <2> HIDE DEF Of
  <2>2. QED
    BY <1>5, <1>7, <2>1
<1>9. missing # {} => F > 0 /\ E!Nth(firsts, 0) \in firsts /\ E!Nth(firsts, F - 1) \in firsts
  <2> HIDE DEF F
  <2> SUFFICES ASSUME missing # {}
               PROVE  F > 0 /\ E!Nth(firsts, 0) \in firsts /\ E!Nth(firsts, F - 1) \in firsts
    OBVIOUS
  <2>1. firsts # {}
    BY <1>1
  <2>2. F \in Nat /\ F # 0
    BY <1>5, <2>1, FS_EmptySet DEF F
  <2>3. 0 \in 0 .. (F - 1) /\ F - 1 \in 0 .. (F - 1)
    BY <2>2
  <2>4. \A i \in 0 .. (F - 1) : E!Nth(firsts, i) \in firsts
    BY <1>5, NthFacts DEF F
  <2>5. QED
    BY <2>2, <2>3, <2>4
<1> HIDE DEF Of, F, N
<1>10. CASE N <= limit
  <2>1. chosen = missing /\ F <= limit
    BY <1>3, <1>5, <1>10
  <2>2. E!Least(limit, N) = N /\ E!Least(limit, F) = F
    BY <1>5, <1>10, <2>1 DEF E!Least
  <2>3. Cardinality(missing) = N
    BY DEF N
  <2>4. QED
    BY <1>1, <1>2, <1>8, <1>9, <2>1, <2>2, <2>3
<1>11. CASE ~(N <= limit) /\ F >= limit
  <2>1. chosen = E!Spread(firsts, limit)
    BY <1>3, <1>11
  <2>2. /\ chosen \subseteq firsts /\ Cardinality(chosen) = E!Least(limit, F)
        /\ F > 0 /\ limit >= 2 => E!Nth(firsts, 0) \in chosen /\ E!Nth(firsts, F - 1) \in chosen
    BY <1>5, <2>1, SpreadFacts DEF F
  <2>3. E!Least(limit, N) = limit /\ E!Least(limit, F) = limit
    BY <1>5, <1>11 DEF E!Least
  <2>4. IsFiniteSet(chosen)
    BY <1>5, <2>2, FS_Subset
  <2>5. Cardinality(Of(chosen)) = limit
    BY <1>7, <2>2, <2>3, <2>4
  <2>6. QED
    BY <1>1, <1>2, <1>8, <1>9, <2>2, <2>3, <2>5
<1>12. CASE ~(N <= limit) /\ ~(F >= limit)
  <2> DEFINE left == limit - F
             more == E!Spread(others, left)
  <2>1. left \in Nat \ {0} /\ left < Cardinality(others)
    BY <1>5, <1>6, <1>12
  <2>2. chosen = firsts \cup more
    BY <1>3, <1>12
  <2> HIDE DEF left
  <2>3. more \subseteq others /\ Cardinality(more) = E!Least(left, Cardinality(others))
    BY <1>5, <2>1, SpreadFacts
  <2> HIDE DEF more
  <2>4. Cardinality(more) = left
    BY <1>5, <2>1, <2>3 DEF E!Least
  <2>5. IsFiniteSet(more) /\ firsts \cap more = {}
    BY <1>4, <1>5, <2>3, FS_Subset
  <2>6. Cardinality(firsts \cup more) = Cardinality(firsts) + Cardinality(more) - Cardinality({})
    BY <1>5, <2>5, FS_Union
  <2>7. Cardinality(chosen) = limit
    BY <1>5, <2>1, <2>2, <2>4, <2>6, FS_EmptySet DEF F, left
  <2>8. chosen \subseteq missing /\ firsts \subseteq chosen
    BY <1>1, <1>4, <2>2, <2>3
  <2>9. Of(chosen) = Of(missing)
    <3>1. Of(firsts) \subseteq Of(chosen) /\ Of(chosen) \subseteq Of(missing)
      BY <2>8 DEF Of
    <3>2. QED
      BY <1>8, <3>1
  <2>10. E!Least(limit, N) = limit /\ E!Least(limit, F) = F
    BY <1>5, <1>12 DEF E!Least
  <2>11. QED
    BY <1>2, <1>8, <1>9, <2>7, <2>8, <2>9, <2>10
<1>13. QED
  BY <1>10, <1>11, <1>12

-----------------------------------------------------------------------------
(* What a build takes as done is saved, and what it asks about is not.     *)
BuildInv ==
  /\ build.at # "idle" => E!Completed(build.parts) \subseteq E!SavedBatches(saved)
  /\ build.todo \cap E!SavedBatches(saved) = {}

(* The graph shows saved concepts, all of which a build at work has too;   *)
(* a complete one is not built again.                                      *)
ShownInv ==
  /\ result.shown \subseteq { b \in Batches : saved[b] = "nodes" }
  /\ build.at # "idle" => result.shown \subseteq E!Completed(build.parts)
  /\ result.status = "ready" => build.at = "idle"

ExtractionInv == BuildInv /\ ShownInv /\ E!ReadyMeansComplete

SavedRows == [Batches -> E!Answers \cup {"none"}]
Results == [status : {"none", "without", "partial", "ready"}, shown : SUBSET Batches, linked : BOOLEAN]
Builds == [at : {"idle", "extracting", "linking", "publishing"}, kind : E!Kinds, parts : Seq(Batches),
           todo : SUBSET Batches, streak : 0 .. 1, failed : Nat, skipped : Nat,
           limited : BOOLEAN, known : SUBSET links, linked : BOOLEAN]

LEMMA TypeParts ==
  E!TypeOK <=> /\ saved \in SavedRows /\ links \subseteq Seq(Batches) /\ result \in Results
               /\ build \in Builds /\ abandoned \in 0 .. MaxAbandoned
BY DEF E!TypeOK, SavedRows, Results, Builds

LEMMA TypeStep ==
  ASSUME E!TypeOK, saved' \in SavedRows, links' \subseteq Seq(Batches), links \subseteq links',
         result' \in Results, build' \in Builds, abandoned' \in 0 .. MaxAbandoned
  PROVE  E!TypeOK'
<1>1. build' \in Builds'
  BY DEF Builds
<1>2. QED
  BY <1>1 DEF E!TypeOK, SavedRows, Results, Builds

LEMMA NoBuildType == E!NoBuild \in Builds
<1>1. <<>> \in Seq(Batches)
  OBVIOUS
<1>2. QED
  BY <1>1 DEF E!NoBuild, Builds, E!Kinds

LEMMA ExtractionInit == E!BatchesAssumption /\ E!Init => ExtractionInv
<1> SUFFICES ASSUME E!BatchesAssumption, E!Init PROVE ExtractionInv
  OBVIOUS
<1>1. /\ saved = [b \in Batches |-> "none"] /\ links = {}
      /\ result = [status |-> "none", shown |-> {}, linked |-> FALSE]
      /\ build = E!NoBuild /\ abandoned = 0
  BY DEF E!Init
<1>2. build.at = "idle" /\ build.todo = {}
  BY <1>1 DEF E!NoBuild
<1>3. E!TypeOK
  BY <1>1, NoBuildType, TypeParts DEF E!BatchesAssumption, SavedRows, Results
<1>4. QED
  BY <1>1, <1>2, <1>3 DEF ExtractionInv, BuildInv, ShownInv, E!ReadyMeansComplete

LEMMA BatchFacts ==
  ASSUME E!BatchesAssumption, NEW S \in SUBSET Batches
  PROVE  S \in SUBSET Nat /\ IsFiniteSet(S) /\ Cardinality(S) \in Nat
BY SameCounts, FS_Subset, FS_CardinalityType DEF E!BatchesAssumption

LEMMA BeginKeeps ==
  ASSUME E!BatchesAssumption, ExtractionInv, NEW kind \in E!Kinds, E!Begin(kind)
  PROVE  ExtractionInv'
<1> DEFINE done == E!SavedBatches(saved)
           missing == Batches \ done
           todo == E!Select(missing, SectionOf, MaxBatches)
<1>1. /\ build.at = "idle" /\ result.status # "ready"
      /\ build' = [E!NoBuild EXCEPT !.at = "extracting", !.kind = kind, !.todo = todo,
                     !.parts = E!InOrder(done), !.skipped = E!Cardinality(missing \ todo),
                     !.known = E!RowsFor(kind)]
      /\ saved' = saved /\ links' = links /\ result' = result /\ abandoned' = abandoned
  BY DEF E!Begin
<1>2. done \in SUBSET Batches /\ missing \in SUBSET Batches /\ missing \cap done = {}
  BY DEF E!SavedBatches
<1> HIDE DEF done, missing
<1>3. todo \in SUBSET missing
  BY <1>2, BatchFacts, SelectType DEF E!BatchesAssumption
<1>4. E!InOrder(done) \in Seq(Batches) /\ E!Completed(E!InOrder(done)) = done
  <2>1. E!InOrder(done) \in Seq(done) /\ E!Completed(E!InOrder(done)) = done
    BY <1>2, BatchFacts, InOrderFacts
  <2>2. Seq(done) \subseteq Seq(Batches)
    BY <1>2
  <2>3. QED
    BY <2>1, <2>2
<1> HIDE DEF todo
<1>5. E!Cardinality(missing \ todo) \in Nat
  <2>1. missing \ todo \in SUBSET Batches
    BY <1>2
  <2>2. QED
    BY <2>1, BatchFacts, SameCounts
<1>6. E!RowsFor(kind) \in SUBSET links
  BY DEF E!RowsFor
<1>7. /\ build'.at = "extracting" /\ build'.todo = todo /\ build'.parts = E!InOrder(done)
      /\ build' \in Builds
  <2>1. build' = [at |-> "extracting", kind |-> kind, parts |-> E!InOrder(done), todo |-> todo,
                  streak |-> 0, failed |-> 0, skipped |-> E!Cardinality(missing \ todo),
                  limited |-> FALSE, known |-> E!RowsFor(kind), linked |-> FALSE]
    BY <1>1 DEF E!NoBuild
  <2>2. todo \in SUBSET Batches
    BY <1>2, <1>3
  <2>3. QED
    BY <2>1, <2>2, <1>4, <1>5, <1>6 DEF Builds
<1>8. E!TypeOK'
  BY <1>1, <1>7, TypeStep, TypeParts DEF ExtractionInv, E!ReadyMeansComplete
<1>9. E!SavedBatches(saved)' = done
  BY <1>1 DEF done, E!SavedBatches
<1>10. BuildInv'
  BY <1>2, <1>3, <1>4, <1>7, <1>9 DEF BuildInv, E!Completed
<1>11. ShownInv'
  <2>1. { b \in Batches : saved[b] = "nodes" } \subseteq done
    BY DEF done, E!SavedBatches
  <2>2. E!Completed(build.parts)' = done
    BY <1>4, <1>7 DEF E!Completed
  <2>3. QED
    BY <1>1, <1>7, <2>1, <2>2 DEF ExtractionInv, ShownInv
<1>12. QED
  BY <1>1, <1>8, <1>10, <1>11 DEF ExtractionInv, E!ReadyMeansComplete

(* What a step of the loop or of the recovery pass leaves.                 *)
LEMMA LoopStep ==
  ASSUME E!BatchesAssumption, ExtractionInv, build.at # "idle", UNCHANGED <<saved, result, abandoned>>,
         links \subseteq links', links' \subseteq Seq(Batches), build' \in Builds, build'.at # "idle",
         build'.parts = build.parts, build'.todo \subseteq build.todo
  PROVE  ExtractionInv'
<1>1. E!TypeOK'
  BY TypeStep, TypeParts DEF ExtractionInv, E!ReadyMeansComplete
<1>2. /\ E!SavedBatches(saved)' = E!SavedBatches(saved)
      /\ E!Completed(build.parts)' = E!Completed(build.parts)
  BY DEF E!SavedBatches, E!Completed
<1>3. BuildInv' /\ ShownInv'
  BY <1>2 DEF ExtractionInv, BuildInv, ShownInv
<1>4. E!ReadyMeansComplete'
  BY <1>1, <1>2 DEF ExtractionInv, E!ReadyMeansComplete, ShownInv
<1>5. QED
  BY <1>3, <1>4 DEF ExtractionInv

LEMMA DropStep ==
  ASSUME E!BatchesAssumption, ExtractionInv, UNCHANGED <<saved, links, result>>,
         build' = E!NoBuild, abandoned' \in 0 .. MaxAbandoned
  PROVE  ExtractionInv'
<1>1. E!TypeOK'
  BY TypeStep, TypeParts, NoBuildType DEF ExtractionInv, E!ReadyMeansComplete
<1>2. E!SavedBatches(saved)' = E!SavedBatches(saved)
  BY DEF E!SavedBatches
<1>3. build'.at = "idle" /\ build'.todo = {}
  BY DEF E!NoBuild
<1>4. BuildInv' /\ ShownInv' /\ E!ReadyMeansComplete'
  BY <1>1, <1>2, <1>3 DEF ExtractionInv, BuildInv, ShownInv, E!ReadyMeansComplete
<1>5. QED
  BY <1>4 DEF ExtractionInv

LEMMA CurrentFacts ==
  ASSUME E!BatchesAssumption, ExtractionInv, NEW b, E!Current(b)
  PROVE  /\ build.at # "idle" /\ b \in build.todo /\ b \in Batches
         /\ b \notin E!SavedBatches(saved) /\ saved[b] = "none"
<1>1. build \in Builds /\ build.todo \in SUBSET Batches
  BY TypeParts DEF ExtractionInv, E!ReadyMeansComplete, Builds
<1>2. build.at = "extracting" /\ build.todo # {} /\ b = E!Nth(build.todo, 0)
  BY DEF E!Current
<1>3. /\ build.todo \in SUBSET Nat /\ IsFiniteSet(build.todo)
      /\ Cardinality(build.todo) \in Nat /\ Cardinality(build.todo) # 0
  BY <1>1, <1>2, BatchFacts, FS_EmptySet
<1>4. b \in build.todo
  <2> DEFINE todo == build.todo
  <2>1. \A i \in 0 .. (Cardinality(todo) - 1) : E!Nth(todo, i) \in todo
    BY <1>3, NthFacts
  <2>2. 0 \in 0 .. (Cardinality(todo) - 1)
    BY <1>3
  <2> HIDE DEF todo
  <2>3. E!Nth(todo, 0) \in todo
    BY <2>1, <2>2
  <2>4. QED
    BY <1>2, <2>3 DEF todo
<1>5. QED
  BY <1>1, <1>2, <1>4 DEF ExtractionInv, BuildInv, E!SavedBatches

(* What the loop changes of a build.                                       *)
Going(parts, todo, streak, failed, skipped, limited) ==
  [build EXCEPT !.parts = parts, !.todo = todo, !.streak = streak, !.failed = failed,
                !.skipped = skipped, !.limited = limited]

GoesOn(parts, todo, streak, failed, skipped, limited) ==
  /\ build \in Builds /\ parts \in Seq(Batches) /\ todo \in SUBSET Batches /\ streak \in 0 .. 1
  /\ failed \in Nat /\ skipped \in Nat /\ limited \in BOOLEAN

LEMMA GoingFacts ==
  ASSUME NEW parts, NEW todo, NEW streak, NEW failed, NEW skipped, NEW limited,
         GoesOn(parts, todo, streak, failed, skipped, limited)
  PROVE  /\ Going(parts, todo, streak, failed, skipped, limited) \in Builds
         /\ Going(parts, todo, streak, failed, skipped, limited).at = build.at
         /\ Going(parts, todo, streak, failed, skipped, limited).parts = parts
         /\ Going(parts, todo, streak, failed, skipped, limited).todo = todo
<1> DEFINE b == Going(parts, todo, streak, failed, skipped, limited)
<1>1. /\ build \in Builds /\ parts \in Seq(Batches) /\ todo \in SUBSET Batches /\ streak \in 0 .. 1
      /\ failed \in Nat /\ skipped \in Nat /\ limited \in BOOLEAN
      /\ build.at \in {"idle", "extracting", "linking", "publishing"} /\ build.kind \in E!Kinds
      /\ build.known \in SUBSET links /\ build.linked \in BOOLEAN
  BY DEF GoesOn, Builds
<1> DEFINE same == [at |-> build.at, kind |-> build.kind, parts |-> build.parts, todo |-> build.todo,
                    streak |-> build.streak, failed |-> build.failed, skipped |-> build.skipped,
                    limited |-> build.limited, known |-> build.known, linked |-> build.linked]
<1>2. build = same
  BY <1>1 DEF Builds
<1>3. b = [at |-> build.at, kind |-> build.kind, parts |-> parts, todo |-> todo, streak |-> streak,
           failed |-> failed, skipped |-> skipped, limited |-> limited, known |-> build.known,
           linked |-> build.linked]
  <2> HIDE DEF same
  <2>1. b = [same EXCEPT !.parts = parts, !.todo = todo, !.streak = streak, !.failed = failed,
                         !.skipped = skipped, !.limited = limited]
    BY <1>2 DEF Going
  <2>2. QED
    BY <2>1 DEF same
<1> HIDE DEF same
<1> HIDE DEF b
<1>4. b \in Builds
  <2>1. build.kind \in E!Kinds /\ build.linked \in BOOLEAN
    BY <1>1
  <2>2. QED
    BY <1>1, <1>3, <2>1 DEF Builds
<1>5. b.at = build.at /\ b.parts = parts /\ b.todo = todo
  BY <1>3
<1>6. QED
  BY <1>4, <1>5 DEF b

LEMMA BuildFields ==
  ASSUME build \in Builds
  PROVE  /\ build.parts \in Seq(Batches) /\ build.todo \in SUBSET Batches /\ build.streak \in 0 .. 1
         /\ build.failed \in Nat /\ build.skipped \in Nat /\ build.limited \in BOOLEAN
         /\ build.failed + 1 \in Nat
BY DEF Builds

LEMMA SucceedKeeps ==
  ASSUME E!BatchesAssumption, ExtractionInv, NEW b \in Batches, NEW answer \in E!Answers,
         E!Succeed(b, answer)
  PROVE  ExtractionInv'
<1>1. /\ saved' = [saved EXCEPT ![b] = answer]
      /\ build' = [build EXCEPT !.parts = Append(@, b), !.todo = @ \ {b}, !.streak = 0]
      /\ links' = links /\ result' = result /\ abandoned' = abandoned
      /\ E!Current(b)
  BY DEF E!Succeed
<1>2. /\ saved \in SavedRows /\ build \in Builds
      /\ build.at # "idle" /\ saved[b] = "none" /\ answer # "none"
  BY <1>1, CurrentFacts, TypeParts DEF ExtractionInv, E!ReadyMeansComplete, E!Answers
<1>3. /\ build.parts \in Seq(Batches) /\ Append(build.parts, b) \in Seq(Batches)
      /\ E!Completed(Append(build.parts, b)) = E!Completed(build.parts) \cup {b}
  BY <1>2, AppendFacts DEF Builds
<1>4. /\ build'.at = build.at /\ build'.parts = Append(build.parts, b)
      /\ build'.todo = build.todo \ {b} /\ build' \in Builds
  <2>1. build' = Going(Append(build.parts, b), build.todo \ {b}, 0, build.failed, build.skipped, build.limited)
    BY <1>1, <1>2 DEF Going, Builds
  <2>2. build.todo \ {b} \in SUBSET Batches /\ 0 \in 0 .. 1
    BY <1>2, BuildFields
  <2> DEFINE g == Going(Append(build.parts, b), build.todo \ {b}, 0, build.failed, build.skipped, build.limited)
  <2>3. g \in Builds /\ g.at = build.at /\ g.parts = Append(build.parts, b) /\ g.todo = build.todo \ {b}
    <3>1. build.failed \in Nat /\ build.skipped \in Nat /\ build.limited \in BOOLEAN
      BY <1>2, BuildFields
    <3> DEFINE p == Append(build.parts, b)
               t == build.todo \ {b}
    <3>2. GoesOn(p, t, 0, build.failed, build.skipped, build.limited)
      BY <1>2, <1>3, <2>2, <3>1 DEF GoesOn
    <3>3. g = Going(p, t, 0, build.failed, build.skipped, build.limited)
      OBVIOUS
    <3> HIDE DEF p, t, g
    <3>4. g \in Builds /\ g.at = build.at /\ g.parts = p /\ g.todo = t
      BY <3>2, <3>3, GoingFacts
    <3>5. QED
      BY <3>4 DEF p, t
  <2> HIDE DEF g
  <2>4. build' = g
    BY <2>1 DEF g
  <2>5. QED
    BY <2>3, <2>4
<1>5. /\ saved' \in SavedRows /\ saved'[b] = answer
      /\ \A c \in Batches \ {b} : saved'[c] = saved[c]
  BY <1>1, <1>2 DEF SavedRows
<1>6. /\ E!SavedBatches(saved)' = E!SavedBatches(saved) \cup {b}
      /\ E!Completed(build.parts)' = E!Completed(build.parts) \cup {b}
  <2>1. E!SavedBatches(saved)' = { c \in Batches : saved'[c] # "none" }
    BY DEF E!SavedBatches
  <2>2. E!Completed(build.parts)' = E!Completed(build'.parts)
    BY DEF E!Completed
  <2>3. QED
    BY <1>2, <1>3, <1>4, <1>5, <2>1, <2>2 DEF E!SavedBatches
<1>7. E!TypeOK'
  BY <1>1, <1>4, <1>5, TypeStep, TypeParts DEF ExtractionInv, E!ReadyMeansComplete
<1>8. BuildInv'
  BY <1>2, <1>4, <1>6 DEF ExtractionInv, BuildInv
<1>9. ShownInv' /\ result.status # "ready"
  BY <1>1, <1>2, <1>4, <1>5, <1>6 DEF ExtractionInv, ShownInv
<1>10. QED
  BY <1>1, <1>7, <1>8, <1>9 DEF ExtractionInv, E!ReadyMeansComplete

LEMMA FailKeeps ==
  ASSUME E!BatchesAssumption, ExtractionInv, E!Fail
  PROVE  ExtractionInv'
<1>1. build \in Builds /\ links \subseteq Seq(Batches)
  BY TypeParts DEF ExtractionInv, E!ReadyMeansComplete
<1>2. PICK b \in Batches : \/ E!FailStructure(b) \/ E!FailUnavailable(b)
                           \/ \E quota \in BOOLEAN : E!FailForAll(b, quota)
  BY DEF E!Fail
<1>3. E!Current(b) /\ UNCHANGED <<saved, links, result, abandoned>>
  BY <1>2 DEF E!FailStructure, E!FailUnavailable, E!FailForAll
<1>4. build.at # "idle" /\ build.todo \ {b} \in SUBSET Batches /\ {} \in SUBSET Batches
  BY <1>1, <1>3, CurrentFacts, BuildFields
<1>5. build.skipped + E!Cardinality(build.todo \ {b}) \in Nat
  <2>1. Cardinality(build.todo \ {b}) \in Nat
    BY <1>4, BatchFacts
  <2>2. QED
    BY <1>1, <2>1, SameCounts, BuildFields
<1>6. \E todo \in {build.todo \ {b}, {}}, streak \in 0 .. 1, skipped \in Nat, limited \in BOOLEAN :
        build' = Going(build.parts, todo, streak, build.failed + 1, skipped, limited)
  <2>1. CASE E!FailStructure(b)
    <3>1. build' = Going(build.parts, build.todo \ {b}, build.streak, build.failed + 1, build.skipped, build.limited)
      BY <1>1, <2>1 DEF E!FailStructure, Going, Builds
    <3>2. QED
      BY <1>1, <3>1, BuildFields
  <2>2. CASE E!FailUnavailable(b) /\ build.streak = 1
    <3>1. build' = Going(build.parts, {}, 1, build.failed + 1,
                         build.skipped + E!Cardinality(build.todo \ {b}), build.limited)
      BY <1>1, <2>2 DEF E!FailUnavailable, Going, Builds
    <3>2. 1 \in 0 .. 1 /\ build.limited \in BOOLEAN
      BY <1>1, BuildFields
    <3>3. QED
      BY <1>5, <3>1, <3>2
  <2>3. CASE E!FailUnavailable(b) /\ build.streak # 1
    <3>1. build' = Going(build.parts, build.todo \ {b}, 1, build.failed + 1, build.skipped, build.limited)
      BY <1>1, <2>3 DEF E!FailUnavailable, Going, Builds
    <3>2. QED
      BY <1>1, <3>1, BuildFields
  <2>4. ASSUME NEW quota \in BOOLEAN, E!FailForAll(b, quota)
        PROVE  build' = Going(build.parts, {}, build.streak, build.failed + 1,
                              build.skipped + E!Cardinality(build.todo \ {b}), quota)
    BY <1>1, <2>4 DEF E!FailForAll, Going, Builds
  <2>5. CASE \E quota \in BOOLEAN : E!FailForAll(b, quota)
    <3>1. PICK quota \in BOOLEAN : E!FailForAll(b, quota)
      BY <2>5
    <3>2. QED
      BY <1>1, <1>5, <2>4, <3>1, BuildFields
  <2>6. QED
    BY <1>2, <2>1, <2>2, <2>3, <2>5
<1>7. /\ build' \in Builds /\ build'.at = build.at /\ build'.parts = build.parts
      /\ build'.todo \subseteq build.todo
  <2>1. PICK todo \in {build.todo \ {b}, {}}, streak \in 0 .. 1, skipped \in Nat, limited \in BOOLEAN :
          build' = Going(build.parts, todo, streak, build.failed + 1, skipped, limited)
    BY <1>6
  <2>2. todo \in SUBSET Batches /\ todo \subseteq build.todo
    BY <1>4
  <2> DEFINE g == Going(build.parts, todo, streak, build.failed + 1, skipped, limited)
  <2>3. g \in Builds /\ g.at = build.at /\ g.parts = build.parts /\ g.todo = todo
    <3>1. build.parts \in Seq(Batches) /\ build.failed + 1 \in Nat
      BY <1>1, BuildFields
    <3>2. GoesOn(build.parts, todo, streak, build.failed + 1, skipped, limited)
      BY <1>1, <2>2, <3>1 DEF GoesOn
    <3>3. QED
      BY <3>2, GoingFacts
  <2> HIDE DEF g
  <2>4. build' = g
    BY <2>1 DEF g
  <2>5. QED
    BY <2>2, <2>3, <2>4
<1>8. QED
  BY <1>1, <1>3, <1>4, <1>7, LoopStep

LEMMA LinkKeeps ==
  ASSUME E!BatchesAssumption, ExtractionInv,
         (\E wanted \in BOOLEAN : E!EndLoop(wanted)) \/ E!Link
  PROVE  ExtractionInv'
<1>1. build \in Builds /\ links \subseteq Seq(Batches) /\ abandoned \in 0 .. MaxAbandoned
  BY TypeParts DEF ExtractionInv, E!ReadyMeansComplete
<1>2. CASE \E wanted \in BOOLEAN : E!EndLoop(wanted)
  <2>1. /\ build.at # "idle" /\ UNCHANGED <<saved, links, result, abandoned>>
        /\ build' \in Builds /\ build'.at # "idle" /\ build'.parts = build.parts
        /\ build'.todo = build.todo
    BY <1>1, <1>2 DEF E!EndLoop, Builds
  <2>2. QED
    BY <1>1, <2>1, LoopStep
<1>3. CASE E!LinkFromSaved \/ \E quota \in BOOLEAN : E!LinkFails(quota)
  <2>1. /\ build.at # "idle" /\ UNCHANGED <<saved, links, result, abandoned>>
        /\ build' \in Builds /\ build'.at # "idle" /\ build'.parts = build.parts
        /\ build'.todo = build.todo
    BY <1>1, <1>3 DEF E!LinkFromSaved, E!LinkFails, Builds
  <2>2. QED
    BY <1>1, <2>1, LoopStep
<1>4. CASE E!LinkAnew
  <2>1. E!Request \in Seq(Batches)
    <3>1. build.parts \in Seq(Batches)
      BY <1>1 DEF Builds
    <3>2. QED
      BY <3>1, WithConceptsFacts, RecoveryType DEF E!Request
  <2>2. /\ build.at # "idle" /\ UNCHANGED <<saved, result, abandoned>>
        /\ links' = links \cup {E!Request}
        /\ build' \in Builds /\ build'.at # "idle" /\ build'.parts = build.parts
        /\ build'.todo = build.todo
    BY <1>1, <1>4 DEF E!LinkAnew, Builds
  <2>3. QED
    BY <1>1, <2>1, <2>2, LoopStep
<1>5. CASE E!LinkRefused
  BY <1>1, <1>5, DropStep DEF E!LinkRefused
<1>6. QED
  BY <1>2, <1>3, <1>4, <1>5 DEF E!Link

LEMMA PublishKeeps ==
  ASSUME E!BatchesAssumption, ExtractionInv, E!Publish
  PROVE  ExtractionInv' /\ result.shown \subseteq result'.shown
<1> DEFINE parts == build.parts
           status == E!Assess(parts, saved, build.failed, build.skipped, build.linked)
           shown == E!Completed(E!WithConcepts(parts, saved))
<1>1. /\ build.at = "publishing" /\ build' = E!NoBuild
      /\ result' = [status |-> status, shown |-> shown, linked |-> build.linked]
      /\ saved' = saved /\ links' = links /\ abandoned' = abandoned
  BY DEF E!Publish
<1>2. saved \in SavedRows /\ build \in Builds /\ parts \in Seq(Batches) /\ build.linked \in BOOLEAN
  BY TypeParts DEF ExtractionInv, E!ReadyMeansComplete, Builds
<1>3. shown = { b \in E!Completed(parts) : saved[b] = "nodes" }
  BY <1>2, WithConceptsFacts
<1>4. /\ E!Completed(parts) \subseteq Batches
      /\ E!Completed(parts) \subseteq E!SavedBatches(saved)
  <2>1. E!Completed(parts) \subseteq E!SavedBatches(saved)
    BY <1>1 DEF ExtractionInv, BuildInv
  <2>2. QED
    BY <2>1 DEF E!SavedBatches
<1>5. /\ status \in {"without", "partial", "ready"}
      /\ status = "ready" => Batches \subseteq E!Completed(parts)
  BY DEF E!Assess, E!Covered
<1>6. result.shown \subseteq shown
  BY <1>1, <1>3 DEF ExtractionInv, ShownInv
<1> HIDE DEF parts, status, shown
<1>7. result'.status = status /\ result'.shown = shown
  BY <1>1
<1>8. E!TypeOK'
  <2>1. result' \in Results
    BY <1>1, <1>2, <1>3, <1>4, <1>5 DEF Results
  <2>2. QED
    BY <1>1, <1>2, <2>1, TypeStep, TypeParts, NoBuildType DEF ExtractionInv, E!ReadyMeansComplete
<1>9. build'.at = "idle" /\ build'.todo = {}
  BY <1>1 DEF E!NoBuild
<1>10. E!SavedBatches(saved)' = E!SavedBatches(saved)
  BY <1>1 DEF E!SavedBatches
<1>11. BuildInv'
  BY <1>9 DEF BuildInv
<1>12. ShownInv'
  BY <1>1, <1>3, <1>4, <1>7, <1>9 DEF ShownInv
<1>13. E!ReadyMeansComplete'
  <2>1. status = "ready" => E!SavedBatches(saved) = Batches
    BY <1>4, <1>5 DEF E!SavedBatches
  <2>2. status = "ready" => shown = { b \in Batches : saved[b] = "nodes" }
    BY <1>3, <1>4, <1>5
  <2>3. QED
    BY <1>1, <1>7, <1>8, <1>10, <2>1, <2>2 DEF E!ReadyMeansComplete
<1>14. QED
  BY <1>6, <1>7, <1>11, <1>12, <1>13 DEF ExtractionInv

LEMMA ExtractionStep ==
  ASSUME E!BatchesAssumption, ExtractionInv, [E!Next]_(E!vars)
  PROVE  ExtractionInv'
<1>1. CASE \E kind \in E!Kinds : E!Begin(kind)
  BY <1>1, BeginKeeps
<1>2. CASE \E b \in Batches : \E answer \in E!Answers : E!Succeed(b, answer)
  BY <1>2, SucceedKeeps
<1>3. CASE E!Fail
  BY <1>3, FailKeeps
<1>4. CASE (\E wanted \in BOOLEAN : E!EndLoop(wanted)) \/ E!Link
  BY <1>4, LinkKeeps
<1>5. CASE E!Defer
  <2>1. abandoned \in 0 .. MaxAbandoned
    BY TypeParts DEF ExtractionInv, E!ReadyMeansComplete
  <2>2. QED
    BY <1>5, <2>1, DropStep DEF E!Defer
<1>6. CASE E!Publish
  BY <1>6, PublishKeeps
<1>7. CASE E!Abandon
  <2>1. abandoned \in 0 .. MaxAbandoned /\ MaxAbandoned \in Nat
    BY TypeParts DEF ExtractionInv, E!ReadyMeansComplete, E!BatchesAssumption
  <2>2. abandoned' \in 0 .. MaxAbandoned /\ UNCHANGED <<saved, links, result>> /\ build' = E!NoBuild
    BY <1>7, <2>1 DEF E!Abandon
  <2>3. QED
    BY <2>2, DropStep
<1>8. CASE UNCHANGED E!vars
  <2>1. UNCHANGED <<saved, links, result, build, abandoned>>
    BY <1>8 DEF E!vars
  <2>2. E!TypeOK' /\ E!SavedBatches(saved)' = E!SavedBatches(saved)
        /\ E!Completed(build.parts)' = E!Completed(build.parts)
    BY <2>1 DEF ExtractionInv, E!ReadyMeansComplete, E!TypeOK, E!SavedBatches, E!Completed
  <2>3. QED
    BY <2>1, <2>2 DEF ExtractionInv, E!ReadyMeansComplete, BuildInv, ShownInv
<1>9. QED
  BY <1>1, <1>2, <1>3, <1>4, <1>5, <1>6, <1>7, <1>8 DEF E!Next, E!Work

(* A step changes no saved result and takes nothing from the graph.        *)
LEMMA KeepStep ==
  ASSUME E!BatchesAssumption, ExtractionInv, [E!Next]_(E!vars)
  PROVE  /\ \A b \in Batches : saved[b] # "none" => saved'[b] = saved[b]
         /\ result.shown \subseteq result'.shown
<1>1. ASSUME NEW b \in Batches, NEW answer \in E!Answers, E!Succeed(b, answer)
      PROVE  /\ \A c \in Batches : saved[c] # "none" => saved'[c] = saved[c]
             /\ result' = result
  <2>1. saved \in SavedRows /\ saved[b] = "none"
    BY <1>1, CurrentFacts, TypeParts DEF E!Succeed, ExtractionInv, E!ReadyMeansComplete
  <2>2. QED
    BY <1>1, <2>1 DEF E!Succeed, SavedRows
<1>2. CASE E!Publish
  BY <1>2, PublishKeeps DEF E!Publish
<1>3. ASSUME ~E!Publish, ~(\E b \in Batches : \E answer \in E!Answers : E!Succeed(b, answer))
      PROVE  UNCHANGED <<saved, result>>
  BY <1>3 DEF E!Next, E!Work, E!Begin, E!Fail, E!FailStructure, E!FailUnavailable, E!FailForAll,
              E!EndLoop, E!Link, E!LinkFromSaved, E!LinkAnew, E!LinkRefused, E!LinkFails,
              E!Defer, E!Abandon, E!vars
<1>4. QED
  BY <1>1, <1>2, <1>3

(* The inductive invariant of the builds.                                  *)
THEOREM ExtractionInvariance == ASSUME E!BatchesAssumption PROVE E!Spec => []ExtractionInv
BY ExtractionInit, ExtractionStep, PTL DEF E!Spec

(* A document shown as GRAPH_READY has a saved result for every batch, and *)
(* its graph the concepts of all of them, for any batches, sections and    *)
(* budget of a build, with or without the recovery pass.                   *)
THEOREM ReadyIsComplete == ASSUME E!BatchesAssumption PROVE E!Spec => []E!ReadyMeansComplete
<1>1. ExtractionInv => E!ReadyMeansComplete
  BY DEF ExtractionInv
<1>2. QED
  BY <1>1, ExtractionInvariance, PTL

(* No build asks again about a saved batch, and none shows less than an    *)
(* earlier one.                                                            *)
THEOREM ExtractedStays == ASSUME E!BatchesAssumption PROVE E!Spec => E!ExtractedIsKept
<1>1. ExtractionInv /\ [E!Next]_(E!vars) =>
        [ /\ \A b \in Batches : saved[b] # "none" => saved'[b] = saved[b]
          /\ result.shown \subseteq result'.shown ]_(E!vars)
  BY KeepStep
<1>2. QED
  BY <1>1, ExtractionInvariance, PTL DEF E!Spec, E!ExtractedIsKept
================================================================================
