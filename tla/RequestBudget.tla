---------------------------- MODULE RequestBudget ----------------------------
(***************************************************************************)
(* The ledger of paid provider requests, copart/request-budget.service.ts. *)
(*                                                                         *)
(* reserve charges one attempt against the month shared by all providers,  *)
(* confirm and complete record what became of it.  reserve reads the clock *)
(* before it opens its transaction and waits for the row of the month, so  *)
(* it is two steps with midnights in between; under the row lock it is     *)
(* atomic.  confirm and complete are single conditional updates keyed by   *)
(* the attempt, and may come late, twice, or in the wrong order.           *)
(* Days are numbered through; months all have the same number of days.     *)
(***************************************************************************)
EXTENDS Integers, FiniteSets

CONSTANTS Attempt,      \* the attempt ids
          Provider,     \* copart and iaai
          Budget,       \* IMPORT_MONTHLY_REQUEST_BUDGET
          Reserve,      \* IMPORT_MONTHLY_REQUEST_RESERVE
          DaysPerMonth,
          LastDay       \* bound on the days

ASSUME BudgetAssumption ==
    /\ IsFiniteSet(Attempt)
    /\ Provider # {}
    /\ Budget \in Nat
    /\ Reserve \in 0 .. Budget
    /\ DaysPerMonth \in Nat \ {0}
    /\ LastDay \in Nat

VARIABLES today,      \* the UTC day
          call,       \* call[a]: the reserve call for a that is on its way to the ledger
          row,        \* row[a]: the reservation of a
          global,     \* global[m]: the counters of month m
          breakdown   \* breakdown[p][m]: the counters of provider p in month m

vars == <<today, call, row, global, breakdown>>

Day == 0 .. LastDay
MonthOf(d) == d \div DaysPerMonth
Month == 0 .. LastDay

Mode == {"routine", "manual"}
Status == {"none", "allocated", "confirmed", "completed_success", "completed_failure"}
Counter == {"allocated", "confirmed", "completedSuccess", "failure"}

Call == [open : BOOLEAN, day : Day, provider : Provider, mode : Mode]
Row == [status : Status, month : Month, day : Day, provider : Provider, mode : Mode,
        confirmedAt : BOOLEAN, counted : BOOLEAN]

TypeOK == /\ today \in Day
          /\ call \in [Attempt -> Call]
          /\ row \in [Attempt -> Row]
          /\ global \in [Month -> [Counter -> Nat]]
          /\ breakdown \in [Provider -> [Month -> [Counter -> Nat]]]

AnyProvider == CHOOSE p \in Provider : TRUE
NoCall == [open |-> FALSE, day |-> 0, provider |-> AnyProvider, mode |-> "routine"]
NoRow == [status |-> "none", month |-> 0, day |-> 0, provider |-> AnyProvider,
          mode |-> "routine", confirmedAt |-> FALSE, counted |-> FALSE]

Init == /\ today = 0
        /\ call = [a \in Attempt |-> NoCall]
        /\ row = [a \in Attempt |-> NoRow]
        /\ global = [m \in Month |-> [c \in Counter |-> 0]]
        /\ breakdown = [p \in Provider |-> [m \in Month |-> [c \in Counter |-> 0]]]

(* Both UPDATEs of a counter: the shared month and the provider's share.   *)
Bump(p, m, c) ==
    /\ global' = [global EXCEPT ![m][c] = @ + 1]
    /\ breakdown' = [breakdown EXCEPT ![p][m][c] = @ + 1]

-----------------------------------------------------------------------------
(* The limits reserve computes under the lock. *)

RoutineCap == Budget - Reserve
EffectiveCap(mode) == IF mode = "manual" THEN Budget ELSE RoutineCap

Reserved(a) == row[a].status # "none"

DailyUsed(m, d) ==
    Cardinality({a \in Attempt : /\ Reserved(a)
                                 /\ row[a].month = m
                                 /\ row[a].mode = "routine"
                                 /\ row[a].day >= d})

RemainingDays(d) == DaysPerMonth - (d % DaysPerMonth)

AvailableForRoutine(m) ==
    IF global[m]["allocated"] < RoutineCap THEN RoutineCap - global[m]["allocated"] ELSE 0

DailyCap(m, d) == (AvailableForRoutine(m) + DailyUsed(m, d)) \div RemainingDays(d)

(* Faulty variants: one request too many of the month, of the day. *)
WithinCapsMonthOff(m, d, mode) ==
    /\ global[m]["allocated"] <= EffectiveCap(mode)
    /\ mode = "routine" => DailyUsed(m, d) < DailyCap(m, d)

WithinCapsDayOff(m, d, mode) ==
    /\ global[m]["allocated"] < EffectiveCap(mode)
    /\ mode = "routine" => DailyUsed(m, d) <= DailyCap(m, d)

WithinCaps(m, d, mode) ==
    /\ global[m]["allocated"] < EffectiveCap(mode)
    /\ mode = "routine" => DailyUsed(m, d) < DailyCap(m, d)

-----------------------------------------------------------------------------
(* reserve, up to the start of its transaction: month and day are read. *)
CallReserve(a, p, mode) ==
    /\ ~call[a].open
    /\ call' = [call EXCEPT ![a] = [open |-> TRUE, day |-> today, provider |-> p, mode |-> mode]]
    /\ UNCHANGED <<today, row, global, breakdown>>

Answered(a) == call' = [call EXCEPT ![a] = NoCall]

(* Faulty variant: the attempt's own row is not looked up under the lock.  *)
ReserveGrantAgain(a) ==
    LET c == call[a]
        m == MonthOf(c.day)
    IN  /\ c.open
        /\ WithinCaps(m, c.day, c.mode)
        /\ row' = [row EXCEPT ![a] =
                     [status |-> "allocated", month |-> m, day |-> today, provider |-> c.provider,
                      mode |-> c.mode, confirmedAt |-> FALSE, counted |-> FALSE]]
        /\ Bump(c.provider, m, "allocated")
        /\ Answered(a)
        /\ UNCHANGED today

(* The attempt is charged to the month the call read; its row is dated by  *)
(* the insert, which may be a later day.                                   *)
ReserveGrant(a) ==
    LET c == call[a]
        m == MonthOf(c.day)
    IN  /\ c.open
        /\ ~Reserved(a)
        /\ WithinCaps(m, c.day, c.mode)
        /\ \E d \in c.day .. today :
              row' = [row EXCEPT ![a] =
                        [status |-> "allocated", month |-> m, day |-> d, provider |-> c.provider,
                         mode |-> c.mode, confirmedAt |-> FALSE, counted |-> FALSE]]
        /\ Bump(c.provider, m, "allocated")
        /\ Answered(a)
        /\ UNCHANGED today

(* The attempt was charged before (allowed again, nothing counted), a cap  *)
(* denies it, or the transaction failed.                                   *)
ReserveNoCharge(a) ==
    /\ call[a].open
    /\ Answered(a)
    /\ UNCHANGED <<today, row, global, breakdown>>

Confirm(a) ==
    /\ row[a].status = "allocated"
    /\ row' = [row EXCEPT ![a] = [@ EXCEPT !.status = "confirmed", !.confirmedAt = TRUE]]
    /\ Bump(row[a].provider, row[a].month, "confirmed")
    /\ UNCHANGED <<today, call>>

CompleteSuccess(a) ==
    /\ row[a].status = "confirmed"
    /\ row' = [row EXCEPT ![a].status = "completed_success"]
    /\ Bump(row[a].provider, row[a].month, "completedSuccess")
    /\ UNCHANGED <<today, call>>

(* A failure with a kind is counted under it (the kinds are not told       *)
(* apart); without a kind only the row changes.                            *)
CompleteFailure(a) ==
    /\ row[a].status \in {"allocated", "confirmed"}
    /\ \/ /\ row' = [row EXCEPT ![a] = [@ EXCEPT !.status = "completed_failure", !.counted = TRUE]]
          /\ Bump(row[a].provider, row[a].month, "failure")
       \/ /\ row' = [row EXCEPT ![a].status = "completed_failure"]
          /\ UNCHANGED <<global, breakdown>>
    /\ UNCHANGED <<today, call>>

Midnight == /\ today < LastDay
            /\ today' = today + 1
            /\ UNCHANGED <<call, row, global, breakdown>>

Next == \/ \E a \in Attempt :
              \/ \E p \in Provider, mode \in Mode : CallReserve(a, p, mode)
              \/ ReserveGrant(a)
              \/ ReserveNoCharge(a)
              \/ Confirm(a)
              \/ CompleteSuccess(a)
              \/ CompleteFailure(a)
        \/ Midnight

Spec == Init /\ [][Next]_vars

-----------------------------------------------------------------------------
(* The usage snapshot of a month and a day.  Every answer of reserve       *)
(* carries one, read under the lock of the month's row.                    *)

(* Faulty variant: a failure stays unresolved. *)
UnresolvedOrFailed(m) ==
    {a \in Attempt : row[a].month = m /\ row[a].status \in {"allocated", "confirmed", "completed_failure"}}

Unresolved(m) ==
    {a \in Attempt : row[a].month = m /\ row[a].status \in {"allocated", "confirmed"}}

DailyRemaining(m, d) ==
    IF DailyUsed(m, d) < DailyCap(m, d) THEN DailyCap(m, d) - DailyUsed(m, d) ELSE 0

(* The reasons are set one after the other, the last one stays.            *)
BlockReason(m, d) ==
    IF global[m]["allocated"] >= Budget THEN "absolute_budget_cap_reached"
    ELSE IF global[m]["allocated"] >= RoutineCap THEN "monthly_routine_cap_reached"
    ELSE IF DailyRemaining(m, d) <= 0 THEN "daily_routine_cap_reached"
    ELSE "none"

Snapshot(m, d) ==
    [allocated           |-> global[m]["allocated"],
     completedSuccess    |-> global[m]["completedSuccess"],
     failures            |-> global[m]["failure"],
     unresolved          |-> Cardinality(Unresolved(m)),
     availableForRoutine |-> AvailableForRoutine(m),
     isRoutineBlocked    |-> global[m]["allocated"] >= RoutineCap \/ DailyRemaining(m, d) <= 0,
     isAbsoluteBlocked   |-> global[m]["allocated"] >= Budget,
     dailyBlockReason    |-> BlockReason(m, d)]

CanMakeManualRequest(s, override) ==
    /\ ~s.isAbsoluteBlocked
    /\ s.availableForRoutine <= 0 => override

(* What the scheduler's status makes of the snapshot: the envelope of the  *)
(* day, its shares (percent) for the tiers, the usage at the month's end.  *)
DailyEnvelope(m, d) == AvailableForRoutine(m) \div RemainingDays(d)

Share(envelope, percent) == (envelope * percent) \div 100

TierTotal(envelope) ==
    Share(envelope, 50) + Share(envelope, 30) + Share(envelope, 15)
        + Share(envelope, 3) + Share(envelope, 2)

ProjectedMonthEnd(m, d) == global[m]["allocated"] + DailyEnvelope(m, d) * RemainingDays(d)

(* What the administrators' import status makes of it: the same report of  *)
(* the counters of the month and of each provider's, and what routine      *)
(* requests have left.  (The lease and the last job that it shows beside   *)
(* are those of ProviderLease and ImportJob.)                              *)
Report(c) ==
    [allocated |-> c["allocated"], confirmed |-> c["confirmed"],
     completed |-> c["completedSuccess"] + c["failure"],
     succeeded |-> c["completedSuccess"], failed |-> c["failure"]]

ImportStatus(m) ==
    [budget |-> Report(global[m]),
     providers |-> [p \in Provider |-> Report(breakdown[p][m])],
     routineRemaining |-> IF Budget - Reserve - global[m]["allocated"] > 0
                          THEN Budget - Reserve - global[m]["allocated"] ELSE 0]

-----------------------------------------------------------------------------
(* The reservations a counter stands for. *)
Counts(a, c) ==
    \/ c = "allocated" /\ Reserved(a)
    \/ c = "confirmed" /\ row[a].confirmedAt
    \/ c = "completedSuccess" /\ row[a].status = "completed_success"
    \/ c = "failure" /\ row[a].counted

InMonth(m, c) == {a \in Attempt : row[a].month = m /\ Counts(a, c)}
InShare(p, m, c) == {a \in InMonth(m, c) : row[a].provider = p}

(* No counter loses or double-counts an attempt: with calls repeated, late *)
(* or out of order and months turning in between, every counter equals the *)
(* number of reservation rows it stands for, for the month and for each    *)
(* provider's share (pg-concurrency.spec.ts, cases 10 and 11).             *)
CountersMatchRows ==
    \A m \in Month, c \in Counter :
        /\ global[m][c] = Cardinality(InMonth(m, c))
        /\ \A p \in Provider : breakdown[p][m][c] = Cardinality(InShare(p, m, c))

(* The two providers together never charge a month beyond its budget, and  *)
(* routine attempts never reach into the reserve (cases 7 to 9), even when *)
(* a manual attempt has used the reserve or a call was delayed.            *)
RoutineRows(m) == {a \in InMonth(m, "allocated") : row[a].mode = "routine"}

CapsHold ==
    \A m \in Month :
        /\ global[m]["allocated"] <= Budget
        /\ Cardinality(RoutineRows(m)) <= RoutineCap

(* Pacing: a routine attempt is granted only if it leaves every remaining  *)
(* day of the month as many routine requests as today has had by then.     *)
PacedForRemainingDays ==
    [][ \A a \in Attempt, d \in Day :
          (/\ ~Reserved(a) /\ Reserved(a)'
           /\ call[a].mode = "routine" /\ call[a].day = d)
             => (RemainingDays(d) - 1) * DailyUsed(MonthOf(d), d)'
                  <= AvailableForRoutine(MonthOf(d))' ]_vars

(* A report counts no outcome of a request that was not charged, and the   *)
(* providers' reports do not add up to more than the month's.              *)
ReportsAddUp(status) ==
    /\ status.budget.completed <= status.budget.allocated
    /\ \A p \in Provider : status.providers[p].completed <= status.providers[p].allocated
    /\ \A p, q \in Provider, f \in {"allocated", "confirmed", "completed", "succeeded", "failed"} :
          p # q => status.providers[p][f] + status.providers[q][f] <= status.budget[f]

(* What a refused or granted reservation, the dashboard and the scheduler  *)
(* report agrees with what the ledger does.  The snapshot says "blocked",  *)
(* with a reason, exactly when a routine reservation would be refused, and *)
(* lets an administrator override exactly what reserve grants a manual     *)
(* one.  No attempt is both unresolved and counted with an outcome.  The   *)
(* month is never projected beyond its budget, and the shares of the tiers *)
(* fit into the day ("Total never exceeds the daily envelope",             *)
(* freshness-scheduler.service.ts:365).  The import status leaves routine  *)
(* requests what the ledger does, and its reports add up.                  *)
SnapshotAgrees ==
    LET m == MonthOf(today)
        s == Snapshot(m, today)
        status == ImportStatus(m)
    IN  /\ s.isRoutineBlocked <=> ~WithinCaps(m, today, "routine")
        /\ s.isRoutineBlocked <=> s.dailyBlockReason # "none"
        /\ CanMakeManualRequest(s, TRUE) <=> WithinCaps(m, today, "manual")
        /\ s.unresolved + s.completedSuccess + s.failures <= s.allocated
        /\ ProjectedMonthEnd(m, today) <= Budget
        /\ TierTotal(DailyEnvelope(m, today)) <= DailyEnvelope(m, today)
        /\ status.routineRemaining = s.availableForRoutine
        /\ ReportsAddUp(status)
=============================================================================
