------------------------- MODULE RequestPacingProofs -------------------------
(* Theorems about RequestBudget for every budget, reserve, month length,   *)
(* set of providers and finite set of attempts, and about                  *)
(* FreshnessScheduler for every finite set of ticks, list of partitions,   *)
(* envelope and number of slots in a day.                                  *)
EXTENDS RequestBudget, FreshnessScheduler, FiniteSetTheorems, TLAPS

(* What a row that has not reached a stage cannot claim. *)
RowsConsistent ==
    \A a \in Attempt :
        /\ row[a].status \in {"none", "allocated"} => ~row[a].confirmedAt
        /\ row[a].status \in {"none", "allocated", "confirmed", "completed_success"} => ~row[a].counted

(* Proof strengthening: types, consistent rows and exact counters. *)
LedgerInv == TypeOK /\ RowsConsistent /\ CountersMatchRows

LEMMA MonthOfDay == \A d \in Day : MonthOf(d) \in Month
<1> SUFFICES ASSUME NEW d \in Day PROVE MonthOf(d) \in Month
  OBVIOUS
<1>1. d \in Nat /\ d <= LastDay /\ LastDay \in Nat /\ DaysPerMonth \in Nat /\ DaysPerMonth > 0
  BY BudgetAssumption DEF Day
<1>2. d \div DaysPerMonth \in Nat /\ d \div DaysPerMonth <= d
  BY <1>1, Z3
<1> QED
  BY <1>1, <1>2 DEF MonthOf, Month

LEMMA AnyProviderIsProvider == AnyProvider \in Provider
  BY BudgetAssumption DEF AnyProvider

(* Every value the ledger's variables take is of its type. *)
LEMMA TypeInit == Init => TypeOK
  BY BudgetAssumption, AnyProviderIsProvider
     DEF Init, TypeOK, NoCall, NoRow, Call, Row, Day, Month, Status, Mode, Counter

LEMMA BumpTypes ==
  ASSUME TypeOK, NEW p \in Provider, NEW m \in Month, NEW c \in Counter, Bump(p, m, c)
  PROVE  /\ global' \in [Month -> [Counter -> Nat]]
         /\ breakdown' \in [Provider -> [Month -> [Counter -> Nat]]]
  BY DEF TypeOK, Bump

LEMMA TypeStep == TypeOK /\ [Next]_vars => TypeOK'
<1> SUFFICES ASSUME TypeOK, [Next]_vars PROVE TypeOK'
  OBVIOUS
<1> USE DEF TypeOK
<1>1. ASSUME NEW a \in Attempt, NEW p \in Provider, NEW mode \in Mode, CallReserve(a, p, mode)
      PROVE  TypeOK'
  BY <1>1 DEF CallReserve, Call
<1>2. NoCall \in Call
  BY AnyProviderIsProvider, BudgetAssumption DEF NoCall, Call, Day, Mode
<1>3. ASSUME NEW a \in Attempt, ReserveGrant(a)
      PROVE  TypeOK'
  <2> DEFINE m == MonthOf(call[a].day)
  <2>1. /\ call[a] \in Call /\ call[a].provider \in Provider
        /\ call[a].mode \in Mode /\ call[a].day \in Day
    BY DEF Call
  <2>2. m \in Month
    BY <2>1, MonthOfDay
  <2>3. Bump(call[a].provider, m, "allocated")
    BY <1>3 DEF ReserveGrant
  <2>4. /\ global' \in [Month -> [Counter -> Nat]]
        /\ breakdown' \in [Provider -> [Month -> [Counter -> Nat]]]
    BY <2>1, <2>2, <2>3, BumpTypes DEF Counter
  <2>5. row' \in [Attempt -> Row]
    <3>1. PICK d \in call[a].day .. today :
             row' = [row EXCEPT ![a] =
                        [status |-> "allocated", month |-> m, day |-> d,
                         provider |-> call[a].provider, mode |-> call[a].mode,
                         confirmedAt |-> FALSE, counted |-> FALSE]]
      BY <1>3 DEF ReserveGrant
    <3>2. d \in Day
      BY <2>1, BudgetAssumption DEF Day
    <3> QED BY <3>1, <3>2, <2>1, <2>2 DEF Row, Status
  <2>6. call' \in [Attempt -> Call] /\ today' \in Day
    BY <1>2, <1>3 DEF ReserveGrant, Answered
  <2> QED BY <2>4, <2>5, <2>6
<1>4. ASSUME NEW a \in Attempt, ReserveNoCharge(a)
      PROVE  TypeOK'
  BY <1>2, <1>4 DEF ReserveNoCharge, Answered
<1>5. ASSUME NEW a \in Attempt, Confirm(a)
      PROVE  TypeOK'
  <2>1. row[a].provider \in Provider /\ row[a].month \in Month
    BY DEF Row
  <2>2. /\ global' \in [Month -> [Counter -> Nat]]
        /\ breakdown' \in [Provider -> [Month -> [Counter -> Nat]]]
    BY <1>5, <2>1, BumpTypes DEF Confirm, Counter
  <2> QED BY ZenonT(40), <1>5, <2>2 DEF Confirm, Row, Status
<1>6. ASSUME NEW a \in Attempt, CompleteSuccess(a)
      PROVE  TypeOK'
  <2>1. row[a].provider \in Provider /\ row[a].month \in Month
    BY DEF Row
  <2>2. /\ global' \in [Month -> [Counter -> Nat]]
        /\ breakdown' \in [Provider -> [Month -> [Counter -> Nat]]]
    BY <1>6, <2>1, BumpTypes DEF CompleteSuccess, Counter
  <2> QED BY ZenonT(40), <1>6, <2>2 DEF CompleteSuccess, Row, Status
<1>7. ASSUME NEW a \in Attempt, CompleteFailure(a)
      PROVE  TypeOK'
  <2>1. row[a].provider \in Provider /\ row[a].month \in Month
    BY DEF Row
  <2>2. UNCHANGED <<today, call>>
    BY <1>7 DEF CompleteFailure
  <2>3. CASE /\ row' = [row EXCEPT ![a] = [@ EXCEPT !.status = "completed_failure", !.counted = TRUE]]
             /\ Bump(row[a].provider, row[a].month, "failure")
    <3>1. row' \in [Attempt -> Row]
      BY ZenonT(40), <2>3 DEF Row, Status
    <3>2. /\ global' \in [Month -> [Counter -> Nat]]
          /\ breakdown' \in [Provider -> [Month -> [Counter -> Nat]]]
      BY <2>3, <2>1, BumpTypes DEF Counter
    <3> QED BY <2>2, <3>1, <3>2
  <2>4. CASE /\ row' = [row EXCEPT ![a].status = "completed_failure"]
             /\ UNCHANGED <<global, breakdown>>
    <3>1. row' \in [Attempt -> Row]
      BY ZenonT(40), <2>4 DEF Row, Status
    <3> QED BY <2>2, <2>4, <3>1
  <2> QED BY <1>7, <2>3, <2>4 DEF CompleteFailure
<1>8. CASE Midnight
  BY <1>8, BudgetAssumption DEF Midnight, Day
<1>9. CASE UNCHANGED vars
  BY <1>9 DEF vars
<1> QED
  BY <1>1, <1>3, <1>4, <1>5, <1>6, <1>7, <1>8, <1>9 DEF Next

(* The sets the counters stand for are finite. *)
LEMMA CountedAreFinite ==
  ASSUME NEW m, NEW c
  PROVE  IsFiniteSet(InMonth(m, c)) /\ \A p : IsFiniteSet(InShare(p, m, c))
<1>1. InMonth(m, c) \subseteq Attempt
  BY DEF InMonth
<1>2. IsFiniteSet(InMonth(m, c))
  BY <1>1, BudgetAssumption, FS_Subset
<1>3. \A p : InShare(p, m, c) \subseteq InMonth(m, c)
  BY DEF InShare
<1> QED
  BY <1>2, <1>3, FS_Subset

(* A counter is bumped, and one attempt begins to count under it: every    *)
(* counter still equals the number of rows it stands for.                  *)
LEMMA BumpCountsOne ==
  ASSUME TypeOK, CountersMatchRows, NEW a \in Attempt,
         NEW p \in Provider, NEW m \in Month, NEW c0 \in Counter, Bump(p, m, c0),
         \A b \in Attempt : b # a => row'[b] = row[b],
         row'[a].month = m, row'[a].provider = p,
         \A c \in Counter : Counts(a, c) => row[a].month = m /\ row[a].provider = p,
         \A c \in Counter : Counts(a, c)' <=> (Counts(a, c) \/ c = c0),
         ~Counts(a, c0)
  PROVE  CountersMatchRows'
<1>0. \A b \in Attempt, c \in Counter : b # a => (Counts(b, c)' <=> Counts(b, c))
  BY DEF Counts, Reserved
<1> SUFFICES ASSUME NEW n \in Month, NEW c \in Counter
             PROVE  /\ global'[n][c] = Cardinality(InMonth(n, c)')
                    /\ \A q \in Provider : breakdown'[q][n][c] = Cardinality(InShare(q, n, c)')
  BY DEF CountersMatchRows
<1>1. /\ IsFiniteSet(InMonth(n, c)) /\ \A q : IsFiniteSet(InShare(q, n, c))
      /\ global[n][c] = Cardinality(InMonth(n, c))
      /\ \A q \in Provider : breakdown[q][n][c] = Cardinality(InShare(q, n, c))
  BY CountedAreFinite DEF CountersMatchRows
<1>2. CASE n = m /\ c = c0
  <2>1. InMonth(n, c)' = InMonth(n, c) \cup {a} /\ a \notin InMonth(n, c)
    BY <1>0, <1>2 DEF InMonth
  <2>2. global'[n][c] = global[n][c] + 1 /\ breakdown'[p][n][c] = breakdown[p][n][c] + 1
    BY <1>2 DEF Bump, TypeOK
  <2>3. global'[n][c] = Cardinality(InMonth(n, c)')
    BY <1>1, <2>1, <2>2, FS_AddElement
  <2>4. ASSUME NEW q \in Provider
        PROVE  breakdown'[q][n][c] = Cardinality(InShare(q, n, c)')
    <3>1. CASE q = p
      <4>1. InShare(q, n, c)' = InShare(q, n, c) \cup {a} /\ a \notin InShare(q, n, c)
        BY <2>1, <3>1 DEF InShare, InMonth
      <4> QED BY ZenonT(40), <1>1, <2>2, <3>1, <4>1, FS_AddElement
    <3>2. CASE q # p
      <4>1. InShare(q, n, c)' = InShare(q, n, c)
        BY <2>1, <3>2 DEF InShare, InMonth
      <4>2. breakdown'[q][n][c] = breakdown[q][n][c]
        BY <3>2 DEF Bump, TypeOK
      <4> QED BY <1>1, <4>1, <4>2
    <3> QED BY <3>1, <3>2
  <2> QED BY <2>3, <2>4
<1>3. CASE ~(n = m /\ c = c0)
  <2>1. InMonth(n, c)' = InMonth(n, c)
    BY <1>0, <1>3 DEF InMonth
  <2>2. \A q \in Provider : InShare(q, n, c)' = InShare(q, n, c)
    BY <2>1 DEF InShare, InMonth
  <2>3. global'[n][c] = global[n][c]
        /\ \A q \in Provider : breakdown'[q][n][c] = breakdown[q][n][c]
    BY <1>3 DEF Bump, TypeOK
  <2> QED BY <1>1, <2>1, <2>2, <2>3
<1> QED
  BY <1>2, <1>3

(* Nothing counted changes: neither do the counters' sets. *)
LEMMA SameRowsSameCounts ==
  ASSUME CountersMatchRows, UNCHANGED <<global, breakdown>>,
         \A a \in Attempt : row'[a].month = row[a].month /\ row'[a].provider = row[a].provider,
         \A a \in Attempt, c \in Counter : Counts(a, c)' <=> Counts(a, c)
  PROVE  CountersMatchRows'
<1>1. \A m \in Month, c \in Counter : InMonth(m, c)' = InMonth(m, c)
  BY DEF InMonth
<1>2. \A p \in Provider, m \in Month, c \in Counter : InShare(p, m, c)' = InShare(p, m, c)
  BY <1>1 DEF InShare, InMonth
<1> QED
  BY <1>1, <1>2 DEF CountersMatchRows

LEMMA LedgerInit == Init => LedgerInv
<1> SUFFICES ASSUME Init PROVE LedgerInv
  OBVIOUS
<1>1. \A m \in Month, c \in Counter :
         InMonth(m, c) = {} /\ \A p : InShare(p, m, c) = {}
  BY DEF Init, NoRow, InMonth, InShare, Counts, Reserved
<1>2. CountersMatchRows
  BY <1>1, FS_EmptySet DEF Init, CountersMatchRows
<1>3. RowsConsistent
  BY DEF Init, NoRow, RowsConsistent
<1> QED
  BY <1>2, <1>3, TypeInit DEF LedgerInv

LEMMA LedgerStep == LedgerInv /\ [Next]_vars => LedgerInv'
<1> SUFFICES ASSUME LedgerInv, [Next]_vars PROVE RowsConsistent' /\ CountersMatchRows'
  BY TypeStep DEF LedgerInv
<1> USE DEF LedgerInv
<1>0. \A a \in Attempt : row[a] \in Row /\ row[a].provider \in Provider /\ row[a].month \in Month
  BY DEF TypeOK, Row
<1>1. ASSUME NEW a \in Attempt, ReserveGrant(a)
      PROVE  RowsConsistent' /\ CountersMatchRows'
  <2> DEFINE m == MonthOf(call[a].day)
             p == call[a].provider
  <2>1. p \in Provider /\ m \in Month
    BY MonthOfDay DEF TypeOK, Call
  <2>2. PICK d \in call[a].day .. today :
           row' = [row EXCEPT ![a] =
                      [status |-> "allocated", month |-> m, day |-> d,
                       provider |-> p, mode |-> call[a].mode,
                       confirmedAt |-> FALSE, counted |-> FALSE]]
    BY <1>1 DEF ReserveGrant
  <2>3. /\ row[a].status = "none"
        /\ Bump(p, m, "allocated")
    BY <1>1 DEF ReserveGrant, Reserved
  <2>4. /\ \A b \in Attempt : b # a => row'[b] = row[b]
        /\ row'[a].status = "allocated" /\ row'[a].month = m /\ row'[a].provider = p
        /\ ~row'[a].confirmedAt /\ ~row'[a].counted
    BY <2>2 DEF TypeOK
  <2>5. RowsConsistent'
    BY <2>4 DEF RowsConsistent
  <2>6. \A c \in Counter : ~Counts(a, c)
    BY <2>3 DEF Counts, Reserved, RowsConsistent
  <2>7. \A c \in Counter : Counts(a, c)' <=> c = "allocated"
    BY <2>4 DEF Counts, Reserved
  <2>8. "allocated" \in Counter
    BY DEF Counter
  <2>9. CountersMatchRows'
    BY <2>1, <2>3, <2>4, <2>6, <2>7, <2>8, BumpCountsOne
  <2> QED BY <2>5, <2>9
<1>2. ASSUME NEW a \in Attempt, Confirm(a)
      PROVE  RowsConsistent' /\ CountersMatchRows'
  <2>1. /\ row[a].status = "allocated" /\ ~row[a].confirmedAt /\ ~row[a].counted
        /\ Bump(row[a].provider, row[a].month, "confirmed")
    BY <1>2 DEF Confirm, RowsConsistent
  <2>2. /\ \A b \in Attempt : b # a => row'[b] = row[b]
        /\ row'[a].month = row[a].month /\ row'[a].provider = row[a].provider
        /\ row'[a].status = "confirmed" /\ row'[a].confirmedAt /\ ~row'[a].counted
    BY <1>0, <1>2, <2>1 DEF Confirm, TypeOK, Row
  <2>3. RowsConsistent'
    BY <2>2 DEF RowsConsistent
  <2>4. ~Counts(a, "confirmed") /\ "confirmed" \in Counter
    BY <2>1 DEF Counts, Reserved, Counter
  <2>5. \A c \in Counter : Counts(a, c)' <=> (Counts(a, c) \/ c = "confirmed")
    BY <2>1, <2>2 DEF Counts, Reserved
  <2>6. CountersMatchRows'
    BY <1>0, <2>1, <2>2, <2>4, <2>5, BumpCountsOne
  <2> QED BY <2>3, <2>6
<1>3. ASSUME NEW a \in Attempt, CompleteSuccess(a)
      PROVE  RowsConsistent' /\ CountersMatchRows'
  <2>1. /\ row[a].status = "confirmed" /\ ~row[a].counted
        /\ Bump(row[a].provider, row[a].month, "completedSuccess")
    BY <1>3 DEF CompleteSuccess, RowsConsistent
  <2>2. /\ \A b \in Attempt : b # a => row'[b] = row[b]
        /\ row'[a].month = row[a].month /\ row'[a].provider = row[a].provider
        /\ row'[a].status = "completed_success" /\ ~row'[a].counted
        /\ row'[a].confirmedAt = row[a].confirmedAt
    BY <1>0, <1>3, <2>1 DEF CompleteSuccess, TypeOK, Row
  <2>3. RowsConsistent'
    BY <2>2 DEF RowsConsistent
  <2>4. ~Counts(a, "completedSuccess") /\ "completedSuccess" \in Counter
    BY <2>1 DEF Counts, Reserved, Counter
  <2>5. \A c \in Counter : Counts(a, c)' <=> (Counts(a, c) \/ c = "completedSuccess")
    BY <2>1, <2>2 DEF Counts, Reserved
  <2>6. CountersMatchRows'
    BY <1>0, <2>1, <2>2, <2>4, <2>5, BumpCountsOne
  <2> QED BY <2>3, <2>6
<1>4. ASSUME NEW a \in Attempt, CompleteFailure(a)
      PROVE  RowsConsistent' /\ CountersMatchRows'
  <2>1. /\ row[a].status \in {"allocated", "confirmed"} /\ ~row[a].counted
    BY <1>4 DEF CompleteFailure, RowsConsistent
  <2>2. CASE /\ row' = [row EXCEPT ![a] = [@ EXCEPT !.status = "completed_failure", !.counted = TRUE]]
             /\ Bump(row[a].provider, row[a].month, "failure")
    <3>1. /\ \A b \in Attempt : b # a => row'[b] = row[b]
          /\ row'[a].month = row[a].month /\ row'[a].provider = row[a].provider
          /\ row'[a].status = "completed_failure" /\ row'[a].counted
          /\ row'[a].confirmedAt = row[a].confirmedAt
      BY <1>0, <2>2 DEF TypeOK, Row
    <3>2. RowsConsistent'
      BY <3>1 DEF RowsConsistent
    <3>3. ~Counts(a, "failure") /\ "failure" \in Counter
      BY <2>1 DEF Counts, Reserved, Counter
    <3>4. \A c \in Counter : Counts(a, c)' <=> (Counts(a, c) \/ c = "failure")
      BY <2>1, <3>1 DEF Counts, Reserved
    <3>5. CountersMatchRows'
      BY <1>0, <2>2, <3>1, <3>3, <3>4, BumpCountsOne
    <3> QED BY <3>2, <3>5
  <2>3. CASE /\ row' = [row EXCEPT ![a].status = "completed_failure"]
             /\ UNCHANGED <<global, breakdown>>
    <3>1. /\ \A b \in Attempt : b # a => row'[b] = row[b]
          /\ row'[a].month = row[a].month /\ row'[a].provider = row[a].provider
          /\ row'[a].status = "completed_failure" /\ row'[a].counted = row[a].counted
          /\ row'[a].confirmedAt = row[a].confirmedAt
      BY <1>0, <2>3 DEF TypeOK, Row
    <3>2. RowsConsistent'
      BY <3>1 DEF RowsConsistent
    <3>3. \A b \in Attempt, c \in Counter : Counts(b, c)' <=> Counts(b, c)
      BY <2>1, <3>1 DEF Counts, Reserved
    <3>4. CountersMatchRows'
      BY <2>3, <3>1, <3>3, SameRowsSameCounts
    <3> QED BY <3>2, <3>4
  <2> QED BY <1>4, <2>2, <2>3 DEF CompleteFailure
<1>5. CASE UNCHANGED <<row, global, breakdown>>
  <2>1. \A b \in Attempt, c \in Counter : Counts(b, c)' <=> Counts(b, c)
    BY <1>5 DEF Counts, Reserved
  <2> QED BY <1>5, <2>1, SameRowsSameCounts DEF RowsConsistent
<1> QED
  BY <1>1, <1>2, <1>3, <1>4, <1>5
     DEF Next, vars, CallReserve, ReserveNoCharge, Midnight

(* Every reachable ledger is well typed and its counters are exact. *)
THEOREM LedgerInvariant == Spec => []LedgerInv
<1> QED
  BY LedgerInit, LedgerStep, PTL DEF Spec

(* The types, for every finite set of attempts and every budget. *)
THEOREM LedgerTyped == Spec => []TypeOK
<1>1. LedgerInv => TypeOK
  BY DEF LedgerInv
<1> QED
  BY <1>1, LedgerInvariant, PTL

(* No counter of the month or of a provider's share ever loses or          *)
(* double-counts an attempt: reserve, confirm and complete move each with  *)
(* exactly the rows it stands for.                                         *)
THEOREM CountersAreExact == Spec => []CountersMatchRows
<1>1. LedgerInv => CountersMatchRows
  BY DEF LedgerInv
<1> QED
  BY <1>1, LedgerInvariant, PTL

-----------------------------------------------------------------------------
(* The caps.  A routine grant needs the month's total below the routine    *)
(* cap, and the routine rows are among those the total counts.             *)

LEMMA CapsInit == Init => CapsHold
<1> SUFFICES ASSUME Init, NEW m \in Month
             PROVE  /\ global[m]["allocated"] <= Budget
                    /\ Cardinality(RoutineRows(m)) <= RoutineCap
  BY DEF CapsHold
<1>1. RoutineRows(m) = {}
  BY DEF Init, NoRow, RoutineRows, InMonth, Counts, Reserved
<1>2. global[m]["allocated"] = 0
  BY DEF Init, Counter
<1>3. RoutineCap \in Nat /\ Budget \in Nat
  BY BudgetAssumption DEF RoutineCap
<1> QED
  BY <1>1, <1>2, <1>3, FS_EmptySet

LEMMA CapsStep == LedgerInv /\ CapsHold /\ [Next]_vars => CapsHold'
<1> SUFFICES ASSUME LedgerInv, CapsHold, [Next]_vars, NEW m \in Month
             PROVE  /\ global'[m]["allocated"] <= Budget
                    /\ Cardinality(RoutineRows(m)') <= RoutineCap
  BY DEF CapsHold
<1>0. /\ RoutineCap \in Nat /\ Budget \in Nat /\ RoutineCap <= Budget
      /\ global[m]["allocated"] <= Budget /\ Cardinality(RoutineRows(m)) <= RoutineCap
      /\ global[m]["allocated"] = Cardinality(InMonth(m, "allocated"))
      /\ global[m]["allocated"] \in Nat
      /\ "allocated" \in Counter
  BY BudgetAssumption DEF RoutineCap, CapsHold, LedgerInv, CountersMatchRows, TypeOK, Counter
<1>1. /\ IsFiniteSet(RoutineRows(m)) /\ Cardinality(RoutineRows(m)) \in Nat
      /\ Cardinality(RoutineRows(m)) <= global[m]["allocated"]
  <2>1. RoutineRows(m) \subseteq InMonth(m, "allocated") /\ IsFiniteSet(InMonth(m, "allocated"))
    BY CountedAreFinite DEF RoutineRows
  <2> QED BY <1>0, <2>1, FS_Subset, FS_CardinalityType
<1>2. ASSUME NEW a \in Attempt, ReserveGrant(a)
      PROVE  /\ global'[m]["allocated"] <= Budget
             /\ Cardinality(RoutineRows(m)') <= RoutineCap
  <2> DEFINE n == MonthOf(call[a].day)
  <2>1. call[a].mode \in Mode /\ call[a].provider \in Provider /\ n \in Month
    BY MonthOfDay DEF LedgerInv, TypeOK, Call
  <2>2. PICK d \in call[a].day .. today :
           row' = [row EXCEPT ![a] =
                      [status |-> "allocated", month |-> n, day |-> d,
                       provider |-> call[a].provider, mode |-> call[a].mode,
                       confirmedAt |-> FALSE, counted |-> FALSE]]
    BY <1>2 DEF ReserveGrant
  <2>3. /\ \A b \in Attempt : b # a => row'[b] = row[b]
        /\ row'[a].status = "allocated" /\ row'[a].month = n /\ row'[a].mode = call[a].mode
        /\ row[a].status = "none"
    BY <1>2, <2>2 DEF LedgerInv, TypeOK, ReserveGrant, Reserved
  <2>4. /\ global[n]["allocated"] < EffectiveCap(call[a].mode)
        /\ Bump(call[a].provider, n, "allocated")
    BY <1>2 DEF ReserveGrant, WithinCaps
  <2>5. CASE m # n
    <3>1. global'[m]["allocated"] = global[m]["allocated"]
      BY <2>4, <2>5 DEF Bump, LedgerInv, TypeOK
    <3>2. RoutineRows(m)' = RoutineRows(m)
      BY <2>3, <2>5 DEF RoutineRows, InMonth, Counts, Reserved
    <3> QED BY <1>0, <3>1, <3>2
  <2>6. CASE m = n
    <3>1. global'[m]["allocated"] = global[m]["allocated"] + 1
      BY <1>0, <2>4, <2>6 DEF Bump, LedgerInv, TypeOK
    <3>2. global'[m]["allocated"] <= Budget
      BY <1>0, <2>1, <2>4, <2>6, <3>1 DEF EffectiveCap
    <3>3. CASE call[a].mode = "routine"
      <4>1. RoutineRows(m)' = RoutineRows(m) \cup {a} /\ a \notin RoutineRows(m)
        BY <2>3, <2>6, <3>3 DEF RoutineRows, InMonth, Counts, Reserved
      <4>2. Cardinality(RoutineRows(m)') = Cardinality(RoutineRows(m)) + 1
        BY <1>1, <4>1, FS_AddElement
      <4>3. global[m]["allocated"] < RoutineCap
        BY <2>4, <2>6, <3>3 DEF EffectiveCap
      <4> QED BY <1>0, <1>1, <3>2, <4>2, <4>3
    <3>4. CASE call[a].mode # "routine"
      <4>1. RoutineRows(m)' = RoutineRows(m)
        BY <2>3, <2>6, <3>4 DEF RoutineRows, InMonth, Counts, Reserved
      <4> QED BY <1>0, <3>2, <4>1
    <3> QED BY <3>3, <3>4
  <2> QED BY <2>5, <2>6
<1>3. ASSUME NEW a \in Attempt, Confirm(a) \/ CompleteSuccess(a) \/ CompleteFailure(a)
      PROVE  /\ global'[m]["allocated"] <= Budget
             /\ Cardinality(RoutineRows(m)') <= RoutineCap
  <2>1. global'[m]["allocated"] = global[m]["allocated"]
    <3>1. ASSUME NEW c \in Counter \ {"allocated"}, NEW p, NEW n, Bump(p, n, c)
          PROVE  global'[m]["allocated"] = global[m]["allocated"]
      BY <1>0, <3>1 DEF Bump, LedgerInv, TypeOK
    <3>2. {"confirmed", "completedSuccess", "failure"} \subseteq Counter \ {"allocated"}
      BY DEF Counter
    <3>3. CASE UNCHANGED global
      BY <3>3
    <3> QED BY <1>3, <3>1, <3>2, <3>3 DEF Confirm, CompleteSuccess, CompleteFailure
  <2>2. \A b \in Attempt : /\ row'[b].month = row[b].month /\ row'[b].mode = row[b].mode
                           /\ row'[b].status # "none" <=> row[b].status # "none"
    <3>1. row \in [Attempt -> Row]
      BY DEF LedgerInv, TypeOK
    <3>2. CASE Confirm(a)
      BY <3>1, <3>2 DEF Confirm, Row
    <3>3. CASE CompleteSuccess(a)
      BY <3>1, <3>3 DEF CompleteSuccess, Row
    <3>4. CASE CompleteFailure(a)
      <4>1. CASE row' = [row EXCEPT ![a] = [@ EXCEPT !.status = "completed_failure", !.counted = TRUE]]
        BY <3>1, <3>4, <4>1 DEF CompleteFailure, Row
      <4>2. CASE row' = [row EXCEPT ![a].status = "completed_failure"]
        BY <3>1, <3>4, <4>2 DEF CompleteFailure, Row
      <4> QED BY <3>4, <4>1, <4>2 DEF CompleteFailure
    <3> QED BY <1>3, <3>2, <3>3, <3>4
  <2>3. RoutineRows(m)' = RoutineRows(m)
    BY <2>2 DEF RoutineRows, InMonth, Counts, Reserved
  <2> QED BY <1>0, <2>1, <2>3
<1>4. CASE UNCHANGED <<row, global>>
  <2>1. RoutineRows(m)' = RoutineRows(m)
    BY <1>4 DEF RoutineRows, InMonth, Counts, Reserved
  <2> QED BY <1>0, <1>4, <2>1
<1> QED
  BY <1>2, <1>3, <1>4 DEF Next, vars, CallReserve, ReserveNoCharge, Midnight

(* However reserve calls of all providers are delayed, repeated or         *)
(* interleaved, a month is never charged beyond its budget and routine     *)
(* requests never reach into the reserve.                                  *)
THEOREM CapsAreKept == Spec => []CapsHold
<1>1. Init => LedgerInv /\ CapsHold
  BY LedgerInit, CapsInit
<1>2. LedgerInv /\ CapsHold /\ [Next]_vars => LedgerInv' /\ CapsHold'
  BY LedgerStep, CapsStep
<1> QED
  BY <1>1, <1>2, PTL DEF Spec

-----------------------------------------------------------------------------
(* The pace.  u is what the day has used, A what the month has left for    *)
(* routine requests and r the days left.                                   *)

LEMMA PaceArithmetic ==
  ASSUME NEW u \in Nat, NEW A \in Nat, NEW r \in Nat \ {0}, u < (A + u) \div r
  PROVE  (r - 1) * (u + 1) <= A - 1
<1> DEFINE q == (A + u) \div r
<1>1. q \in Nat /\ r * q <= A + u
  BY Z3
<1>2. u + 1 <= q
  BY <1>1
<1>3. r * (u + 1) <= r * q
  <2> DEFINE k == q - (u + 1)
  <2>1. k \in Nat /\ q = (u + 1) + k
    <3> HIDE DEF q
    <3> QED BY <1>1, <1>2
  <2>2. \A x, y \in Nat : r * (x + y) = r * x + r * y /\ r * y \in Nat
    BY Z3
  <2> HIDE DEF q, k
  <2>3. r * q = r * (u + 1) + r * k /\ r * k \in Nat /\ r * (u + 1) \in Nat
    BY <2>1, <2>2
  <2> QED BY <2>3, Z3
<1>4. r * (u + 1) <= A + u
  <2> HIDE DEF q
  <2> QED BY <1>1, <1>3, Z3
<1>5. r * (u + 1) = (r - 1) * (u + 1) + u + 1
  BY Z3
<1> QED
  BY <1>4, <1>5, Z3

(* A grant of a routine attempt moves one unit from what the month has     *)
(* left to what the day has used.                                          *)
LEMMA RoutineGrantMovesOne ==
  ASSUME LedgerInv, NEW a \in Attempt, ReserveGrant(a), call[a].mode = "routine",
         NEW d \in Day, call[a].day = d, NEW m \in Month, m = MonthOf(d)
  PROVE  /\ DailyUsed(m, d) \in Nat /\ DailyUsed(m, d)' = DailyUsed(m, d) + 1
         /\ AvailableForRoutine(m) \in Nat
         /\ AvailableForRoutine(m)' = AvailableForRoutine(m) - 1
<1> DEFINE Used == {b \in Attempt : /\ Reserved(b)
                                    /\ row[b].month = m
                                    /\ row[b].mode = "routine"
                                    /\ row[b].day >= d}
<1>1. call[a].provider \in Provider
  BY DEF LedgerInv, TypeOK, Call
<1>2. PICK e \in d .. today :
         row' = [row EXCEPT ![a] =
                    [status |-> "allocated", month |-> m, day |-> e,
                     provider |-> call[a].provider, mode |-> call[a].mode,
                     confirmedAt |-> FALSE, counted |-> FALSE]]
  BY DEF ReserveGrant
<1>3. /\ \A b \in Attempt : b # a => row'[b] = row[b]
      /\ row'[a].status = "allocated" /\ row'[a].month = m
      /\ row'[a].mode = "routine" /\ row'[a].day >= d
      /\ row[a].status = "none"
  BY <1>2 DEF LedgerInv, TypeOK, ReserveGrant, Reserved, Day
<1>4. Used' = Used \cup {a} /\ a \notin Used
  BY <1>3 DEF Reserved
<1>5. IsFiniteSet(Used) /\ Cardinality(Used) \in Nat
  <2>1. Used \subseteq Attempt
    OBVIOUS
  <2> QED BY <2>1, BudgetAssumption, FS_Subset, FS_CardinalityType
<1>6. Cardinality(Used') = Cardinality(Used) + 1
  <2> HIDE DEF Used
  <2> QED BY <1>4, <1>5, FS_AddElement
<1>7. DailyUsed(m, d) = Cardinality(Used) /\ DailyUsed(m, d)' = Cardinality(Used')
  BY DEF DailyUsed
<1>8. /\ global[m]["allocated"] \in Nat
      /\ global[m]["allocated"] < RoutineCap
      /\ global'[m]["allocated"] = global[m]["allocated"] + 1
  BY DEF ReserveGrant, WithinCaps, EffectiveCap, Bump, LedgerInv, TypeOK, Counter
<1>9. RoutineCap \in Nat
  BY BudgetAssumption DEF RoutineCap
<1>10. /\ AvailableForRoutine(m) \in Nat
       /\ AvailableForRoutine(m)' = AvailableForRoutine(m) - 1
  BY <1>8, <1>9 DEF AvailableForRoutine
<1> QED
  BY <1>5, <1>6, <1>7, <1>10

(* A routine request is granted only if every remaining day of the month   *)
(* can still have as many, for every budget and length of the month.       *)
THEOREM BudgetIsPaced == Spec => PacedForRemainingDays
<1>1. LedgerInv /\ [Next]_vars =>
        [ \A a \in Attempt, d \in Day :
          (/\ ~Reserved(a) /\ Reserved(a)'
           /\ call[a].mode = "routine" /\ call[a].day = d)
             => (RemainingDays(d) - 1) * DailyUsed(MonthOf(d), d)'
                  <= AvailableForRoutine(MonthOf(d))' ]_vars
  <2> SUFFICES ASSUME LedgerInv, Next, NEW a \in Attempt, NEW d \in Day,
                      ~Reserved(a), Reserved(a)',
                      call[a].mode = "routine", call[a].day = d
               PROVE  (RemainingDays(d) - 1) * DailyUsed(MonthOf(d), d)'
                         <= AvailableForRoutine(MonthOf(d))'
    OBVIOUS
  <2>1. ReserveGrant(a)
    <3>1. ASSUME NEW b \in Attempt, Confirm(b) \/ CompleteSuccess(b) \/ CompleteFailure(b)
          PROVE  ~Reserved(a)'
      <4>1. row \in [Attempt -> Row] /\ row[a].status = "none" /\ a # b
        BY <3>1 DEF LedgerInv, TypeOK, Reserved, Confirm, CompleteSuccess, CompleteFailure
      <4> QED BY <3>1, <4>1 DEF Reserved, Confirm, CompleteSuccess, CompleteFailure
    <3>2. ASSUME NEW b \in Attempt, b # a, ReserveGrant(b)
          PROVE  ~Reserved(a)'
      BY <3>2 DEF ReserveGrant, Reserved, LedgerInv, TypeOK
    <3>3. CASE UNCHANGED row
      BY <3>3 DEF Reserved
    <3> QED BY <3>1, <3>2, <3>3 DEF Next, CallReserve, ReserveNoCharge, Midnight
  <2> DEFINE m == MonthOf(d)
             u == DailyUsed(m, d)
             A == AvailableForRoutine(m)
             r == RemainingDays(d)
  <2>2. m \in Month
    BY MonthOfDay
  <2>3. /\ u \in Nat /\ DailyUsed(m, d)' = u + 1
        /\ A \in Nat /\ AvailableForRoutine(m)' = A - 1
    BY <2>1, <2>2, RoutineGrantMovesOne
  <2>4. r \in Nat \ {0}
    <3>1. d \in Nat /\ DaysPerMonth \in Nat /\ DaysPerMonth > 0
      BY BudgetAssumption DEF Day
    <3>2. d % DaysPerMonth \in 0 .. (DaysPerMonth - 1)
      BY <3>1
    <3> QED BY <3>1, <3>2 DEF RemainingDays
  <2>5. u < (A + u) \div r
    BY <2>1 DEF ReserveGrant, WithinCaps, DailyCap
  <2>6. (r - 1) * (u + 1) <= A - 1
    <3> HIDE DEF u, A, r
    <3> QED BY <2>3, <2>4, <2>5, PaceArithmetic
  <2> QED BY <2>3, <2>6
<1> QED
  BY <1>1, LedgerInvariant, PTL DEF Spec, PacedForRemainingDays

-----------------------------------------------------------------------------
(* The snapshot. *)

LEMMA ApartAdd ==
  ASSUME NEW S, NEW T, IsFiniteSet(S), IsFiniteSet(T), S \cap T = {}
  PROVE  /\ IsFiniteSet(S \cup T)
         /\ Cardinality(S) \in Nat /\ Cardinality(T) \in Nat
         /\ Cardinality(S \cup T) = Cardinality(S) + Cardinality(T)
<1>1. /\ IsFiniteSet(S \cup T)
      /\ Cardinality(S \cup T) = Cardinality(S) + Cardinality(T) - Cardinality(S \cap T)
  BY FS_Union
<1>2. Cardinality(S \cap T) = 0
  BY FS_EmptySet
<1>3. Cardinality(S) \in Nat /\ Cardinality(T) \in Nat
  BY FS_CardinalityType
<1> QED BY <1>1, <1>2, <1>3

(* An attempt without an outcome, one that succeeded and one that failed   *)
(* are three attempts of those the month was charged.                      *)
LEMMA OutcomesAreApart ==
  ASSUME LedgerInv, NEW m \in Month
  PROVE  Cardinality(Unresolved(m)) + global[m]["completedSuccess"] + global[m]["failure"]
            <= global[m]["allocated"]
<1> DEFINE U == Unresolved(m)
           S == InMonth(m, "completedSuccess")
           F == InMonth(m, "failure")
           A == InMonth(m, "allocated")
<1>1. /\ U \cup S \subseteq A /\ F \subseteq A
      /\ U \cap S = {} /\ (U \cup S) \cap F = {}
  <2>1. ASSUME NEW a \in Attempt
        PROVE  /\ Counts(a, "completedSuccess") <=> row[a].status = "completed_success"
               /\ Counts(a, "failure") <=> row[a].counted
               /\ Counts(a, "allocated") <=> row[a].status # "none"
               /\ row[a].counted => row[a].status \in {"completed_success", "completed_failure"}
               /\ row[a].status = "completed_success" => ~row[a].counted
    <3>1. /\ Counts(a, "completedSuccess") <=> row[a].status = "completed_success"
          /\ Counts(a, "failure") <=> row[a].counted
          /\ Counts(a, "allocated") <=> row[a].status # "none"
      BY Zenon DEF Counts, Reserved
    <3>2. /\ row[a].counted => row[a].status \in {"completed_success", "completed_failure"}
          /\ row[a].status = "completed_success" => ~row[a].counted
      BY <2>1 DEF LedgerInv, TypeOK, RowsConsistent, Row, Status
    <3> QED BY <3>1, <3>2, Zenon
  <2> QED BY <2>1 DEF Unresolved, InMonth
<1>2. IsFiniteSet(A) /\ IsFiniteSet(S) /\ IsFiniteSet(F) /\ IsFiniteSet(U)
  <2>1. U \subseteq Attempt
    BY DEF Unresolved
  <2> QED BY <2>1, BudgetAssumption, FS_Subset, CountedAreFinite
<1>3. /\ global[m]["completedSuccess"] = Cardinality(S) /\ global[m]["failure"] = Cardinality(F)
      /\ global[m]["allocated"] = Cardinality(A)
  BY DEF LedgerInv, CountersMatchRows, Counter
<1> HIDE DEF U, S, F, A
<1>4. /\ IsFiniteSet(U \cup S) /\ Cardinality(U \cup S) = Cardinality(U) + Cardinality(S)
      /\ Cardinality(U) \in Nat /\ Cardinality(S) \in Nat /\ Cardinality(F) \in Nat
      /\ Cardinality(A) \in Nat
  BY <1>1, <1>2, ApartAdd, FS_CardinalityType
<1>5. Cardinality((U \cup S) \cup F) = Cardinality(U \cup S) + Cardinality(F)
  BY <1>1, <1>2, <1>4, ApartAdd
<1>6. Cardinality((U \cup S) \cup F) <= Cardinality(A)
  BY <1>1, <1>2, FS_Subset
<1> QED
  BY <1>3, <1>4, <1>5, <1>6 DEF U

(* Two providers' shares of a counter are apart.                           *)
LEMMA SharesAreApart ==
  ASSUME LedgerInv, NEW m \in Month, NEW c \in Counter,
         NEW p \in Provider, NEW q \in Provider, p # q
  PROVE  /\ breakdown[p][m][c] \in Nat /\ breakdown[q][m][c] \in Nat /\ global[m][c] \in Nat
         /\ breakdown[p][m][c] + breakdown[q][m][c] <= global[m][c]
<1> DEFINE P == InShare(p, m, c)
           Q == InShare(q, m, c)
           A == InMonth(m, c)
<1>1. P \cup Q \subseteq A /\ P \cap Q = {}
  BY DEF InShare
<1>2. IsFiniteSet(A) /\ IsFiniteSet(P) /\ IsFiniteSet(Q)
  BY <1>1, FS_Subset, CountedAreFinite
<1>3. /\ breakdown[p][m][c] = Cardinality(P) /\ breakdown[q][m][c] = Cardinality(Q)
      /\ global[m][c] = Cardinality(A)
  BY DEF LedgerInv, CountersMatchRows
<1> HIDE DEF P, Q, A
<1>4. /\ IsFiniteSet(P \cup Q) /\ Cardinality(P \cup Q) = Cardinality(P) + Cardinality(Q)
      /\ Cardinality(P) \in Nat /\ Cardinality(Q) \in Nat /\ Cardinality(A) \in Nat
  BY <1>1, <1>2, ApartAdd, FS_CardinalityType
<1>5. Cardinality(P \cup Q) <= Cardinality(A)
  BY <1>1, <1>2, FS_Subset
<1> QED BY <1>3, <1>4, <1>5

(* The outcomes of a provider's attempts are of attempts it was charged.   *)
LEMMA SharesComplete ==
  ASSUME LedgerInv, NEW m \in Month, NEW p \in Provider
  PROVE  breakdown[p][m]["completedSuccess"] + breakdown[p][m]["failure"]
            <= breakdown[p][m]["allocated"]
<1> DEFINE S == InShare(p, m, "completedSuccess")
           F == InShare(p, m, "failure")
           A == InShare(p, m, "allocated")
<1>1. S \cup F \subseteq A /\ S \cap F = {}
  <2>1. ASSUME NEW a \in Attempt
        PROVE  /\ Counts(a, "completedSuccess") <=> row[a].status = "completed_success"
               /\ Counts(a, "failure") <=> row[a].counted
               /\ Counts(a, "allocated") <=> row[a].status # "none"
               /\ row[a].counted => row[a].status # "none"
               /\ row[a].status = "completed_success" => ~row[a].counted
    <3>1. /\ Counts(a, "completedSuccess") <=> row[a].status = "completed_success"
          /\ Counts(a, "failure") <=> row[a].counted
          /\ Counts(a, "allocated") <=> row[a].status # "none"
      BY Zenon DEF Counts, Reserved
    <3>2. /\ row[a].counted => row[a].status # "none"
          /\ row[a].status = "completed_success" => ~row[a].counted
      BY <2>1 DEF LedgerInv, TypeOK, RowsConsistent, Row, Status
    <3> QED BY <3>1, <3>2, Zenon
  <2> QED BY <2>1 DEF InShare, InMonth
<1>2. IsFiniteSet(A) /\ IsFiniteSet(S) /\ IsFiniteSet(F)
  <2>1. A \subseteq InMonth(m, "allocated")
    BY DEF InShare
  <2>2. IsFiniteSet(A)
    BY <2>1, FS_Subset, CountedAreFinite DEF Counter
  <2> QED BY <1>1, <2>2, FS_Subset
<1>3. /\ breakdown[p][m]["completedSuccess"] = Cardinality(S)
      /\ breakdown[p][m]["failure"] = Cardinality(F)
      /\ breakdown[p][m]["allocated"] = Cardinality(A)
  BY DEF LedgerInv, CountersMatchRows, Counter
<1> HIDE DEF S, F, A
<1>4. Cardinality(S \cup F) = Cardinality(S) + Cardinality(F)
  BY <1>1, <1>2, ApartAdd
<1>5. Cardinality(S \cup F) <= Cardinality(A)
  BY <1>1, <1>2, FS_Subset
<1> QED BY <1>3, <1>4, <1>5

(* The import status of a month adds up.                                   *)
LEMMA ReportsSum == ASSUME LedgerInv, NEW m \in Month PROVE ReportsAddUp(ImportStatus(m))
<1> DEFINE status == ImportStatus(m)
<1>1. status.budget.completed <= status.budget.allocated
  <2>1. Cardinality(Unresolved(m)) \in Nat
    <3>1. IsFiniteSet(Unresolved(m))
      BY BudgetAssumption, FS_Subset DEF Unresolved
    <3> QED BY <3>1, FS_CardinalityType
  <2>2. /\ global[m]["completedSuccess"] \in Nat /\ global[m]["failure"] \in Nat
        /\ global[m]["allocated"] \in Nat
    BY DEF LedgerInv, TypeOK, Counter
  <2> QED BY <2>1, <2>2, OutcomesAreApart DEF ImportStatus, Report
<1>2. ASSUME NEW p \in Provider
      PROVE  status.providers[p].completed <= status.providers[p].allocated
  BY <1>2, SharesComplete DEF ImportStatus, Report
<1>3. ASSUME NEW p \in Provider, NEW q \in Provider, p # q,
             NEW f \in {"allocated", "confirmed", "completed", "succeeded", "failed"}
      PROVE  status.providers[p][f] + status.providers[q][f] <= status.budget[f]
  <2>1. \A c \in Counter :
           /\ breakdown[p][m][c] \in Nat /\ breakdown[q][m][c] \in Nat /\ global[m][c] \in Nat
           /\ breakdown[p][m][c] + breakdown[q][m][c] <= global[m][c]
    BY <1>3, SharesAreApart
  <2>2. /\ status.budget = Report(global[m])
        /\ status.providers[p] = Report(breakdown[p][m])
        /\ status.providers[q] = Report(breakdown[q][m])
    BY DEF ImportStatus
  <2> HIDE DEF status
  <2>3. CASE f = "allocated"
    BY <2>1, <2>2, <2>3 DEF Report, Counter
  <2>4. CASE f = "confirmed"
    BY <2>1, <2>2, <2>4 DEF Report, Counter
  <2>5. CASE f = "completed"
    BY <2>1, <2>2, <2>5 DEF Report, Counter
  <2>6. CASE f = "succeeded"
    BY <2>1, <2>2, <2>6 DEF Report, Counter
  <2>7. CASE f = "failed"
    BY <2>1, <2>2, <2>7 DEF Report, Counter
  <2> QED BY <1>3, <2>3, <2>4, <2>5, <2>6, <2>7
<1> QED BY <1>1, <1>2, <1>3 DEF ReportsAddUp

(* A quotient times its divisor, and the five shares of a number.          *)
LEMMA QuotientFits ==
  ASSUME NEW A \in Nat, NEW r \in Nat \ {0}
  PROVE  (A \div r) \in Nat /\ (A \div r) * r <= A
  BY Z3

LEMMA SharesFit == ASSUME NEW e \in Nat PROVE TierTotal(e) <= e
  BY Z3 DEF TierTotal, Share

(* For every budget, reserve, month and set of attempts the snapshot and   *)
(* the scheduler's status report what the ledger will do, and the import   *)
(* status adds up.                                                         *)
THEOREM SnapshotIsSound == Spec => []SnapshotAgrees
<1>1. LedgerInv /\ CapsHold => SnapshotAgrees
  <2> SUFFICES ASSUME LedgerInv, CapsHold PROVE SnapshotAgrees
    OBVIOUS
  <2> DEFINE m == MonthOf(today)
             d == today
             s == Snapshot(m, d)
  <2>1. m \in Month /\ d \in Day
    BY MonthOfDay DEF LedgerInv, TypeOK
  <2>2. /\ global[m]["allocated"] \in Nat /\ global[m]["allocated"] <= Budget
        /\ Budget \in Nat /\ Reserve \in Nat /\ RoutineCap \in Nat /\ RoutineCap <= Budget
    BY <2>1, BudgetAssumption DEF LedgerInv, TypeOK, CapsHold, Counter, RoutineCap
  <2>3. RemainingDays(d) \in Nat \ {0}
    <3>1. d \in Nat /\ DaysPerMonth \in Nat /\ DaysPerMonth > 0
      BY <2>1, BudgetAssumption DEF Day
    <3>2. d % DaysPerMonth \in 0 .. (DaysPerMonth - 1)
      BY <3>1
    <3> QED BY <3>1, <3>2 DEF RemainingDays
  <2>4. AvailableForRoutine(m) \in Nat /\ global[m]["allocated"] + AvailableForRoutine(m) <= Budget
    BY <2>2 DEF AvailableForRoutine
  <2>5. /\ DailyEnvelope(m, d) \in Nat
        /\ DailyEnvelope(m, d) * RemainingDays(d) <= AvailableForRoutine(m)
    BY <2>3, <2>4, QuotientFits DEF DailyEnvelope
  <2>6. DailyUsed(m, d) \in Nat
    <3>1. IsFiniteSet({a \in Attempt : /\ Reserved(a)
                                       /\ row[a].month = m
                                       /\ row[a].mode = "routine"
                                       /\ row[a].day >= d})
      BY BudgetAssumption, FS_Subset
    <3> QED BY <3>1, FS_CardinalityType DEF DailyUsed
  <2>7. DailyCap(m, d) \in Nat
    BY <2>3, <2>4, <2>6, QuotientFits DEF DailyCap
  <2> HIDE DEF m, d
  <2>8. DailyRemaining(m, d) <= 0 <=> ~(DailyUsed(m, d) < DailyCap(m, d))
    BY <2>6, <2>7 DEF DailyRemaining
  <2> DEFINE blocked == global[m]["allocated"] >= RoutineCap \/ DailyRemaining(m, d) <= 0
  <2>s. /\ s.isRoutineBlocked <=> blocked
        /\ s.isAbsoluteBlocked <=> global[m]["allocated"] >= Budget
        /\ s.dailyBlockReason = BlockReason(m, d)
    BY Zenon DEF Snapshot
  <2>w. /\ WithinCaps(m, d, "routine") <=> /\ global[m]["allocated"] < RoutineCap
                                           /\ DailyUsed(m, d) < DailyCap(m, d)
        /\ WithinCaps(m, d, "manual") <=> global[m]["allocated"] < Budget
    BY DEF WithinCaps, EffectiveCap
  <2>b. BlockReason(m, d) # "none" <=> blocked
    BY <2>2 DEF BlockReason
  <2>9. /\ s.isRoutineBlocked <=> ~WithinCaps(m, d, "routine")
        /\ s.isRoutineBlocked <=> s.dailyBlockReason # "none"
    <3>1. blocked <=> ~WithinCaps(m, d, "routine")
      BY <2>2, <2>8, <2>w
    <3> HIDE DEF s, blocked
    <3> QED BY <2>s, <2>b, <3>1, Zenon
  <2>10. CanMakeManualRequest(s, TRUE) <=> WithinCaps(m, d, "manual")
    <3>1. ~(global[m]["allocated"] >= Budget) <=> global[m]["allocated"] < Budget
      BY <2>2
    <3> QED BY <2>s, <2>w, <3>1, Zenon DEF CanMakeManualRequest
  <2>11. s.unresolved + s.completedSuccess + s.failures <= s.allocated
    BY <2>1, OutcomesAreApart DEF Snapshot
  <2>12. ProjectedMonthEnd(m, d) <= Budget
    BY <2>2, <2>3, <2>4, <2>5 DEF ProjectedMonthEnd
  <2>13. TierTotal(DailyEnvelope(m, d)) <= DailyEnvelope(m, d)
    BY <2>5, SharesFit
  <2>14. ImportStatus(m).routineRemaining = s.availableForRoutine
    <3>1. s.availableForRoutine = AvailableForRoutine(m)
      BY Zenon DEF Snapshot
    <3>2. ImportStatus(m).routineRemaining = AvailableForRoutine(m)
      BY <2>2, BudgetAssumption DEF ImportStatus, AvailableForRoutine, RoutineCap
    <3> QED BY <3>1, <3>2, Zenon
  <2>15. ReportsAddUp(ImportStatus(m))
    BY <2>1, ReportsSum
  <2> QED
    BY <2>9, <2>10, <2>11, <2>12, <2>13, <2>14, <2>15 DEF SnapshotAgrees, m, d
<1> QED
  BY <1>1, LedgerInvariant, CapsAreKept, PTL
-----------------------------------------------------------------------------
(* The scheduler.  Division by the slots of a day.                         *)
LEMMA Division ==
    ASSUME NEW n \in Nat, NEW s \in Nat \ {0}
    PROVE  n = s * (n \div s) + (n % s) /\ n % s \in 0 .. s - 1 /\ n \div s \in Nat
OBVIOUS

(* A larger number has no smaller quotient.                                *)
LEMMA DivisionKeepsOrder ==
    ASSUME NEW a \in Nat, NEW b \in Nat, a <= b, NEW s \in Nat \ {0}
    PROVE  a \div s <= b \div s
<1> DEFINE c == a \div s
           d == b \div s
<1>1. c \in Nat /\ d \in Nat /\ a % s \in 0 .. s - 1 /\ b % s \in 0 .. s - 1
      /\ a = s * c + (a % s) /\ b = s * d + (b % s)
  BY Division
<1> HIDE DEF c, d
<1>2. SUFFICES ASSUME c >= d + 1
               PROVE  FALSE
  BY <1>1 DEF c, d
<1>3. c = d + 1 + (c - d - 1) /\ c - d - 1 \in Nat
  BY <1>1, <1>2
<1>4. s * c = s * d + s + s * (c - d - 1) /\ s * (c - d - 1) >= 0
  BY <1>1, <1>3
<1> QED
  BY <1>1, <1>4

(* The slot after the last of a day is of a later one.                     *)
LEMMA NextSlot ==
    ASSUME NEW n \in Nat, NEW s \in Nat \ {0}
    PROVE  /\ (n + 1) % s = 0 => (n + 1) \div s > n \div s
           /\ (n + 1) % s # 0 => (n + 1) \div s = n \div s /\ (n + 1) % s = (n % s) + 1
<1> DEFINE c == n \div s
           d == (n + 1) \div s
           x == n % s
           y == (n + 1) % s
<1>1. c \in Nat /\ d \in Nat /\ x \in 0 .. s - 1 /\ y \in 0 .. s - 1
      /\ n = s * c + x /\ n + 1 = s * d + y
  BY Division
<1> HIDE DEF c, d, x, y
<1>2. s * (d - c) = x + 1 - y
  BY <1>1
<1>3. d - c \in {0, 1}
  <2>1. CASE d - c >= 2
    <3>1. s * (d - c) = 2 * s + s * (d - c - 2) /\ s * (d - c - 2) >= 0
      BY <1>1, <2>1
    <3> QED
      BY <1>1, <1>2, <3>1
  <2>2. CASE d - c <= -1
    <3>1. s * (d - c) = - s - s * (c - d - 1) /\ s * (c - d - 1) >= 0
      BY <1>1, <2>2
    <3> QED
      BY <1>1, <1>2, <3>1
  <2> QED
    BY <1>1, <2>1, <2>2
<1>4. d - c = 0 => x + 1 = y
  BY <1>1, <1>2
<1>5. d - c = 1 => s = x + 1 - y
  BY <1>1, <1>2
<1>6. d - c = 1 => y = 0
  BY <1>1, <1>5
<1>7. d - c = 0 => y # 0 /\ y = x + 1 /\ d = c
  BY <1>1, <1>4
<1> QED
  BY <1>1, <1>3, <1>6, <1>7 DEF c, d, x, y

(* The partitions are the names of the order that queues begin with.       *)
LEMMA PartitionsTyped ==
    /\ Len(Partition) \in Nat \ {0}
    /\ Partition \in [1 .. Len(Partition) -> Partitions]
    /\ \A k \in Partitions : \E i \in 1 .. Len(Partition) : Partition[i] = k
    /\ \A order \in [1 .. Len(Partition) -> Partitions] : Len(order) = Len(Partition)
<1>1. /\ Len(Partition) \in Nat \ {0}
      /\ Partition \in [1 .. Len(Partition) -> Partitions]
      /\ DOMAIN Partition = 1 .. Len(Partition)
  BY SchedulerAssumption DEF Partitions
<1>2. ASSUME NEW order \in [1 .. Len(Partition) -> Partitions]
      PROVE  Len(order) = Len(Partition)
  BY <1>1
<1> QED
  BY <1>1, <1>2 DEF Partitions, ToSet

(* A tick that is not under way has the type of one.                       *)
LEMMA NoTickTyped == NoTick \in TickRow
BY PartitionsTyped, SchedulerAssumption DEF NoTick, TickRow, Providers

(* The provider whose turn is next is one.                                 *)
LEMMA OtherTyped ==
    ASSUME NEW p \in Providers
    PROVE  Other(p) \in Providers
BY DEF Other, Providers

(* Only the row of one tick changes, and stays one.                        *)
LEMMA OneTickTyped ==
    ASSUME NEW t \in Tick, tick \in [Tick -> TickRow], NEW made \in TickRow,
           tick' = [tick EXCEPT ![t] = made]
    PROVE  tick' \in [Tick -> TickRow] /\ tick'[t] = made
OBVIOUS

(* What a run that ends makes of its tick.                                 *)
LEMMA EndRunTyped ==
    ASSUME NEW t \in Tick, tick \in [Tick -> TickRow], NEW reason, EndRun(t, reason)
    PROVE  /\ tick' \in [Tick -> TickRow]
           /\ tick' = [tick EXCEPT ![t] = tick'[t]]
           /\ tick'[t].day = tick[t].day /\ tick'[t].remaining = tick[t].remaining
           /\ tick'[t].phase = "loop"
<1>1. Partition[1] \in Partitions /\ "copart" \in Providers
  BY PartitionsTyped DEF Providers
<1>2. PICK runnable \in SUBSET Providers, empty \in BOOLEAN :
         tick' = [tick EXCEPT ![t] =
                    [tick[t] EXCEPT !.phase = "loop", !.pages = 0, !.provider = "copart",
                                    !.partition = Partition[1], !.runnable = runnable,
                                    !.barren = empty]]
  <2> DEFINE rest == IF reason \in UnavailableReasons THEN tick[t].runnable \ {tick[t].provider}
                     ELSE tick[t].runnable
             still == tick[t].barren /\ reason \in {"exhausted", "provider_error"}
  <2>1. rest \in SUBSET Providers /\ still \in BOOLEAN
    BY DEF TickRow
  <2>2. tick' = [tick EXCEPT ![t] =
                    [tick[t] EXCEPT !.phase = "loop", !.pages = 0, !.provider = "copart",
                                    !.partition = Partition[1], !.runnable = rest,
                                    !.barren = still]]
    BY DEF EndRun
  <2> QED
    BY <2>1, <2>2
<1>3. tick[t] \in TickRow
  OBVIOUS
<1>4. [tick[t] EXCEPT !.phase = "loop", !.pages = 0, !.provider = "copart",
                      !.partition = Partition[1], !.runnable = runnable,
                      !.barren = empty] \in TickRow
  BY <1>1, <1>3 DEF TickRow
<1>5. tick' \in [Tick -> TickRow] /\ tick' = [tick EXCEPT ![t] = tick'[t]]
      /\ tick'[t] = [tick[t] EXCEPT !.phase = "loop", !.pages = 0, !.provider = "copart",
                      !.partition = Partition[1], !.runnable = runnable,
                      !.barren = empty]
  BY <1>2, <1>4
<1> QED
  BY <1>3, <1>5 DEF TickRow

(* The day and its target.                                                 *)
LEMMA DayTyped ==
    ASSUME slot \in Nat
    PROVE  Today \in Nat /\ Elapsed \in 0 .. SlotsPerDay - 1 /\ PacedTarget \in Nat
<1>1. SlotsPerDay \in Nat \ {0} /\ DailyRequests \in Nat
  BY SchedulerAssumption
<1>2. slot \div SlotsPerDay \in Nat /\ slot % SlotsPerDay \in 0 .. SlotsPerDay - 1
  BY <1>1, Division
<1>3. Elapsed \in Nat /\ DailyRequests * Elapsed \in Nat
  BY <1>1, <1>2 DEF Elapsed
<1>4. (DailyRequests * Elapsed) \div SlotsPerDay \in Nat
  BY <1>1, <1>3, Division
<1> QED
  BY <1>2, <1>4 DEF Today, Elapsed, PacedTarget

(* The order stays one of all partitions.                                  *)
LEMMA MovedTyped ==
    ASSUME NEW order \in [1 .. Len(Partition) -> Partitions], NEW k \in Partitions
    PROVE  MovedToEnd(order, k) \in [1 .. Len(Partition) -> Partitions]
<1>1. Len(order) = Len(Partition) /\ Len(Partition) \in Nat
  BY PartitionsTyped
<1> QED
  BY <1>1 DEF MovedToEnd

(* The types are kept by every step.                                       *)
LEMMA SchedulerTypeStep ==
    ASSUME SchedulerTypeOK, [SchedulerNext]_schedulerVars
    PROVE  SchedulerTypeOK'
<1>0. /\ slot \in Nat /\ used \in Nat /\ paced \in Nat
      /\ queue \in [Providers -> [1 .. Len(Partition) -> Partitions]]
      /\ waited \in [Providers -> [Partitions -> Nat]]
      /\ tick \in [Tick -> TickRow]
  BY DEF SchedulerTypeOK
<1>1. ASSUME NEW t \in Tick,
             NEW phase \in {"idle", "guard", "begin", "loop", "claim", "run"}, Goes(t, phase)
      PROVE  tick' \in [Tick -> TickRow]
  BY <1>0, <1>1 DEF Goes, TickRow
<1>2. ASSUME NEW t \in Tick, Ends(t)
      PROVE  tick' \in [Tick -> TickRow]
  BY <1>0, <1>2, NoTickTyped DEF Ends
<1>3. ASSUME UNCHANGED <<clock, queue, waited>>, tick' \in [Tick -> TickRow]
      PROVE  SchedulerTypeOK'
  BY <1>0, <1>3 DEF SchedulerTypeOK, clock
<1>4. CASE TimerFires
  BY <1>1, <1>3, <1>4, SchedulerAssumption DEF TimerFires, sweeps
<1>5. CASE Environment
  <2>1. CASE ClockTicks
    BY <1>0, <2>1 DEF ClockTicks, SchedulerTypeOK, sweeps
  <2>2. CASE OtherRequest
    BY <1>0, <2>2 DEF OtherRequest, SchedulerTypeOK, sweeps
  <2>3. CASE Crash
    BY <1>3, <2>3, NoTickTyped DEF Crash
  <2>4. CASE Pause \/ LotsChange
    BY <1>0, <1>3, <2>4 DEF Pause, LotsChange, sweeps
  <2>5. CASE \E p \in Providers : LeaseExpires(p) \/ \E k \in Partitions : CycleDue(p, k)
    BY <1>0, <1>3, <2>5 DEF LeaseExpires, CycleDue
  <2> QED
    BY <1>5, <2>1, <2>2, <2>3, <2>4, <2>5 DEF Environment
<1>6. ASSUME NEW t \in Tick, AdminTick(t) \/ TickStep(t)
      PROVE  SchedulerTypeOK'
  <2>0. tick[t] \in TickRow
    BY <1>0
  <2>1. CASE AdminTick(t) \/ Guard(t) \/ Finish(t) \/ TickThrows(t)
    BY <1>1, <1>2, <1>3, <2>1 DEF AdminTick, Guard, Finish, TickThrows, sweeps
  <2>2. CASE Begin(t)
    <3>1. CASE Ends(t)
      BY <1>2, <1>3, <2>2, <3>1 DEF Begin, clock
    <3>2. CASE ~ Ends(t)
      <4>1. PICK first \in Providers, empty \in BOOLEAN :
               /\ ~ (TickPages(used) <= 0)
               /\ tick' = [tick EXCEPT ![t] =
                             [tick[t] EXCEPT !.phase = "loop", !.day = Today,
                                !.remaining = TickPages(used), !.runnable = Providers,
                                !.turn = first, !.barren = empty]]
        <5>1. (IF slot % 2 = 0 THEN "copart" ELSE "iaai") \in Providers /\ (~ active) \in BOOLEAN
          BY DEF Providers
        <5> QED
          BY <2>2, <3>2, <5>1 DEF Begin
      <4>2. Today \in Nat /\ PacedTarget \in Int
        BY <1>0, DayTyped
      <4>3. TickPages(used) \in 0 .. MaxPagesPerTick
        BY <1>0, <4>1, <4>2, SchedulerAssumption DEF TickPages, Smaller
      <4> DEFINE made == [tick[t] EXCEPT !.phase = "loop", !.day = Today,
                            !.remaining = TickPages(used), !.runnable = Providers,
                            !.turn = first, !.barren = empty]
      <4>5. made \in TickRow
        BY <2>0, <4>2, <4>3 DEF TickRow
      <4>6. tick' \in [Tick -> TickRow]
        BY <1>0, <4>1, <4>5
      <4> QED
        BY <1>3, <2>2, <4>6 DEF Begin, clock
    <3> QED
      BY <3>1, <3>2
  <2>3. CASE Select(t)
    <3>1. PICK turn \in Providers, p \in Providers, k \in Partitions :
             tick' = [tick EXCEPT ![t] = [tick[t] EXCEPT !.phase = "claim", !.turn = turn,
                                                         !.provider = p, !.partition = k]]
      <4>1. tick[t].turn \in Providers /\ Other(tick[t].turn) \in Providers
        BY <2>0, OtherTyped DEF TickRow
      <4>2. \A p \in Providers : LeastRecent(p) \in Partitions
        BY <1>0, PartitionsTyped DEF LeastRecent
      <4> QED
        BY <2>3, <4>1, <4>2 DEF Select
    <3>2. [tick[t] EXCEPT !.phase = "claim", !.turn = turn,
                          !.provider = p, !.partition = k] \in TickRow
      BY <2>0 DEF TickRow
    <3>3. tick' \in [Tick -> TickRow]
      BY <1>0, <3>1, <3>2
    <3> QED
      BY <1>3, <2>3, <3>3 DEF Select, sweeps
  <2>4. CASE RunClaims(t)
    <3> DEFINE p == tick[t].provider
               k == tick[t].partition
    <3>0. p \in Providers /\ k \in Partitions
      BY <2>0 DEF TickRow
    <3>1. tick' \in [Tick -> TickRow]
      BY <1>0, <1>1, <2>4, EndRunTyped DEF RunClaims
    <3>2. /\ \/ UNCHANGED sweeps
             \/ /\ queue' = [queue EXCEPT ![p] = MovedToEnd(queue[p], k)]
                /\ waited' = [waited EXCEPT ![p] = [j \in Partitions |->
                                  IF j = k THEN 0 ELSE waited[p][j] + 1]]
          /\ UNCHANGED clock
      BY <2>4 DEF RunClaims
    <3> HIDE DEF p, k
    <3>3. queue' \in [Providers -> [1 .. Len(Partition) -> Partitions]]
      <4>1. MovedToEnd(queue[p], k) \in [1 .. Len(Partition) -> Partitions]
        BY <1>0, <3>0, MovedTyped
      <4> QED
        BY <1>0, <3>2, <4>1 DEF sweeps
    <3>4. waited' \in [Providers -> [Partitions -> Nat]]
      <4>1. [j \in Partitions |-> IF j = k THEN 0 ELSE waited[p][j] + 1] \in [Partitions -> Nat]
        BY <1>0, <3>0
      <4> QED
        BY <1>0, <3>2, <4>1 DEF sweeps
    <3> QED
      BY <1>0, <3>1, <3>2, <3>3, <3>4 DEF clock, SchedulerTypeOK
  <2>5. CASE RunAttempts(t)
    <3>1. PICK left \in 0 .. MaxPagesPerTick, n \in Nat, empty \in BOOLEAN :
             tick' = [tick EXCEPT ![t] = [tick[t] EXCEPT !.remaining = left, !.pages = n,
                                                         !.barren = empty]]
      <4>1. PICK got : tick' = [tick EXCEPT ![t] =
                                  [tick[t] EXCEPT
                                     !.remaining = tick[t].remaining - 1,
                                     !.pages = IF got = "retry" THEN tick[t].pages
                                               ELSE tick[t].pages + 1,
                                     !.barren = tick[t].barren /\ got # "lots"]]
        BY <2>5 DEF RunAttempts
      <4>2. tick[t].remaining \in 0 .. MaxPagesPerTick /\ tick[t].remaining > 0 /\ tick[t].pages \in Nat
        BY <2>0, <2>5 DEF RunAttempts, TickRow
      <4>3. /\ tick[t].remaining - 1 \in 0 .. MaxPagesPerTick
            /\ (IF got = "retry" THEN tick[t].pages ELSE tick[t].pages + 1) \in Nat
            /\ (tick[t].barren /\ got # "lots") \in BOOLEAN
        BY <4>2, SchedulerAssumption
      <4> QED
        BY <4>1, <4>3
    <3>2. tick' \in [Tick -> TickRow]
      <4>1. [tick[t] EXCEPT !.remaining = left, !.pages = n, !.barren = empty] \in TickRow
        BY <2>0 DEF TickRow
      <4> QED
        BY <1>0, <3>1, <4>1
    <3>3. Charge(t) /\ UNCHANGED <<slot, sweeps>>
      BY <2>5 DEF RunAttempts
    <3>4. used' \in Nat /\ paced' \in Nat
      BY <1>0, <3>3 DEF Charge
    <3> QED
      BY <1>0, <3>2, <3>3, <3>4 DEF sweeps, SchedulerTypeOK
  <2>6. CASE RunExhausts(t) \/ RunStops(t) \/ RunFails(t)
    <3>1. tick' \in [Tick -> TickRow]
      BY <1>0, <2>6, EndRunTyped DEF RunExhausts, RunStops, RunFails
    <3> QED
      BY <1>3, <2>6, <3>1 DEF RunExhausts, RunStops, RunFails
  <2> QED
    BY <1>6, <2>1, <2>2, <2>3, <2>4, <2>5, <2>6 DEF TickStep
<1>7. CASE UNCHANGED schedulerVars
  BY <1>0, <1>3, <1>7 DEF schedulerVars, clock
<1> QED
  BY <1>4, <1>5, <1>6, <1>7 DEF SchedulerNext

-----------------------------------------------------------------------------
(* The pace.  The attempts promised to some ticks are at most so many for  *)
(* each of them.                                                           *)
LEMMA PromisesCounted ==
    ASSUME NEW T \in SUBSET Tick, NEW n \in Nat
    PROVE  /\ IsFiniteSet(T \X (1 .. n))
           /\ Cardinality(T \X (1 .. n)) = n * Cardinality(T)
           /\ \A X \in SUBSET (T \X (1 .. n)) :
                 /\ IsFiniteSet(X) /\ Cardinality(X) \in Nat
                 /\ Cardinality(X) <= n * Cardinality(T)
<1>1. IsFiniteSet(T) /\ Cardinality(T) \in Nat
  BY SchedulerAssumption, FS_Subset, FS_CardinalityType
<1>2. IsFiniteSet(1 .. n) /\ Cardinality(1 .. n) = n
  BY FS_Interval
<1>3. IsFiniteSet(T \X (1 .. n)) /\ Cardinality(T \X (1 .. n)) = n * Cardinality(T)
  BY <1>1, <1>2, FS_Product
<1> QED
  BY <1>3, FS_Subset, FS_CardinalityType

(* There is the timer's tick at least.                                     *)
LEMMA SomeTick == Cardinality(Tick) \in Nat \ {0}
<1>1. Tick # {} /\ IsFiniteSet(Tick)
  BY SchedulerAssumption
<1> QED
  BY <1>1, FS_EmptySet, FS_CardinalityType

(* The pace is kept where no attempt is promised and none is charged.      *)
LEMMA PaceNotWorse ==
    ASSUME PaceInv, SchedulerTypeOK', slot' = slot, paced' = paced, used <= used',
           \A u \in Tick : \/ tick'[u].day = tick[u].day /\ tick'[u].remaining = tick[u].remaining
                           \/ tick'[u].day = 0 /\ tick'[u].remaining = 0
    PROVE  PaceInv'
<1>0. /\ slot \in Nat /\ paced \in Nat /\ used \in Nat /\ used' \in Nat
      /\ tick' \in [Tick -> TickRow] /\ Today \in Nat /\ MaxPagesPerTick \in Nat
  BY DayTyped, SchedulerAssumption DEF PaceInv, SchedulerTypeOK
<1>1. Today' = Today /\ PacedTarget' = PacedTarget
  BY DEF Today, PacedTarget, Elapsed
<1>2. Promised' \subseteq Promised
  BY <1>0, <1>1 DEF Promised
<1>3. Promised \in SUBSET (Tick \X (1 .. MaxPagesPerTick))
  BY DEF Promised
<1>4. IsFiniteSet(Promised) /\ Cardinality(Promised) \in Nat
  BY <1>0, <1>3, PromisesCounted
<1>5. Cardinality(Promised') <= Cardinality(Promised) /\ Cardinality(Promised') \in Nat
  BY <1>2, <1>4, FS_Subset, FS_CardinalityType
<1>6. PacedTarget + MaxPagesPerTick * (Cardinality(Tick) - 1) \in Int
  BY <1>0, SomeTick, DayTyped
<1>7. \A u \in Tick : tick'[u].day <= Today
  BY <1>0 DEF PaceInv
<1>8. paced' <= used'
  BY <1>0 DEF PaceInv
<1>9. paced' + Cardinality(Promised') <= PacedTarget + MaxPagesPerTick * (Cardinality(Tick) - 1)
  BY <1>0, <1>4, <1>5, <1>6 DEF PaceInv
<1> QED
  BY <1>1, <1>7, <1>8, <1>9 DEF PaceInv

(* A tick that begins is promised what the day is short of its target.     *)
LEMMA PaceAtBegin ==
    ASSUME PaceInv, SchedulerTypeOK', NEW t \in Tick,
           UNCHANGED clock, TickPages(used) > 0,
           tick' = [tick EXCEPT ![t] = tick'[t]],
           tick'[t].day = Today, tick'[t].remaining = TickPages(used)
    PROVE  PaceInv'
<1> DEFINE most == MaxPagesPerTick * (Cardinality(Tick) - 1)
           others == {ti \in Promised : ti[1] # t}
           own == {t} \X (1 .. TickPages(used))
<1>0. /\ slot \in Nat /\ paced \in Nat /\ used \in Nat /\ MaxPagesPerTick \in Nat
      /\ tick \in [Tick -> TickRow] /\ tick' \in [Tick -> TickRow]
      /\ Today \in Nat /\ PacedTarget \in Nat
  BY DayTyped, SchedulerAssumption DEF PaceInv, SchedulerTypeOK
<1>1. UNCHANGED <<slot, used, paced>> /\ Today' = Today /\ PacedTarget' = PacedTarget
  BY DEF clock, Today, PacedTarget, Elapsed
<1>2. \A u \in Tick \ {t} : tick'[u] = tick[u]
  BY <1>0
<1>3. TickPages(used) \in 0 .. MaxPagesPerTick /\ TickPages(used) <= PacedTarget - used
  BY <1>0, SchedulerAssumption DEF TickPages, Smaller
<1>4. Promised' \subseteq others \cup own
  BY <1>0, <1>1, <1>2, <1>3 DEF Promised
<1>5. Cardinality(Tick \ {t}) = Cardinality(Tick) - 1
  BY SchedulerAssumption, FS_RemoveElement
<1>6. IsFiniteSet(others) /\ Cardinality(others) \in Nat /\ Cardinality(others) <= most
  <2>1. others \in SUBSET ((Tick \ {t}) \X (1 .. MaxPagesPerTick))
    BY DEF Promised
  <2> QED
    BY <1>0, <1>5, <2>1, PromisesCounted
<1>7. IsFiniteSet(own) /\ Cardinality(own) = TickPages(used)
  <2>1. Cardinality({t}) = 1
    BY FS_Singleton
  <2> HIDE DEF own
  <2>2. IsFiniteSet(own) /\ Cardinality(own) = TickPages(used) * 1
    BY <1>3, <2>1, PromisesCounted DEF own
  <2> QED
    BY <1>3, <2>2
<1>8. Cardinality(Promised') <= most + TickPages(used) /\ Cardinality(Promised') \in Nat
  <2> HIDE DEF others, own, most
  <2>1. /\ IsFiniteSet(others \cup own) /\ Cardinality(others \cap own) \in Nat
        /\ Cardinality(others \cup own)
              = Cardinality(others) + Cardinality(own) - Cardinality(others \cap own)
    BY <1>6, <1>7, FS_Union, FS_Intersection, FS_CardinalityType
  <2>2. /\ Cardinality(Promised') <= Cardinality(others \cup own)
        /\ Cardinality(Promised') \in Nat
    BY <1>4, <2>1, FS_Subset, FS_CardinalityType
  <2>3. most \in Int /\ Cardinality(others \cup own) \in Int
    BY <1>0, <1>3, <1>6, <1>7, <2>1, SomeTick DEF most
  <2> QED
    BY <1>3, <1>6, <1>7, <2>1, <2>2, <2>3
<1>9. paced + TickPages(used) <= PacedTarget
  BY <1>0, <1>3 DEF PaceInv
<1>10. paced + Cardinality(Promised') <= PacedTarget + most
  <2>1. most \in Int
    BY <1>0, SomeTick
  <2> HIDE DEF most
  <2> QED
    BY <1>0, <1>3, <1>8, <1>9, <2>1
<1>11. \A u \in Tick : tick'[u].day <= Today
  BY <1>0, <1>2 DEF PaceInv
<1> QED
  BY <1>1, <1>10, <1>11 DEF PaceInv

(* A charge uses up a promise, if it is of the day.                        *)
LEMMA PaceAtCharge ==
    ASSUME PaceInv, SchedulerTypeOK', NEW t \in Tick, slot' = slot, Charge(t),
           tick' = [tick EXCEPT ![t] = tick'[t]], tick[t].remaining > 0,
           tick'[t].day = tick[t].day, tick'[t].remaining = tick[t].remaining - 1
    PROVE  PaceInv'
<1> DEFINE spent == <<t, tick[t].remaining>>
           bound == PacedTarget + MaxPagesPerTick * (Cardinality(Tick) - 1)
<1>0. /\ slot \in Nat /\ paced \in Nat /\ used \in Nat /\ MaxPagesPerTick \in Nat
      /\ tick \in [Tick -> TickRow] /\ tick' \in [Tick -> TickRow] /\ Today \in Nat
  BY DayTyped, SchedulerAssumption DEF PaceInv, SchedulerTypeOK
<1>1. Today' = Today /\ PacedTarget' = PacedTarget
  BY DEF Today, PacedTarget, Elapsed
<1>2. \A u \in Tick \ {t} : tick'[u] = tick[u]
  BY <1>0
<1>3. IsFiniteSet(Promised) /\ Cardinality(Promised) \in Nat
  <2>1. Promised \in SUBSET (Tick \X (1 .. MaxPagesPerTick))
    BY DEF Promised
  <2> QED
    BY <1>0, <2>1, PromisesCounted
<1>4. used' = used + 1 /\ paced' = IF tick[t].day = Today THEN paced + 1 ELSE paced
  BY DEF Charge
<1>5. bound \in Int /\ bound' = bound /\ paced + Cardinality(Promised) <= bound
  BY <1>0, <1>1, SomeTick, DayTyped DEF PaceInv
<1>6. paced' + Cardinality(Promised') <= bound
  <2> HIDE DEF bound
  <2>1. CASE tick[t].day = Today
    <3>1. tick[t].remaining \in 1 .. MaxPagesPerTick
      BY <1>0 DEF TickRow
    <3>2. spent \in Promised
      BY <2>1, <3>1 DEF Promised
    <3>3. Promised' \subseteq Promised \ {spent}
      BY <1>0, <1>1, <1>2, <3>1 DEF Promised
    <3>4. /\ IsFiniteSet(Promised \ {spent})
          /\ Cardinality(Promised \ {spent}) = Cardinality(Promised) - 1
      BY <1>3, <3>2, FS_RemoveElement
    <3>5. Cardinality(Promised') <= Cardinality(Promised) - 1 /\ Cardinality(Promised') \in Nat
      BY <3>3, <3>4, FS_Subset, FS_CardinalityType
    <3> QED
      BY <1>0, <1>3, <1>4, <1>5, <2>1, <3>5
  <2>2. CASE tick[t].day # Today
    <3>1. Promised' \subseteq Promised
      BY <1>0, <1>1, <1>2, <2>2 DEF Promised
    <3>2. Cardinality(Promised') <= Cardinality(Promised) /\ Cardinality(Promised') \in Nat
      BY <1>3, <3>1, FS_Subset, FS_CardinalityType
    <3> QED
      BY <1>0, <1>3, <1>4, <1>5, <2>2, <3>2
  <2> QED
    BY <2>1, <2>2
<1>7. \A u \in Tick : tick'[u].day <= Today
  BY <1>0, <1>2 DEF PaceInv
<1>8. paced' <= used'
  BY <1>0, <1>4 DEF PaceInv
<1> QED
  BY <1>1, <1>6, <1>7, <1>8 DEF PaceInv

(* The day goes on, and its target with it; a new day promises nothing.    *)
LEMMA PaceAtClock ==
    ASSUME PaceInv, SchedulerTypeOK', ClockTicks
    PROVE  PaceInv'
<1> DEFINE most == MaxPagesPerTick * (Cardinality(Tick) - 1)
<1>0. /\ slot \in Nat /\ paced \in Nat /\ used \in Nat /\ MaxPagesPerTick \in Nat
      /\ tick \in [Tick -> TickRow] /\ Today \in Nat /\ PacedTarget \in Nat
      /\ slot' = slot + 1 /\ tick' = tick /\ slot' \in Nat
      /\ SlotsPerDay \in Nat \ {0} /\ DailyRequests \in Nat
  BY DayTyped, SchedulerAssumption DEF PaceInv, SchedulerTypeOK, ClockTicks
<1>1. most \in Nat
  BY <1>0, SomeTick
<1>2. CASE (slot + 1) % SlotsPerDay = 0
  <2>1. Today' > Today /\ Today' \in Nat
    BY <1>0, <1>2, NextSlot, Division DEF Today
  <2>2. used' = 0 /\ paced' = 0
    BY <1>2 DEF ClockTicks
  <2>3. \A u \in Tick : tick[u].day < Today' /\ tick[u].day \in Nat
    BY <1>0, <2>1 DEF PaceInv, TickRow
  <2>4. Promised' = {}
    BY <1>0, <2>3 DEF Promised
  <2>5. Cardinality(Promised') = 0
    BY <2>4, FS_EmptySet
  <2>6. PacedTarget' \in Nat
    <3>1. Elapsed' \in Nat
      BY <1>0, Division DEF Elapsed
    <3>2. DailyRequests * Elapsed' \in Nat
      <4>1. PICK e \in Nat : e = Elapsed'
        BY <3>1
      <4>2. DailyRequests * e \in Nat
        BY <1>0
      <4> QED
        BY <4>1, <4>2
    <3> QED
      BY <1>0, <3>2, Division DEF PacedTarget
  <2>7. \A u \in Tick : tick'[u].day <= Today'
    BY <1>0, <2>1, <2>3
  <2>8. paced' + Cardinality(Promised') <= PacedTarget' + most
    BY <1>1, <2>2, <2>5, <2>6
  <2> QED
    BY <2>2, <2>7, <2>8 DEF PaceInv
<1>3. CASE (slot + 1) % SlotsPerDay # 0
  <2>1. Today' = Today /\ Elapsed' = Elapsed + 1
    BY <1>0, <1>3, NextSlot DEF Today, Elapsed
  <2>2. UNCHANGED <<used, paced>>
    BY <1>3 DEF ClockTicks
  <2>3. Promised' = Promised
    BY <1>0, <2>1 DEF Promised
  <2>4. PacedTarget <= PacedTarget' /\ PacedTarget' \in Nat
    <3>1. Elapsed \in Nat /\ Elapsed' = Elapsed + 1
      BY <1>0, <2>1, DayTyped
    <3>2. /\ DailyRequests * Elapsed \in Nat /\ DailyRequests * Elapsed' \in Nat
          /\ DailyRequests * Elapsed <= DailyRequests * Elapsed'
      BY <1>0, <3>1
    <3> QED
      BY <1>0, <3>2, Division, DivisionKeepsOrder DEF PacedTarget
  <2>5. Cardinality(Promised) \in Nat
    <3>1. Promised \in SUBSET (Tick \X (1 .. MaxPagesPerTick))
      BY DEF Promised
    <3> QED
      BY <1>0, <3>1, PromisesCounted
  <2>6. paced' + Cardinality(Promised') <= PacedTarget' + most
    <3> HIDE DEF most
    <3>1. paced + Cardinality(Promised) <= PacedTarget + most
      BY DEF PaceInv, most
    <3> QED
      BY <1>0, <1>1, <2>2, <2>3, <2>4, <2>5, <3>1
  <2> QED
    BY <1>0, <2>1, <2>2, <2>6 DEF PaceInv
<1> QED
  BY <1>2, <1>3

(* Every step keeps the pace.                                              *)
LEMMA PaceStep ==
    ASSUME PaceInv, [SchedulerNext]_schedulerVars
    PROVE  PaceInv'
<1>0. /\ slot \in Nat /\ paced \in Nat /\ used \in Nat /\ tick \in [Tick -> TickRow]
      /\ SchedulerTypeOK /\ SchedulerTypeOK' /\ Today \in Nat
  BY SchedulerTypeStep, DayTyped DEF PaceInv, SchedulerTypeOK
<1>1. ASSUME UNCHANGED <<slot, paced>>, used <= used',
             \/ tick' = tick
             \/ \E t \in Tick : Ends(t) \/ \E phase : Goes(t, phase)
             \/ \E t \in Tick : \E reason : EndRun(t, reason)
      PROVE  PaceInv'
  <2>1. \A u \in Tick : \/ tick'[u].day = tick[u].day /\ tick'[u].remaining = tick[u].remaining
                        \/ tick'[u].day = 0 /\ tick'[u].remaining = 0
    <3>1. ASSUME NEW t \in Tick, Ends(t), NEW u \in Tick
          PROVE  tick'[u] = tick[u] \/ (tick'[u].day = 0 /\ tick'[u].remaining = 0)
      BY <1>0, <3>1 DEF Ends, NoTick
    <3>2. ASSUME NEW t \in Tick, NEW phase, Goes(t, phase), NEW u \in Tick
          PROVE  tick'[u].day = tick[u].day /\ tick'[u].remaining = tick[u].remaining
      BY <1>0, <3>2 DEF Goes, TickRow
    <3>3. ASSUME NEW t \in Tick, NEW reason, EndRun(t, reason), NEW u \in Tick
          PROVE  tick'[u].day = tick[u].day /\ tick'[u].remaining = tick[u].remaining
      BY <1>0, <3>3, EndRunTyped
    <3> QED
      BY <1>1, <3>1, <3>2, <3>3
  <2> QED
    BY <1>0, <1>1, <2>1, PaceNotWorse
<1>2. ASSUME NEW t \in Tick, AdminTick(t) \/ TickStep(t)
      PROVE  PaceInv'
  <2>1. CASE AdminTick(t) \/ Guard(t) \/ Finish(t) \/ TickThrows(t)
    BY <1>0, <1>1, <2>1 DEF AdminTick, Guard, Finish, TickThrows, clock
  <2>2. CASE RunClaims(t) \/ RunExhausts(t) \/ RunStops(t) \/ RunFails(t)
    BY <1>0, <1>1, <2>2 DEF RunClaims, RunExhausts, RunStops, RunFails, clock
  <2>3. CASE Begin(t)
    <3>1. CASE Ends(t)
      BY <1>0, <1>1, <2>3, <3>1 DEF Begin, clock
    <3>2. CASE ~ Ends(t)
      <4>1. /\ ~ (TickPages(used) <= 0) /\ UNCHANGED clock
            /\ tick' = [tick EXCEPT ![t] =
                          [@ EXCEPT !.phase = "loop", !.day = Today,
                               !.remaining = TickPages(used), !.runnable = Providers,
                               !.turn = IF slot % 2 = 0 THEN "copart" ELSE "iaai",
                               !.barren = ~ active]]
        BY <2>3, <3>2 DEF Begin
      <4>2. /\ tick' = [tick EXCEPT ![t] = tick'[t]]
            /\ tick'[t].day = Today /\ tick'[t].remaining = TickPages(used)
        BY <1>0, <4>1 DEF TickRow
      <4>3. TickPages(used) > 0
        <5>1. tick'[t].remaining \in 0 .. MaxPagesPerTick
          BY <1>0 DEF SchedulerTypeOK, TickRow
        <5> QED
          BY <4>1, <4>2, <5>1, SchedulerAssumption
      <4> QED
        BY <1>0, <4>1, <4>2, <4>3, PaceAtBegin
    <3> QED
      BY <3>1, <3>2
  <2>4. CASE Select(t)
    <3>1. PICK turn, p, k :
             tick' = [tick EXCEPT ![t] = [tick[t] EXCEPT !.phase = "claim", !.turn = turn,
                                                         !.provider = p, !.partition = k]]
      BY <2>4 DEF Select
    <3>2. \A u \in Tick : tick'[u].day = tick[u].day /\ tick'[u].remaining = tick[u].remaining
      BY <1>0, <3>1 DEF TickRow
    <3> QED
      BY <1>0, <2>4, <3>2, PaceNotWorse DEF Select, clock
  <2>5. CASE RunAttempts(t)
    <3>1. Charge(t) /\ slot' = slot /\ tick[t].remaining > 0
      BY <2>5 DEF RunAttempts
    <3>2. PICK n, empty :
             tick' = [tick EXCEPT ![t] = [tick[t] EXCEPT !.remaining = tick[t].remaining - 1,
                                                         !.pages = n, !.barren = empty]]
      BY <2>5 DEF RunAttempts
    <3>3. /\ tick' = [tick EXCEPT ![t] = tick'[t]]
          /\ tick'[t].day = tick[t].day /\ tick'[t].remaining = tick[t].remaining - 1
      BY <1>0, <3>2 DEF TickRow
    <3> QED
      BY <1>0, <3>1, <3>3, PaceAtCharge
  <2> QED
    BY <1>2, <2>1, <2>2, <2>3, <2>4, <2>5 DEF TickStep
<1>3. CASE Environment
  <2>1. CASE ClockTicks
    BY <1>0, <2>1, PaceAtClock
  <2>2. CASE OtherRequest
    BY <1>0, <1>1, <2>2 DEF OtherRequest
  <2>3. CASE Crash
    <3>1. \A u \in Tick : tick'[u].day = 0 /\ tick'[u].remaining = 0
      BY <2>3 DEF Crash, NoTick
    <3> QED
      BY <1>0, <2>3, <3>1, PaceNotWorse DEF Crash, clock
  <2>4. CASE Pause \/ LotsChange
    BY <1>0, <1>1, <2>4 DEF Pause, LotsChange, clock
  <2>5. CASE \E p \in Providers : LeaseExpires(p) \/ \E k \in Partitions : CycleDue(p, k)
    BY <1>0, <1>1, <2>5 DEF LeaseExpires, CycleDue, clock
  <2> QED
    BY <1>3, <2>1, <2>2, <2>3, <2>4, <2>5 DEF Environment
<1>4. CASE TimerFires
  BY <1>0, <1>1, <1>4, SchedulerAssumption DEF TimerFires, clock
<1>5. CASE UNCHANGED schedulerVars
  BY <1>0, <1>1, <1>5 DEF schedulerVars
<1> QED
  BY <1>2, <1>3, <1>4, <1>5 DEF SchedulerNext

(* The scheduler begins with its types.                                    *)
LEMMA SchedulerTypeInit == SchedulerInit => SchedulerTypeOK
<1> SUFFICES ASSUME SchedulerInit
             PROVE  SchedulerTypeOK
  OBVIOUS
<1>1. tick \in [Tick -> TickRow]
  BY NoTickTyped DEF SchedulerInit
<1>2. queue \in [Providers -> [1 .. Len(Partition) -> Partitions]]
  BY PartitionsTyped DEF SchedulerInit
<1> QED
  BY <1>1, <1>2 DEF SchedulerInit, SchedulerTypeOK

(* The inductive invariant of the pace: it counts promised attempts.       *)
THEOREM PaceInvariant == SchedulerSpec => []PaceInv
<1>1. SchedulerInit => PaceInv
  <2> SUFFICES ASSUME SchedulerInit
               PROVE  PaceInv
    OBVIOUS
  <2>1. slot = 0 /\ used = 0 /\ paced = 0 /\ \A t \in Tick : tick[t].day = 0 /\ tick[t].remaining = 0
    BY DEF SchedulerInit, NoTick
  <2>2. Promised = {}
    BY <2>1, SchedulerAssumption DEF Promised
  <2>3. Cardinality(Promised) = 0 /\ PacedTarget \in Nat /\ Today \in Nat
    BY <2>1, <2>2, FS_EmptySet, DayTyped
  <2>4. MaxPagesPerTick * (Cardinality(Tick) - 1) \in Nat
    BY SomeTick, SchedulerAssumption
  <2> QED
    BY <2>1, <2>3, <2>4, SchedulerTypeInit DEF PaceInv
<1>2. PaceInv /\ [SchedulerNext]_schedulerVars => PaceInv'
  BY PaceStep
<1> QED
  BY <1>1, <1>2, PTL DEF SchedulerSpec

(* The ticks of a day keep its pace, for any number of ticks at once.      *)
THEOREM TicksKeepPace == SchedulerSpec => []PaceKept
<1>1. PaceInv => PaceKept
  <2> SUFFICES ASSUME PaceInv
               PROVE  PaceKept
    OBVIOUS
  <2>1. Promised \in SUBSET (Tick \X (1 .. MaxPagesPerTick))
    BY DEF Promised
  <2>2. Cardinality(Promised) \in Nat
    BY <2>1, SchedulerAssumption, PromisesCounted
  <2>3. paced \in Nat /\ PacedTarget + MaxPagesPerTick * (Cardinality(Tick) - 1) \in Int
    BY SomeTick, DayTyped, SchedulerAssumption DEF PaceInv, SchedulerTypeOK
  <2> QED
    BY <2>2, <2>3 DEF PaceInv, PaceKept
<1> QED
  BY <1>1, PaceInvariant, PTL

-----------------------------------------------------------------------------
(* The turns.                                                              *)

(* The one that is started comes last, and the others keep their order.    *)
LEMMA MovedKeepsOrder ==
    ASSUME NEW order \in Orders, NEW k \in Partitions
    PROVE  /\ MovedToEnd(order, k) \in Orders
           /\ \A a \in Partitions \ {k} : Before(MovedToEnd(order, k), a, k)
           /\ \A a, b \in Partitions \ {k} :
                 Before(order, a, b) => Before(MovedToEnd(order, k), a, b)
<1> DEFINE last == Len(Partition)
           moved == MovedToEnd(order, k)
<1>1. last \in Nat \ {0} /\ order \in [1 .. last -> Partitions] /\ Len(order) = last
  BY PartitionsTyped DEF Orders
<1>2. PICK at \in 1 .. last : order[at] = k /\ \A i \in 1 .. last : order[i] = k => i = at
  BY DEF Orders
<1>3. at = CHOOSE i \in 1 .. Len(order) : order[i] = k
  BY <1>1, <1>2
<1>4. moved \in [1 .. last -> Partitions]
  BY MovedTyped, <1>1
<1>5. \A i \in 1 .. last : moved[i] = IF i < at THEN order[i]
                                      ELSE IF i < last THEN order[i + 1] ELSE k
  BY <1>1, <1>3 DEF MovedToEnd
<1> HIDE DEF last, moved
<1>6. ASSUME NEW i \in 1 .. last, i # at
      PROVE  \E n \in 1 .. last - 1 : /\ moved[n] = order[i]
                                      /\ n = IF i < at THEN i ELSE i - 1
  <2>1. CASE i < at
    BY <1>1, <1>2, <1>5, <2>1
  <2>2. CASE i > at
    <3>1. i - 1 \in 1 .. last - 1 /\ ~ (i - 1 < at) /\ (i - 1) + 1 = i
      BY <1>1, <2>2
    <3> QED
      BY <1>1, <1>5, <2>2, <3>1
  <2> QED
    BY <1>1, <1>6, <2>1, <2>2
<1>7. moved[last] = k
  BY <1>1, <1>2, <1>5
<1>8. \A i, n \in 1 .. last : moved[i] = moved[n] => i = n
  <2>1. \A i, n \in 1 .. last : order[i] = order[n] => i = n
    BY DEF Orders, last
  <2>2. ASSUME NEW i \in 1 .. last
        PROVE  \E m \in 1 .. last : /\ moved[i] = order[m]
                                    /\ m = IF i < at THEN i ELSE IF i < last THEN i + 1 ELSE at
    BY <1>1, <1>2, <1>5
  <2> SUFFICES ASSUME NEW i \in 1 .. last, NEW n \in 1 .. last, moved[i] = moved[n]
               PROVE  i = n
    OBVIOUS
  <2>3. PICK a \in 1 .. last : /\ moved[i] = order[a]
                               /\ a = IF i < at THEN i ELSE IF i < last THEN i + 1 ELSE at
    BY <2>2
  <2>4. PICK b \in 1 .. last : /\ moved[n] = order[b]
                               /\ b = IF n < at THEN n ELSE IF n < last THEN n + 1 ELSE at
    BY <2>2
  <2>5. a = b
    BY <2>1, <2>3, <2>4
  <2> QED
    BY <1>1, <2>3, <2>4, <2>5
<1>9. \A a \in Partitions : \E i \in 1 .. last : moved[i] = a
  <2> SUFFICES ASSUME NEW a \in Partitions
               PROVE  \E i \in 1 .. last : moved[i] = a
    OBVIOUS
  <2>1. PICK i \in 1 .. last : order[i] = a
    BY DEF Orders, last
  <2> QED
    BY <1>1, <1>2, <1>6, <1>7, <2>1
<1>10. moved \in Orders
  BY <1>4, <1>8, <1>9 DEF Orders, last
<1>11. ASSUME NEW a \in Partitions \ {k}
       PROVE  Before(moved, a, k)
  <2>1. PICK i \in 1 .. last : order[i] = a
    BY DEF Orders, last
  <2>2. PICK n \in 1 .. last - 1 : moved[n] = a
    BY <1>2, <1>6, <2>1
  <2>3. n \in 1 .. last /\ last \in 1 .. last /\ n < last
    BY <1>1
  <2> QED
    BY <1>7, <2>2, <2>3 DEF Before, last
<1>12. ASSUME NEW a \in Partitions \ {k}, NEW b \in Partitions \ {k}, Before(order, a, b)
       PROVE  Before(moved, a, b)
  <2>1. PICK i \in 1 .. last, n \in 1 .. last : i < n /\ order[i] = a /\ order[n] = b
    BY <1>12 DEF Before, last
  <2>2. i # at /\ n # at
    BY <1>2, <2>1
  <2>3. PICK c \in 1 .. last - 1 : moved[c] = a /\ c = IF i < at THEN i ELSE i - 1
    BY <1>6, <2>1, <2>2
  <2>4. PICK d \in 1 .. last - 1 : moved[d] = b /\ d = IF n < at THEN n ELSE n - 1
    BY <1>6, <2>1, <2>2
  <2>5. c \in 1 .. last /\ d \in 1 .. last /\ c < d
    BY <1>1, <2>1, <2>2, <2>3, <2>4
  <2> QED
    BY <2>3, <2>4, <2>5 DEF Before, last
<1> QED
  BY <1>10, <1>11, <1>12 DEF moved

(* There are finitely many partitions, and pairs with a tick.              *)
LEMMA PartitionsFinite ==
    /\ IsFiniteSet(Partitions)
    /\ \A X \in SUBSET (Partitions \X Tick) : IsFiniteSet(X) /\ Cardinality(X) \in Nat
<1>1. Partition \in Surjection(1 .. Len(Partition), Partitions)
  BY PartitionsTyped DEF Surjection
<1>2. IsFiniteSet(1 .. Len(Partition))
  BY PartitionsTyped, FS_Interval
<1>3. IsFiniteSet(Partitions)
  BY <1>1, <1>2, FS_Surjection
<1>4. IsFiniteSet(Partitions \X Tick)
  BY <1>3, SchedulerAssumption, FS_Product
<1> QED
  BY <1>3, <1>4, FS_Subset, FS_CardinalityType

(* Turns are kept where no run is claimed: a partition that a tick selects *)
(* is ahead of every other.                                                *)
LEMMA TurnsKept ==
    ASSUME TurnsInv, SchedulerTypeOK', UNCHANGED <<queue, waited>>,
           \A t \in Tick, p \in Providers, j \in Partitions :
              Claims(t, p, j)' => Claims(t, p, j) \/ j = queue[p][1]
    PROVE  TurnsInv'
<1>1. ASSUME NEW p \in Providers, NEW k \in Partitions
      PROVE  RunsBehind(p, k)'
  <2>1. PICK runs \in SUBSET (Behind(p, k) \X Tick) :
           waited[p][k] = Cardinality(runs) /\ \A jt \in runs : ~ Claims(jt[2], p, jt[1])
    BY DEF TurnsInv, RunsBehind
  <2>2. \A jt \in runs : jt[1] # queue[p][1]
    <3> SUFFICES ASSUME NEW jt \in runs, jt[1] = queue[p][1]
                 PROVE  FALSE
      OBVIOUS
    <3>1. PICK i \in 1 .. Len(Partition), n \in 1 .. Len(Partition) : i < n /\ queue[p][n] = jt[1]
      BY <2>1 DEF Behind, Before
    <3>2. n = 1
      BY <3>1, PartitionsTyped DEF TurnsInv, Orders
    <3> QED
      BY <3>1, <3>2
  <2>3. \A jt \in runs : jt[2] \in Tick /\ jt[1] \in Partitions
    BY <2>1 DEF Behind
  <2>4. ASSUME NEW jt \in runs
        PROVE  ~ Claims(jt[2], p, jt[1])'
    <3>1. PICK t \in Tick, j \in Partitions : t = jt[2] /\ j = jt[1]
      BY <2>3
    <3>2. ~ Claims(t, p, j) /\ j # queue[p][1]
      BY <2>1, <2>2, <3>1
    <3>3. ~ Claims(t, p, j)'
      BY <3>2
    <3> QED
      BY <3>1, <3>3 DEF Claims, At
  <2>5. Behind(p, k)' = Behind(p, k) /\ waited' = waited
    BY DEF Behind, Before
  <2> QED
    BY <2>1, <2>4, <2>5 DEF RunsBehind
<1> QED
  BY <1>1 DEF TurnsInv

(* A run that is claimed puts its partition behind all that waited for it. *)
LEMMA TurnsTaken ==
    ASSUME TurnsInv, SchedulerTypeOK', NEW t \in Tick, NEW q \in Providers, NEW c \in Partitions,
           Claims(t, q, c), tick'[t].phase # "claim", \A u \in Tick \ {t} : tick'[u] = tick[u],
           queue' = [queue EXCEPT ![q] = MovedToEnd(queue[q], c)],
           waited' = [waited EXCEPT ![q] = [j \in Partitions |->
                        IF j = c THEN 0 ELSE waited[q][j] + 1]]
    PROVE  TurnsInv'
<1>0. /\ queue \in [Providers -> Orders] /\ waited \in [Providers -> [Partitions -> Nat]]
      /\ queue[q] \in Orders
  BY DEF TurnsInv, SchedulerTypeOK
<1>1. /\ queue'[q] = MovedToEnd(queue[q], c) /\ queue'[q] \in Orders
      /\ \A p \in Providers \ {q} : queue'[p] = queue[p] /\ waited'[p] = waited[p]
      /\ \A j \in Partitions : waited'[q][j] = IF j = c THEN 0 ELSE waited[q][j] + 1
  BY <1>0, MovedKeepsOrder
<1>2. queue' \in [Providers -> Orders]
  BY <1>0, <1>1
<1>3. \A u \in Tick, p \in Providers, j \in Partitions : Claims(u, p, j)' => Claims(u, p, j) /\ u # t
  BY DEF Claims, At
<1>4. ASSUME NEW p \in Providers, NEW k \in Partitions
      PROVE  RunsBehind(p, k)'
  <2>1. PICK runs \in SUBSET (Behind(p, k) \X Tick) :
           waited[p][k] = Cardinality(runs) /\ \A jt \in runs : ~ Claims(jt[2], p, jt[1])
    BY DEF TurnsInv, RunsBehind
  <2>2. ASSUME NEW jt \in runs
        PROVE  ~ Claims(jt[2], p, jt[1])'
    <3>1. PICK u \in Tick, j \in Partitions : u = jt[2] /\ j = jt[1]
      BY <2>1 DEF Behind
    <3>2. ~ Claims(u, p, j)
      BY <2>1, <3>1
    <3>3. ~ Claims(u, p, j)'
      BY <1>3, <3>2
    <3> QED
      BY <3>1, <3>3 DEF Claims, At
  <2>3. CASE p # q
    <3>1. Behind(p, k)' = Behind(p, k) /\ waited'[p][k] = waited[p][k]
      BY <1>1, <2>3 DEF Behind, Before
    <3> QED
      BY <2>1, <2>2, <3>1 DEF RunsBehind
  <2>4. CASE p = q /\ k = c
    <3>1. waited'[p][k] = Cardinality({})
      BY <1>1, <2>4, FS_EmptySet
    <3> QED
      BY <3>1 DEF RunsBehind
  <2>5. CASE p = q /\ k # c
    <3> DEFINE more == runs \cup {<<c, t>>}
    <3>1. Behind(p, k) \subseteq Behind(p, k)' /\ c \in Behind(p, k)'
      <4>1. \A b \in Partitions \ {c} : Before(queue[q], k, b) => Before(queue'[q], k, b)
        BY <1>0, <1>1, <2>5, MovedKeepsOrder
      <4>2. Before(queue'[q], k, c)
        BY <1>0, <1>1, <2>5, MovedKeepsOrder
      <4> QED
        BY <2>5, <4>1, <4>2 DEF Behind
    <3>2. <<c, t>> \notin runs
      BY <2>1, <2>5
    <3>3. IsFiniteSet(runs)
      <4>1. runs \in SUBSET (Partitions \X Tick)
        BY <2>1 DEF Behind
      <4> QED
        BY <4>1, PartitionsFinite
    <3>4. Cardinality(more) = Cardinality(runs) + 1
      BY <3>2, <3>3, FS_AddElement
    <3>5. more \in SUBSET (Behind(p, k)' \X Tick)
      BY <2>1, <3>1
    <3>6. waited'[p][k] = Cardinality(more)
      BY <1>1, <2>1, <2>5, <3>4
    <3>7. ~ Claims(t, p, c)'
      BY DEF Claims, At
    <3>8. \A jt \in more : ~ Claims(jt[2], p, jt[1])'
      BY <2>2, <3>7
    <3> QED
      BY <3>5, <3>6, <3>8 DEF RunsBehind
  <2> QED
    BY <2>3, <2>4, <2>5
<1> QED
  BY <1>2, <1>4 DEF TurnsInv

(* Every step keeps the turns.                                             *)
LEMMA TurnsStep ==
    ASSUME TurnsInv, [SchedulerNext]_schedulerVars
    PROVE  TurnsInv'
<1>0. tick \in [Tick -> TickRow] /\ SchedulerTypeOK /\ SchedulerTypeOK'
  BY SchedulerTypeStep DEF TurnsInv, SchedulerTypeOK
<1>1. ASSUME UNCHANGED <<queue, waited>>,
             \/ tick' = tick
             \/ \E t \in Tick : tick' = [tick EXCEPT ![t] = tick'[t]] /\ tick'[t].phase # "claim"
      PROVE  TurnsInv'
  <2>1. ASSUME NEW u \in Tick
        PROVE  tick'[u] = tick[u] \/ tick'[u].phase # "claim"
    BY <1>0, <1>1
  <2>2. \A u \in Tick, p \in Providers, j \in Partitions : Claims(u, p, j)' => Claims(u, p, j)
    BY <2>1 DEF Claims, At
  <2> QED
    BY <1>0, <1>1, <2>2, TurnsKept
<1>2. ASSUME NEW t \in Tick, NEW phase \in {"guard", "begin", "run"}, Goes(t, phase)
      PROVE  tick' = [tick EXCEPT ![t] = tick'[t]] /\ tick'[t].phase # "claim"
  BY <1>0, <1>2 DEF Goes, TickRow
<1>3. ASSUME NEW t \in Tick, Ends(t)
      PROVE  tick' = [tick EXCEPT ![t] = tick'[t]] /\ tick'[t].phase # "claim"
  BY <1>0, <1>3 DEF Ends, NoTick
<1>4. ASSUME NEW t \in Tick, NEW reason, EndRun(t, reason)
      PROVE  tick' = [tick EXCEPT ![t] = tick'[t]] /\ tick'[t].phase # "claim"
  BY <1>0, <1>4, EndRunTyped
<1>5. ASSUME NEW t \in Tick, AdminTick(t) \/ TickStep(t)
      PROVE  TurnsInv'
  <2>0. tick[t] \in TickRow
    BY <1>0
  <2>1. CASE AdminTick(t) \/ Guard(t) \/ Finish(t) \/ TickThrows(t)
    BY <1>1, <1>2, <1>3, <2>1 DEF AdminTick, Guard, Finish, TickThrows, sweeps
  <2>2. CASE RunExhausts(t) \/ RunStops(t) \/ RunFails(t)
    BY <1>1, <1>4, <2>2 DEF RunExhausts, RunStops, RunFails
  <2>3. CASE Begin(t)
    <3>1. UNCHANGED <<queue, waited>>
      BY <2>3 DEF Begin
    <3>2. CASE Ends(t)
      BY <1>1, <1>3, <3>1, <3>2
    <3>3. CASE ~ Ends(t)
      <4>1. tick' = [tick EXCEPT ![t] =
                          [@ EXCEPT !.phase = "loop", !.day = Today,
                               !.remaining = TickPages(used), !.runnable = Providers,
                               !.turn = IF slot % 2 = 0 THEN "copart" ELSE "iaai",
                               !.barren = ~ active]]
        BY <2>3, <3>3 DEF Begin
      <4>2. tick' = [tick EXCEPT ![t] = tick'[t]] /\ tick'[t].phase # "claim"
        BY <1>0, <4>1 DEF TickRow
      <4> QED
        BY <1>1, <3>1, <4>2
    <3> QED
      BY <3>2, <3>3
  <2>4. CASE RunAttempts(t)
    <3>1. UNCHANGED <<queue, waited>> /\ tick[t].phase = "run"
      BY <2>4 DEF RunAttempts, sweeps, At
    <3>2. PICK n, empty :
             tick' = [tick EXCEPT ![t] = [tick[t] EXCEPT !.remaining = tick[t].remaining - 1,
                                                         !.pages = n, !.barren = empty]]
      BY <2>4 DEF RunAttempts
    <3>3. tick' = [tick EXCEPT ![t] = tick'[t]] /\ tick'[t].phase # "claim"
      BY <1>0, <3>1, <3>2 DEF TickRow
    <3> QED
      BY <1>1, <3>1, <3>3
  <2>5. CASE Select(t)
    <3>1. PICK turn, q :
             tick' = [tick EXCEPT ![t] = [tick[t] EXCEPT !.phase = "claim", !.turn = turn,
                                              !.provider = q, !.partition = LeastRecent(q)]]
      BY <2>5 DEF Select
    <3>2. /\ tick'[t].provider = q /\ tick'[t].partition = queue[q][1]
          /\ \A u \in Tick \ {t} : tick'[u] = tick[u]
      BY <1>0, <3>1 DEF TickRow, LeastRecent
    <3>3. \A u \in Tick, p \in Providers, j \in Partitions :
             Claims(u, p, j)' => Claims(u, p, j) \/ j = queue[p][1]
      BY <3>2 DEF Claims, At
    <3> QED
      BY <1>0, <2>5, <3>3, TurnsKept DEF Select, sweeps
  <2>6. CASE RunClaims(t)
    <3> DEFINE q == tick[t].provider
               c == tick[t].partition
    <3>1. q \in Providers /\ c \in Partitions /\ At(t, "claim")
      BY <2>0, <2>6 DEF TickRow, RunClaims
    <3>2. tick' = [tick EXCEPT ![t] = tick'[t]] /\ tick'[t].phase # "claim"
      BY <1>2, <1>4, <2>6 DEF RunClaims
    <3>3. CASE UNCHANGED sweeps
      BY <1>1, <3>2, <3>3 DEF sweeps
    <3>4. CASE ~ UNCHANGED sweeps
      <4>1. /\ queue' = [queue EXCEPT ![q] = MovedToEnd(queue[q], c)]
            /\ waited' = [waited EXCEPT ![q] = [j \in Partitions |->
                              IF j = c THEN 0 ELSE waited[q][j] + 1]]
        BY <2>6, <3>4 DEF RunClaims
      <4>2. \A u \in Tick \ {t} : tick'[u] = tick[u]
        BY <1>0, <3>2
      <4>3. PICK p \in Providers, k \in Partitions : p = q /\ k = c
        BY <3>1
      <4>4. Claims(t, p, k)
        BY <3>1, <4>3 DEF Claims
      <4> QED
        BY <1>0, <3>2, <4>1, <4>2, <4>3, <4>4, TurnsTaken
    <3> QED
      BY <3>3, <3>4
  <2> QED
    BY <1>5, <2>1, <2>2, <2>3, <2>4, <2>5, <2>6 DEF TickStep
<1>6. CASE Environment
  <2>1. CASE Crash
    <3>1. UNCHANGED <<queue, waited>> /\ \A u \in Tick : tick'[u].phase = "idle"
      BY <2>1 DEF Crash, NoTick
    <3>2. \A u \in Tick, p \in Providers, j \in Partitions : ~ Claims(u, p, j)'
      BY <3>1 DEF Claims, At
    <3> QED
      BY <1>0, <3>1, <3>2, TurnsKept
  <2>2. CASE ~ Crash
    BY <1>1, <1>6, <2>2 DEF Environment, Pause, OtherRequest, ClockTicks, LotsChange, LeaseExpires,
       CycleDue, sweeps
  <2> QED
    BY <2>1, <2>2
<1>7. CASE TimerFires
  BY <1>1, <1>2, <1>7, SchedulerAssumption DEF TimerFires, sweeps
<1>8. CASE UNCHANGED schedulerVars
  BY <1>1, <1>8 DEF schedulerVars
<1> QED
  BY <1>5, <1>6, <1>7, <1>8 DEF SchedulerNext

(* The inductive invariant of the turns.                                   *)
THEOREM TurnsInvariant == SchedulerSpec => []TurnsInv
<1>1. SchedulerInit => TurnsInv
  <2> SUFFICES ASSUME SchedulerInit
               PROVE  TurnsInv
    OBVIOUS
  <2>1. Partition \in Orders
    BY PartitionsTyped, SchedulerAssumption DEF Orders
  <2>2. queue \in [Providers -> Orders]
    BY <2>1 DEF SchedulerInit
  <2>3. ASSUME NEW p \in Providers, NEW k \in Partitions
        PROVE  RunsBehind(p, k)
    BY FS_EmptySet DEF SchedulerInit, RunsBehind
  <2> QED
    BY <2>2, <2>3, SchedulerTypeInit DEF TurnsInv
<1>2. TurnsInv /\ [SchedulerNext]_schedulerVars => TurnsInv'
  BY TurnsStep
<1> QED
  BY <1>1, <1>2, PTL DEF SchedulerSpec

(* No partition waits for more than one run by each tick of each other     *)
(* partition, for any number of partitions and of ticks at once.           *)
THEOREM TurnsAreTaken == SchedulerSpec => []PartitionsTakeTurns
<1>1. TurnsInv => PartitionsTakeTurns
  <2> SUFFICES ASSUME TurnsInv, NEW p \in Providers, NEW k \in Partitions
               PROVE  waited[p][k] <= Cardinality(Tick) * (Cardinality(Partitions) - 1)
    BY DEF PartitionsTakeTurns
  <2>1. PICK runs \in SUBSET (Behind(p, k) \X Tick) : waited[p][k] = Cardinality(runs)
    BY DEF TurnsInv, RunsBehind
  <2>2. k \notin Behind(p, k)
    BY DEF Behind, Before, TurnsInv, Orders
  <2>3. runs \in SUBSET ((Partitions \ {k}) \X Tick)
    BY <2>1, <2>2 DEF Behind
  <2>4. /\ IsFiniteSet(Partitions \ {k})
        /\ Cardinality(Partitions \ {k}) = Cardinality(Partitions) - 1
    BY PartitionsFinite, FS_RemoveElement
  <2>5. /\ IsFiniteSet((Partitions \ {k}) \X Tick)
        /\ Cardinality((Partitions \ {k}) \X Tick)
              = (Cardinality(Partitions) - 1) * Cardinality(Tick)
    BY <2>4, SchedulerAssumption, FS_Product
  <2>6. Cardinality(runs) <= (Cardinality(Partitions) - 1) * Cardinality(Tick)
    BY <2>3, <2>5, FS_Subset
  <2>7. Cardinality(Partitions) \in Nat /\ Cardinality(Tick) \in Nat
    BY PartitionsFinite, SomeTick, FS_CardinalityType
  <2>8. (Cardinality(Partitions) - 1) * Cardinality(Tick)
           = Cardinality(Tick) * (Cardinality(Partitions) - 1)
    BY <2>7
  <2> QED
    BY <2>1, <2>6, <2>8
<1> QED
  BY <1>1, TurnsInvariant, PTL
=============================================================================
