------------------------ MODULE DiscoverySweepProofs ------------------------
(* Theorems about DiscoverySweep for every set of runs, queries, lots and  *)
(* cursors, and every value of the times and bounds.                       *)
EXTENDS DiscoverySweep, ProviderLeaseProofs

(* Every step of a run, a tick or a search is, to the lease, a step that   *)
(* ProviderLease allows.                                                   *)
LEMMA SweepStepIsLeaseStep == [Next]_vars => [LeaseNext]_leaseVars
<1> SUFFICES ASSUME [Next]_vars
             PROVE  [LeaseNext]_leaseVars
  OBVIOUS
<1>1. ASSUME NEW o \in Owner, RunStep(o)
      PROVE  [LeaseNext]_leaseVars
  <2>1. ASSUME NEW q \in Query, ClaimRun(o, q)
        PROVE  Claim(o, NoJob, SweepTtl)
    BY <2>1 DEF ClaimRun, Claim
  <2>2. CASE ReadCheckpoint(o) \/ ReadFails(o) \/ Fetch(o) \/ FetchFails(o) \/ StopPaging(o)
    BY <2>2 DEF ReadCheckpoint, ReadFails, Fetch, FetchFails, StopPaging
  <2>3. CASE BeginWrite(o)
    BY <2>3 DEF BeginWrite, LeaseNext
  <2>4. CASE WriteRefused(o)
    BY <2>4 DEF WriteRefused, LeaseNext
  <2>5. CASE CommitRestart(o) \/ CommitStart(o) \/ CommitNote(o)
    BY <2>5 DEF CommitRestart, CommitStart, CommitNote, LeaseNext
  <2>6. ASSUME NEW listed \in SUBSET Lot, NEW left \in SUBSET listed, NEW ready \in SUBSET left,
               NEW next \in Cursor \cup {NoCursor}, CommitPage(o, listed, left, ready, next)
        PROVE  CommitLeased(o)
    BY <2>6 DEF CommitPage
  <2>7. CASE Leave(o)
    BY <2>7 DEF Leave, LeaseNext
  <2>8. NoJob \in Job \cup {NoJob} /\ SweepTtl \in Ttls
    BY SweepAssumption
  <2> QED
    BY <1>1, <2>1, <2>2, <2>3, <2>4, <2>5, <2>6, <2>7, <2>8 DEF RunStep, LeaseNext
<1>2. ASSUME NEW o \in Owner, CrashRun(o)
      PROVE  [LeaseNext]_leaseVars
  BY <1>2 DEF CrashRun, LeaseNext
<1>3. CASE TickStep
  BY <1>3 DEF TickStep, TickFindsNoInventory, TickFindsExhausted, TickResets, Reconcile
<1>4. ASSUME NEW l \in Lot, NEW t \in 0 .. now, SearchFinds(l) \/ SearchStores(l, t)
      PROVE  UNCHANGED leaseVars
  BY <1>4 DEF SearchFinds, SearchStores
<1>5. ASSUME NEW l \in Lot, SearchFinds(l)
      PROVE  UNCHANGED leaseVars
  BY <1>5 DEF SearchFinds
<1>6. CASE Clock
  BY <1>6 DEF Clock, LeaseNext
<1>7. CASE UNCHANGED vars
  BY <1>7 DEF vars
<1> QED
  BY <1>1, <1>2, <1>3, <1>4, <1>5, <1>6, <1>7 DEF Next

(* The runs of all replicas together use the lease only as ProviderLease   *)
(* allows; so every theorem about the lease holds of discovery.            *)
THEOREM SweepKeepsLease == Spec => LeaseSpec
<1>1. Init => LeaseInit
  BY DEF Init
<1> QED
  BY <1>1, SweepStepIsLeaseStep, PTL DEF Spec, LeaseSpec

(* Hence the lease's inductive invariant holds of the composition. *)
THEOREM SweepLeaseInvariant == Spec => []LeaseInv
  BY SweepKeepsLease, LeaseInvariant, PTL

-----------------------------------------------------------------------------
(* What a run remembers is well typed in every state it can be given. *)
LEMMA BlankTyped == \A state \in RunState : Blank(state) \in Run
<1>1. (CHOOSE q \in Query : TRUE) \in Query
  BY SweepAssumption
<1> QED
  BY <1>1 DEF Blank, Run, Never

LEMMA FreshRowTyped == \A t \in Int : FreshRow(t) \in CheckpointRow
  BY DEF FreshRow, CheckpointRow

LEMMA MovedRunTyped ==
    \A r \in Run, state \in RunState, c \in Cursor \cup {NoCursor} :
        [r EXCEPT !.at = state, !.cursor = c] \in Run
  BY DEF Run

LEMMA BegunRunTyped ==
    \A r \in Run, state \in RunState, t \in Int : [r EXCEPT !.at = state, !.cycle = t] \in Run
  BY DEF Run

LEMMA FetchedRunTyped ==
    \A r \in Run, state \in RunState, t \in Int : [r EXCEPT !.at = state, !.seenAt = t] \in Run
  BY DEF Run

(* ... and so is what it makes of a row. *)
LEMMA ResumeTyped ==
    ASSUME NEW q \in Query, NEW row \in CheckpointRow, now \in Nat
    PROVE  ResumeFrom(q, row) \in Run
<1> DEFINE resumed == [Blank("paging") EXCEPT !.query = q, !.cursor = row.cursor]
<1>1. resumed \in Run /\ Blank("leaving") \in Run
  BY BlankTyped DEF Run, RunState, CheckpointRow
<1> HIDE DEF resumed
<1>0. now \in Int /\ "restarting" \in RunState /\ "starting" \in RunState
  BY DEF RunState
<1>2. [resumed EXCEPT !.at = "restarting", !.cycle = now] \in Run
  BY <1>1, <1>0, BegunRunTyped, Zenon
<1>3. [resumed EXCEPT !.at = "starting", !.cycle = now] \in Run
  BY <1>1, <1>0, BegunRunTyped, Zenon
<1>4. [resumed EXCEPT !.cycle = row.cycle] \in Run
  BY <1>1 DEF Run, CheckpointRow
<1>5. CASE row.exhausted /\ row.dueAt > now
  BY <1>1, <1>5 DEF ResumeFrom, CheckpointRow
<1>6. CASE row.exhausted /\ row.dueAt <= now
  BY <1>2, <1>6 DEF ResumeFrom, CheckpointRow, resumed
<1>7. CASE ~row.exhausted /\ row.cycle = Never
  BY <1>3, <1>7 DEF ResumeFrom, CheckpointRow, resumed
<1>8. CASE ~row.exhausted /\ row.cycle # Never
  BY <1>4, <1>8 DEF ResumeFrom, CheckpointRow, resumed
<1> QED
  BY <1>5, <1>6, <1>7, <1>8 DEF CheckpointRow

(* Every step keeps what a run remembers, the rows and the lots well typed. *)
LEMMA SweepStepTyped == TypeOK /\ [Next]_vars /\ LeaseTypeOK' => TypeOK'
<1> SUFFICES ASSUME TypeOK, [Next]_vars, LeaseTypeOK'
             PROVE  TypeOK'
  OBVIOUS
<1> USE SweepAssumption, BlankTyped
<1> USE DEF TypeOK, SameLots, SameRest, lotVars, Become
<1>0. /\ now \in Nat
      /\ \A o \in Owner : run[o] \in Run
      /\ Never \in Int
      /\ \A q \in Query : ckpt[q] \in CheckpointRow
      /\ \A s \in RunState : Blank(s) \in Run
  BY DEF LeaseTypeOK, Never
<1>1. ASSUME NEW o \in Owner, NEW q \in Query, ClaimRun(o, q)
      PROVE  TypeOK'
  <2>1. Blank("done") \in Run /\ Blank("claimed") \in Run
    BY DEF RunState
  <2>2. [Blank("claimed") EXCEPT !.query = q] \in Run
    BY <2>1 DEF Run
  <2> QED
    BY <1>1, <2>1, <2>2 DEF ClaimRun
<1>2. ASSUME NEW o \in Owner, ReadCheckpoint(o)
      PROVE  TypeOK'
  <2> DEFINE q   == run[o].query
             row == IF ckpt[q].made THEN ckpt[q] ELSE FreshRow(now)
  <2>1. q \in Query /\ row \in CheckpointRow
    BY <1>0, FreshRowTyped DEF Run
  <2>2. ResumeFrom(q, row) \in Run
    BY <1>0, <2>1, ResumeTyped
  <2>3. /\ ckpt' = [ckpt EXCEPT ![q] = row]
        /\ run' = [run EXCEPT ![o] = ResumeFrom(q, row)]
        /\ UNCHANGED <<leaseVars, sweep>> /\ SameLots /\ SameRest
    BY <1>2 DEF ReadCheckpoint
  <2> HIDE DEF q, row
  <2> QED
    BY <2>1, <2>2, <2>3
<1>3. ASSUME NEW o \in Owner,
             ReadFails(o) \/ BeginWrite(o) \/ WriteRefused(o) \/ CommitNote(o)
               \/ StopPaging(o) \/ Leave(o) \/ CrashRun(o)
      PROVE  TypeOK'
  <2>1. Blank("leaving") \in Run /\ Blank("done") \in Run
    BY DEF RunState
  <2>2. CASE ReadFails(o) \/ StopPaging(o) \/ CommitNote(o)
    BY <2>1, <2>2 DEF ReadFails, StopPaging, CommitNote
  <2>3. CASE BeginWrite(o)
    BY <2>3 DEF BeginWrite
  <2>4. CASE WriteRefused(o)
    BY <2>1, <2>4 DEF WriteRefused
  <2>5. CASE Leave(o)
    BY <2>1, <2>5 DEF Leave
  <2>6. CASE CrashRun(o)
    BY <2>1, <2>6 DEF CrashRun, Disturb
  <2> QED
    BY <1>3, <2>2, <2>3, <2>4, <2>5, <2>6
<1>4. ASSUME NEW o \in Owner, CommitRestart(o)
      PROVE  TypeOK'
  <2>1. Blank("leaving") \in Run /\ FreshRow(run[o].cycle) \in CheckpointRow
    BY <1>0, FreshRowTyped DEF RunState, Run
  <2>2. [run[o] EXCEPT !.at = "paging", !.cursor = NoCursor] \in Run
    BY <1>0, MovedRunTyped DEF RunState
  <2> QED
    BY <1>4, <2>1, <2>2 DEF CommitRestart, Written
<1>5. ASSUME NEW o \in Owner, CommitStart(o)
      PROVE  TypeOK'
  <2> DEFINE q == run[o].query
  <2>1. Blank("leaving") \in Run /\ q \in Query /\ run[o].cycle \in Int
    BY <1>0 DEF RunState, Run
  <2>2. [run[o] EXCEPT !.at = "paging", !.cursor = ckpt[q].cursor] \in Run
    <3>1. ckpt[q].cursor \in Cursor \cup {NoCursor}
      BY <1>0, <2>1 DEF CheckpointRow
    <3> QED
      BY <1>0, <3>1, MovedRunTyped DEF RunState
  <2>3. [ckpt[q] EXCEPT !.cycle = run[o].cycle] \in CheckpointRow
    <3>1. \A row \in CheckpointRow, t \in Int : [row EXCEPT !.cycle = t] \in CheckpointRow
      BY DEF CheckpointRow
    <3> QED
      BY <1>0, <2>1, <3>1
  <2>4. ckpt' = [ckpt EXCEPT ![q] = [ckpt[q] EXCEPT !.cycle = run[o].cycle]]
    BY <1>5 DEF CommitStart
  <2>5. run' \in {[run EXCEPT ![o] = [run[o] EXCEPT !.at = "paging", !.cursor = ckpt[q].cursor]],
                  [run EXCEPT ![o] = Blank("leaving")]}
    BY <1>5 DEF CommitStart, Written
  <2>6. UNCHANGED sweep /\ SameLots /\ SameRest
    BY <1>5 DEF CommitStart
  <2>7. ckpt' \in [Query -> CheckpointRow]
    BY <2>1, <2>3, <2>4
  <2>8. run' \in [Owner -> Run]
    BY <2>1, <2>2, <2>5
  <2> QED
    BY <2>6, <2>7, <2>8
<1>6. ASSUME NEW o \in Owner, Fetch(o) \/ FetchFails(o)
      PROVE  TypeOK'
  <2>1. Blank("leaving") \in Run /\ Blank("noting") \in Run
    BY DEF RunState
  <2>2. [run[o] EXCEPT !.at = "persisting", !.seenAt = now] \in Run
    <3>1. now \in Int /\ "persisting" \in RunState /\ run[o] \in Run
      BY <1>0 DEF RunState
    <3> QED
      BY <3>1, FetchedRunTyped, Zenon
  <2>3. CASE Fetch(o)
    BY <2>2, <2>3 DEF Fetch
  <2>4. CASE FetchFails(o)
    BY <2>1, <2>4 DEF FetchFails
  <2> QED
    BY <1>6, <2>3, <2>4
<1>7. ASSUME NEW o \in Owner, NEW listed \in SUBSET Lot, NEW left \in SUBSET listed, NEW ready \in SUBSET left,
             NEW next \in Cursor \cup {NoCursor}, CommitPage(o, listed, left, ready, next)
      PROVE  TypeOK'
  <2> DEFINE q == run[o].query
             t == run[o].seenAt
  <2>1. /\ Blank("leaving") \in Run
        /\ q \in Query /\ t \in Int /\ run[o].cycle \in Int /\ run[o].pages \in Nat
    BY <1>0 DEF RunState, Run
  <2>2. known' \subseteq Lot /\ open' \subseteq known' /\ active' \subseteq open'
    BY <1>7 DEF CommitPage
  <2>3. seen' \in [Lot -> Int]
    BY <1>7, <2>1 DEF CommitPage
  <2>4. misses' \in [Lot -> Nat]
    BY <1>7 DEF CommitPage
  <2>5. ckpt' \in [Query -> CheckpointRow]
    BY <1>0, <1>7, <2>1 DEF CommitPage, CheckpointRow
  <2>6. Covered(o, listed) \in [since : Int, listed : SUBSET Lot]
    BY <2>1 DEF Covered
  <2>7. sweep' \in [Query -> [since : Int, listed : SUBSET Lot]]
    BY <1>7, <2>1, <2>6 DEF CommitPage
  <2>8. [at |-> "paging", query |-> q, cursor |-> next, cycle |-> run[o].cycle,
         seenAt |-> Never, pages |-> run[o].pages + 1] \in Run
    BY <1>0, <2>1 DEF Run, RunState
  <2>9. run' \in [Owner -> Run]
    BY <1>7, <2>1, <2>8 DEF CommitPage, Written
  <2> QED
    BY <1>7, <2>2, <2>3, <2>4, <2>5, <2>7, <2>9 DEF CommitPage
<1>8. CASE TickFindsNoInventory \/ TickFindsExhausted
  BY <1>0, <1>8 DEF TickFindsNoInventory, TickFindsExhausted, Resetting, NoTick, Never
<1>9. ASSUME NEW q \in Query, TickResets(q)
      PROVE  TypeOK'
  <2>1. FreshRow(tick.now) \in CheckpointRow
    BY FreshRowTyped
  <2> QED
    BY <1>9, <2>1 DEF TickResets, Resetting, NoTick, Never
<1>10. ASSUME NEW revived \in SUBSET Lot, NEW cleared \in SUBSET Lot,
              Reconcile(revived, cleared)
       PROVE  TypeOK'
  <2>1. PICK gap \in [active' -> RefreshGap] :
          refreshAt' = [l \in Lot |-> IF l \in active' THEN now + gap[l]
                                      ELSE IF l \in cleared THEN 0 ELSE refreshAt[l]]
    BY <1>10 DEF Reconcile
  <2>2. \A l \in active' : gap[l] \in Nat
    OBVIOUS
  <2>3. refreshAt' \in [Lot -> Int]
    BY <1>0, <2>1, <2>2
  <2> QED
    BY <1>10, <2>3 DEF Reconcile, Disturb
<1>11. ASSUME NEW l \in Lot, SearchFinds(l)
       PROVE  TypeOK'
  BY <1>0, <1>11 DEF SearchFinds, Disturb
<1>12. ASSUME NEW l \in Lot, NEW t \in 0 .. now, SearchStores(l, t)
       PROVE  TypeOK'
  BY <1>0, <1>12 DEF SearchStores
<1>13. CASE Clock
  BY <1>13 DEF Clock
<1>14. CASE UNCHANGED vars
  BY <1>14 DEF vars
<1> QED
  BY <1>1, <1>2, <1>3, <1>4, <1>5, <1>6, <1>7, <1>8, <1>9, <1>10, <1>11, <1>12, <1>13, <1>14
     DEF Next, RunStep, TickStep

(* Every row, lot, run and tick is well typed, for any number of them. *)
THEOREM SweepTyped == Spec => []TypeOK
<1>1. Init => TypeOK
  <2> SUFFICES ASSUME Init
               PROVE  TypeOK
    OBVIOUS
  <2>1. Blank("idle") \in Run
    BY BlankTyped DEF RunState
  <2>2. OldRow \cup {NoRow} \subseteq CheckpointRow
    <3>1. NoRow \in CheckpointRow /\ FreshRow(0) \in CheckpointRow /\ FreshRow(Never) \in CheckpointRow
      BY FreshRowTyped DEF NoRow, CheckpointRow, Never
    <3>2. [FreshRow(0) EXCEPT !.exhausted = TRUE] \in CheckpointRow
      BY <3>1 DEF CheckpointRow
    <3> QED
      BY <3>1, <3>2 DEF OldRow
  <2>3. ckpt \in [Query -> CheckpointRow]
    BY <2>2, SweepAssumption DEF Init, NoRow, CheckpointRow, Never
  <2>4. LeaseTypeOK
    BY LeaseInitInv DEF Init, LeaseInv
  <2> QED
    BY <2>1, <2>3, <2>4, SweepAssumption DEF Init, TypeOK, NoTick, Never
<1>2. LeaseInv => LeaseTypeOK
  BY DEF LeaseInv
<1> QED
  BY <1>1, <1>2, SweepStepTyped, SweepLeaseInvariant, PTL DEF Spec

-----------------------------------------------------------------------------
(* A run that was superseded changes neither a checkpoint nor a miss: the  *)
(* page it still holds commits under the row's token or not at all.        *)
THEOREM SupersededNeverWrite == Spec => SupersededRunsWriteNothing
<1> DEFINE Newest ==
      \A o \in Owner :
          (At(o, "persisting") /\ run'[o] # run[o] /\ (ckpt' # ckpt \/ misses' # misses))
            => \A p \in Owner : held[p] <= held[o]
<1>1. LeaseInv /\ TypeOK /\ [Next]_vars => [Newest]_vars
  <2> SUFFICES ASSUME LeaseInv, TypeOK, [Next]_vars,
                      NEW o \in Owner, At(o, "persisting"), run'[o] # run[o],
                      ckpt' # ckpt \/ misses' # misses
               PROVE  \A p \in Owner : held[p] <= held[o]
    OBVIOUS
  <2> USE DEF At, Become, SameLots, SameRest, lotVars
  <2>1. run \in [Owner -> Run]
    BY DEF TypeOK
  <2>2. ASSUME NEW listed \in SUBSET Lot, NEW left \in SUBSET listed, NEW ready \in SUBSET left,
               NEW next \in Cursor \cup {NoCursor}, CommitPage(o, listed, left, ready, next)
        PROVE  \A p \in Owner : held[p] <= held[o]
    BY <2>2, LeaseAssumption
       DEF CommitPage, CommitLeased, LeaseInv, LeaseTypeOK, LeaseRow,
           TransactionKeepsRow, FenceOrder
  <2>3. ~BeginWrite(o) /\ ~WriteRefused(o) /\ ~CrashRun(o)
    BY DEF BeginWrite, WriteRefused, CrashRun
  <2>4. ~(\E q \in Query : ClaimRun(o, q))
    BY DEF ClaimRun
  <2>5. /\ ~ReadCheckpoint(o) /\ ~ReadFails(o) /\ ~CommitRestart(o) /\ ~CommitStart(o)
        /\ ~Fetch(o) /\ ~FetchFails(o) /\ ~CommitNote(o) /\ ~StopPaging(o) /\ ~Leave(o)
    BY DEF ReadCheckpoint, ReadFails, CommitRestart, CommitStart, Fetch, FetchFails,
           CommitNote, StopPaging, Leave
  <2>6. ASSUME NEW p \in Owner, RunStep(p) \/ CrashRun(p)
        PROVE  run' = [run EXCEPT ![p] = run'[p]]
    BY ZenonT(40), <2>1, <2>6
       DEF RunStep, ClaimRun, ReadCheckpoint, ReadFails, BeginWrite, WriteRefused,
           CommitRestart, CommitStart, Fetch, FetchFails, CommitNote, CommitPage,
           StopPaging, Leave, CrashRun, Written
  <2>7. RunStep(o)
    BY <2>1, <2>3, <2>6
       DEF Next, TickStep, TickFindsNoInventory, TickFindsExhausted, TickResets,
           Reconcile, SearchFinds, SearchStores, Clock, vars
  <2> QED
    BY <2>2, <2>3, <2>4, <2>5, <2>7 DEF RunStep
<1> QED
  BY <1>1, SweepLeaseInvariant, SweepTyped, PTL DEF Spec, SupersededRunsWriteNothing

-----------------------------------------------------------------------------
(* Only its own steps change what a run remembers. *)
LEMMA OthersKeepRun ==
    ASSUME TypeOK, NEW o \in Owner, RunStep(o) \/ CrashRun(o)
    PROVE  run' = [run EXCEPT ![o] = run'[o]]
<1>1. run \in [Owner -> Run]
  BY DEF TypeOK
<1> QED
  BY ZenonT(40), <1>1
     DEF RunStep, ClaimRun, ReadCheckpoint, ReadFails, BeginWrite, WriteRefused,
         CommitRestart, CommitStart, Fetch, FetchFails, CommitNote, CommitPage,
         StopPaging, Leave, CrashRun, Written, Become

(* What a run becomes, state by state. *)
LEMMA StateOfBlank == \A state \in RunState : Blank(state).at = state
  BY DEF Blank

LEMMA Resumed ==
    ASSUME NEW q \in Query, NEW row \in CheckpointRow, now \in Nat
    PROVE  LET r == ResumeFrom(q, row) IN
           /\ r.at \in {"leaving", "restarting", "starting", "paging"}
           /\ r.at # "leaving" => r.query = q
           /\ r.at \in {"starting", "paging"} => ~row.exhausted
           /\ r.at = "paging" => r.cursor = row.cursor /\ r.cycle = row.cycle /\ row.cycle # Never
           /\ r.at = "starting" => r.cycle = now /\ row.cycle = Never
           /\ r.at = "restarting" => r.cycle = now /\ row.exhausted /\ row.dueAt <= now
           /\ r.at = "leaving" => r.cycle = Never
<1> DEFINE resumed == [Blank("paging") EXCEPT !.query = q, !.cursor = row.cursor]
           restarting == [resumed EXCEPT !.at = "restarting", !.cycle = now]
           starting   == [resumed EXCEPT !.at = "starting", !.cycle = now]
           paging     == [resumed EXCEPT !.cycle = row.cycle]
<1>1. resumed \in Run /\ resumed.at = "paging" /\ resumed.query = q /\ resumed.cursor = row.cursor
  BY BlankTyped, StateOfBlank DEF Run, RunState, CheckpointRow
<1>2. Blank("leaving").at = "leaving" /\ Blank("leaving").cycle = Never
  BY DEF Blank
<1> HIDE DEF resumed
<1>3. /\ restarting.at = "restarting" /\ restarting.query = q /\ restarting.cycle = now
      /\ starting.at = "starting" /\ starting.query = q /\ starting.cycle = now
  BY <1>1 DEF Run
<1>4. paging.at = "paging" /\ paging.query = q /\ paging.cursor = row.cursor /\ paging.cycle = row.cycle
  BY <1>1 DEF Run, CheckpointRow
<1>5. CASE row.exhausted /\ row.dueAt > now
  <2>1. ResumeFrom(q, row) = Blank("leaving")
    BY <1>5 DEF ResumeFrom, CheckpointRow
  <2> QED BY <1>2, <2>1
<1>6. CASE row.exhausted /\ row.dueAt <= now
  <2>1. ResumeFrom(q, row) = restarting
    BY <1>6 DEF ResumeFrom, CheckpointRow, resumed
  <2> HIDE DEF restarting
  <2> QED BY <1>3, <1>6, <2>1
<1>7. CASE ~row.exhausted /\ row.cycle = Never
  <2>1. ResumeFrom(q, row) = starting
    BY <1>7 DEF ResumeFrom, CheckpointRow, resumed
  <2> HIDE DEF starting
  <2> QED BY <1>3, <1>7, <2>1
<1>8. CASE ~row.exhausted /\ row.cycle # Never
  <2>1. ResumeFrom(q, row) = paging
    BY <1>8 DEF ResumeFrom, CheckpointRow, resumed
  <2> HIDE DEF paging
  <2> QED BY <1>4, <1>8, <2>1
<1> QED
  BY <1>5, <1>6, <1>7, <1>8 DEF CheckpointRow

(* A run that is not idle or done has its token, and only such a run.      *)
LEMMA TokenStep == SweepInv /\ [Next]_vars => RunKnowsToken'
<1> SUFFICES ASSUME SweepInv, [Next]_vars
             PROVE  RunKnowsToken'
  OBVIOUS
<1> USE DEF RunKnowsToken, Become, At, SameLots, SameRest
<1>0. /\ run \in [Owner -> Run] /\ held \in [Owner -> Nat] /\ lease.fence \in Nat
      /\ now \in Nat /\ ckpt \in [Query -> CheckpointRow]
  BY DEF SweepInv, TypeOK, LeaseTypeOK, LeaseRow
<1>1. \A state \in RunState : Blank(state).at = state
  BY StateOfBlank
<1>2. RunKnowsToken
  BY DEF SweepInv
<1>3. ASSUME NEW o \in Owner, RunStep(o) \/ CrashRun(o),
             \A p \in Owner \ {o} : held'[p] = held[p],
             (held'[o] = 0) <=> (run'[o].at \in {"idle", "done"})
      PROVE  RunKnowsToken'
  <2>1. run' = [run EXCEPT ![o] = run'[o]]
    BY <1>3, OthersKeepRun DEF SweepInv
  <2> QED
    BY <1>0, <1>2, <1>3, <2>1
<1>4. ASSUME NEW o \in Owner, NEW q \in Query, ClaimRun(o, q)
      PROVE  RunKnowsToken'
  <2>1. [Blank("claimed") EXCEPT !.query = q].at = "claimed" /\ Blank("done").at = "done"
    BY <1>1, BlankTyped DEF Run, RunState
  <2>2. held[o] = 0 /\ (\A p \in Owner \ {o} : held'[p] = held[p])
    BY <1>0, <1>2, <1>4 DEF ClaimRun, Grant, Answered
  <2>3. (held'[o] = 0) <=> (run'[o].at \in {"idle", "done"})
    BY <1>0, <1>4, <2>1 DEF ClaimRun
  <2>4. RunStep(o)
    BY <1>4 DEF RunStep
  <2> QED
    BY <1>3, <2>2, <2>3, <2>4
<1>5. ASSUME NEW o \in Owner, ReadCheckpoint(o)
      PROVE  RunKnowsToken'
  <2> DEFINE q   == run[o].query
             row == IF ckpt[q].made THEN ckpt[q] ELSE FreshRow(now)
  <2>1. q \in Query /\ row \in CheckpointRow
    BY <1>0, FreshRowTyped DEF Run
  <2>2. run'[o] = ResumeFrom(q, row) /\ run[o].at = "claimed" /\ held' = held
    BY <1>0, <1>5 DEF ReadCheckpoint, leaseVars
  <2> HIDE DEF q, row
  <2>3. run'[o].at \notin {"idle", "done"}
    BY <1>0, <2>1, <2>2, Resumed
  <2>4. RunStep(o)
    BY <1>5 DEF RunStep
  <2> QED
    BY <1>2, <1>3, <2>2, <2>3, <2>4
<1>6. ASSUME NEW o \in Owner,
             ReadFails(o) \/ WriteRefused(o) \/ CommitNote(o) \/ StopPaging(o) \/ FetchFails(o)
      PROVE  RunKnowsToken'
  <2>1. Blank("leaving").at = "leaving" /\ Blank("noting").at = "noting"
    BY <1>1 DEF RunState
  <2>2. held' = held /\ run[o].at \notin {"idle", "done"}
    BY <1>6 DEF ReadFails, WriteRefused, CommitNote, CommitLeased, AbortLeased, StopPaging,
                FetchFails, Writing, leaseVars
  <2>3. run'[o].at \notin {"idle", "done"}
    BY <1>0, <1>6, <2>1 DEF ReadFails, WriteRefused, CommitNote, StopPaging, FetchFails
  <2>4. RunStep(o)
    BY <1>6 DEF RunStep
  <2> QED
    BY <1>2, <1>3, <2>2, <2>3, <2>4
<1>7. ASSUME NEW o \in Owner, CommitRestart(o) \/ CommitStart(o) \/ Fetch(o)
      PROVE  RunKnowsToken'
  <2>1. Blank("leaving").at = "leaving" /\ run[o] \in Run
    BY <1>0, <1>1 DEF RunState
  <2>2. \A r \in Run : /\ \A c : [r EXCEPT !.at = "paging", !.cursor = c].at = "paging"
                       /\ \A t : [r EXCEPT !.at = "persisting", !.seenAt = t].at = "persisting"
    BY DEF Run
  <2>3. held' = held /\ run[o].at \notin {"idle", "done"}
    BY <1>7 DEF CommitRestart, CommitStart, Fetch, CommitLeased, leaseVars
  <2>4. run'[o].at \in {"paging", "persisting", "leaving"}
    <3>1. ASSUME NEW c, Written(o, [run[o] EXCEPT !.at = "paging", !.cursor = c])
          PROVE  run'[o].at \in {"paging", "leaving"}
      <4>1. [run[o] EXCEPT !.at = "paging", !.cursor = c].at = "paging"
        BY <2>1, <2>2, Zenon
      <4> QED
        BY <1>0, <2>1, <3>1, <4>1 DEF Written
    <3>2. CASE CommitRestart(o) \/ CommitStart(o)
      BY <3>1, <3>2 DEF CommitRestart, CommitStart
    <3>3. CASE Fetch(o)
      BY <1>0, <2>1, <2>2, <3>3 DEF Fetch
    <3> QED
      BY <1>7, <3>2, <3>3
  <2>5. RunStep(o)
    BY <1>7 DEF RunStep
  <2> QED
    BY <1>2, <1>3, <2>3, <2>4, <2>5
<1>8. ASSUME NEW o \in Owner, NEW listed \in SUBSET Lot, NEW left \in SUBSET listed, NEW ready \in SUBSET left,
             NEW next \in Cursor \cup {NoCursor}, CommitPage(o, listed, left, ready, next)
      PROVE  RunKnowsToken'
  <2>1. Blank("leaving").at = "leaving"
    BY <1>1 DEF RunState
  <2>2. held' = held /\ run[o].at \notin {"idle", "done"}
    BY <1>8 DEF CommitPage, CommitLeased
  <2>3. run'[o].at \in {"paging", "leaving"}
    BY <1>0, <1>8, <2>1 DEF CommitPage, Written
  <2>4. RunStep(o)
    BY <1>8 DEF RunStep
  <2> QED
    BY <1>2, <1>3, <2>2, <2>3, <2>4
<1>9. ASSUME NEW o \in Owner, Leave(o) \/ CrashRun(o)
      PROVE  RunKnowsToken'
  <2>1. Blank("done").at = "done"
    BY <1>1 DEF RunState
  <2>2. held' = [held EXCEPT ![o] = 0] /\ run'[o].at = "done"
    BY <1>0, <1>9, <2>1 DEF Leave, Release, CrashRun, Crash
  <2>3. RunStep(o) \/ CrashRun(o)
    BY <1>9 DEF RunStep
  <2> QED
    BY <1>0, <1>3, <2>2, <2>3
<1>10. ASSUME UNCHANGED <<held, run>>
       PROVE  RunKnowsToken'
  BY <1>2, <1>10
<1>11. ASSUME NEW o \in Owner, BeginWrite(o)
       PROVE  UNCHANGED <<held, run>>
  BY <1>11 DEF BeginWrite, BeginLeased
<1>12. CASE TickStep
  BY <1>10, <1>12 DEF TickStep, TickFindsNoInventory, TickFindsExhausted, TickResets, Reconcile, leaseVars
<1>13. ASSUME NEW l \in Lot, SearchFinds(l) \/ (\E t \in 0 .. now : SearchStores(l, t))
       PROVE  UNCHANGED <<held, run>>
  BY <1>13 DEF SearchFinds, SearchStores, leaseVars
<1>14. CASE Clock \/ UNCHANGED vars
  BY <1>10, <1>14 DEF Clock, Tick, vars, leaseVars
<1> QED
  BY <1>4, <1>5, <1>6, <1>7, <1>8, <1>9, <1>10, <1>11, <1>12, <1>13, <1>14 DEF Next, RunStep

(* An open transaction belongs to a run that is about to write. *)
LEMMA WriterStep == SweepInv /\ [Next]_vars => WriterIsWriting'
<1> SUFFICES ASSUME SweepInv, [Next]_vars
             PROVE  WriterIsWriting'
  OBVIOUS
<1> USE DEF WriterIsWriting, Become, At, SameLots, SameRest
<1>0. /\ run \in [Owner -> Run] /\ txn \in Owner \cup {NoOwner} /\ NoOwner \notin Owner
      /\ WriterIsWriting
  BY LeaseAssumption DEF SweepInv, TypeOK, LeaseTypeOK
<1>1. ASSUME NEW o \in Owner, RunStep(o) \/ CrashRun(o), txn # o, txn' = txn
      PROVE  WriterIsWriting'
  <2>1. run' = [run EXCEPT ![o] = run'[o]]
    BY <1>1, OthersKeepRun DEF SweepInv
  <2> QED
    BY <1>0, <1>1, <2>1
<1>2. ASSUME txn' = NoOwner
      PROVE  WriterIsWriting'
  BY <1>2
<1>3. ASSUME UNCHANGED <<txn, run>>
      PROVE  WriterIsWriting'
  BY <1>0, <1>3
<1>4. ASSUME NEW o \in Owner, NEW q \in Query, ClaimRun(o, q)
      PROVE  WriterIsWriting'
  BY <1>2, <1>4 DEF ClaimRun, RowFree
<1>5. ASSUME NEW o \in Owner,
             ReadCheckpoint(o) \/ ReadFails(o) \/ Fetch(o) \/ FetchFails(o) \/ StopPaging(o)
      PROVE  WriterIsWriting'
  <2>1. run[o].at \notin Writing /\ txn' = txn
    BY <1>5 DEF ReadCheckpoint, ReadFails, Fetch, FetchFails, StopPaging, Writing, leaseVars
  <2>2. txn # o
    BY <1>0, <2>1
  <2>3. RunStep(o)
    BY <1>5 DEF RunStep
  <2> QED
    BY <1>1, <2>1, <2>2, <2>3
<1>6. ASSUME NEW o \in Owner, BeginWrite(o)
      PROVE  WriterIsWriting'
  BY <1>0, <1>6 DEF BeginWrite, BeginLeased
<1>7. ASSUME NEW o \in Owner, WriteRefused(o)
      PROVE  WriterIsWriting'
  <2>1. CASE txn = o
    BY <1>2, <1>7, <2>1 DEF WriteRefused, AbortLeased
  <2>2. CASE txn # o
    BY <1>1, <1>7, <2>2 DEF WriteRefused, RunStep, leaseVars
  <2> QED
    BY <2>1, <2>2
<1>8. ASSUME NEW o \in Owner, CommitRestart(o) \/ CommitStart(o) \/ CommitNote(o)
      PROVE  WriterIsWriting'
  BY <1>2, <1>8 DEF CommitRestart, CommitStart, CommitNote, CommitLeased
<1>9. ASSUME NEW o \in Owner, NEW listed \in SUBSET Lot, NEW left \in SUBSET listed, NEW ready \in SUBSET left,
             NEW next \in Cursor \cup {NoCursor}, CommitPage(o, listed, left, ready, next)
      PROVE  WriterIsWriting'
  BY <1>2, <1>9 DEF CommitPage, CommitLeased
<1>10. ASSUME NEW o \in Owner, Leave(o)
       PROVE  WriterIsWriting'
  BY <1>2, <1>10 DEF Leave, Release, RowFree
<1>11. ASSUME NEW o \in Owner, CrashRun(o)
       PROVE  WriterIsWriting'
  <2>1. CASE txn = o
    BY <1>2, <1>11, <2>1 DEF CrashRun, Crash
  <2>2. CASE txn # o
    BY <1>1, <1>11, <2>2 DEF CrashRun, Crash
  <2> QED
    BY <2>1, <2>2
<1>12. CASE TickStep
  BY <1>3, <1>12 DEF TickStep, TickFindsNoInventory, TickFindsExhausted, TickResets, Reconcile, leaseVars
<1>13. ASSUME NEW l \in Lot, SearchFinds(l) \/ (\E t \in 0 .. now : SearchStores(l, t))
       PROVE  UNCHANGED <<txn, run>>
  BY <1>13 DEF SearchFinds, SearchStores, leaseVars
<1>14. CASE Clock \/ UNCHANGED vars
  BY <1>3, <1>14 DEF Clock, Tick, vars, leaseVars
<1> QED
  BY <1>3, <1>4, <1>5, <1>6, <1>7, <1>8, <1>9, <1>10, <1>11, <1>12, <1>13, <1>14
     DEF Next, RunStep

(* A tick that is resetting rows has been counted. *)
LEMMA CountedStep == SweepInv /\ [Next]_vars => TicksAreCounted'
<1> SUFFICES ASSUME SweepInv, [Next]_vars
             PROVE  TicksAreCounted'
  OBVIOUS
<1> USE DEF TicksAreCounted, SameRest
<1>0. ticks \in Nat /\ TicksAreCounted
  BY SweepAssumption DEF SweepInv, TypeOK
<1>1. ASSUME UNCHANGED <<tick, ticks>>
      PROVE  TicksAreCounted'
  BY <1>0, <1>1
<1>2. ASSUME NEW o \in Owner, RunStep(o) \/ CrashRun(o)
      PROVE  UNCHANGED <<tick, ticks>>
  BY <1>2
     DEF RunStep, ClaimRun, ReadCheckpoint, ReadFails, BeginWrite, WriteRefused,
         CommitRestart, CommitStart, Fetch, FetchFails, CommitNote, CommitPage,
         StopPaging, Leave, CrashRun
<1>3. CASE TickFindsNoInventory
  BY <1>0, <1>3 DEF TickFindsNoInventory
<1>4. CASE TickFindsExhausted
  BY <1>0, <1>4 DEF TickFindsExhausted
<1>5. ASSUME NEW q \in Query, TickResets(q)
      PROVE  TicksAreCounted'
  BY <1>0, <1>5 DEF TickResets
<1>6. ASSUME NEW revived \in SUBSET Lot, NEW cleared \in SUBSET Lot, Reconcile(revived, cleared)
      PROVE  UNCHANGED <<tick, ticks>>
  BY <1>6 DEF Reconcile
<1>7. ASSUME NEW l \in Lot, SearchFinds(l) \/ (\E t \in 0 .. now : SearchStores(l, t))
      PROVE  UNCHANGED <<tick, ticks>>
  BY <1>7 DEF SearchFinds, SearchStores
<1>8. CASE Clock \/ UNCHANGED vars
  BY <1>1, <1>8 DEF Clock, vars
<1> QED
  BY <1>1, <1>2, <1>3, <1>4, <1>5, <1>6, <1>7, <1>8 DEF Next, TickStep

(* While a run owns the lease, no other run's step moves its row. *)
LEMMA OthersKeepRow ==
    ASSUME SweepInv, NEW o \in Owner, RunStep(o) \/ CrashRun(o),
           NEW p \in Owner \ {o}, ticks = 0, Owns(p)'
    PROVE  KnowsRow(p)'
<1> USE DEF Become, At, SameLots, SameRest
<1>0. /\ run \in [Owner -> Run] /\ held \in [Owner -> Nat] /\ lease \in LeaseRow
      /\ ckpt \in [Query -> CheckpointRow]
      /\ NoOwner \notin Owner
  BY LeaseAssumption DEF SweepInv, TypeOK, LeaseTypeOK
<1>1. run'[p] = run[p] /\ run[p].query \in Query
  <2>1. run' = [run EXCEPT ![o] = run'[o]]
    BY OthersKeepRun DEF SweepInv
  <2> QED
    BY <1>0, <2>1 DEF Run
<1>2. ASSUME NEW q \in Query, ClaimRun(o, q)
      PROVE  FALSE
  BY <1>0, <1>2 DEF ClaimRun, Grant, Owns
<1>3. ASSUME CommitLeased(o)
      PROVE  FALSE
  <2>1. lease.owner = o
    BY <1>0, <1>3 DEF CommitLeased, SweepInv, LeaseInv, TransactionKeepsRow
  <2> QED
    BY <1>0, <1>3, <2>1 DEF CommitLeased, Owns, LeaseRow
<1>4. ASSUME Leave(o) \/ CrashRun(o)
      PROVE  Owns(p) /\ ckpt' = ckpt
  <2>1. CASE Leave(o)
    BY <1>0, <2>1 DEF Leave, Release, ClearRow, Owns, LeaseRow
  <2>2. CASE CrashRun(o)
    BY <1>0, <2>2 DEF CrashRun, Crash, Owns
  <2> QED
    BY <1>4, <2>1, <2>2
<1>5. ASSUME ReadFails(o) \/ BeginWrite(o) \/ WriteRefused(o) \/ Fetch(o) \/ FetchFails(o)
               \/ StopPaging(o)
      PROVE  Owns(p) /\ ckpt' = ckpt
  BY <1>5
     DEF ReadFails, BeginWrite, BeginLeased, WriteRefused, AbortLeased, Fetch, FetchFails,
         StopPaging, Owns, leaseVars
<1>6. ASSUME Owns(p), ckpt' = ckpt
      PROVE  KnowsRow(p)'
  <2>1. KnowsRow(p)
    BY <1>6 DEF SweepInv, OwnerKnowsRow
  <2> QED
    BY <1>1, <1>6, <2>1 DEF KnowsRow
<1>7. CASE ReadCheckpoint(o)
  <2>1. Owns(p)
    BY <1>7 DEF ReadCheckpoint, Owns, leaseVars
  <2>2. KnowsRow(p)
    BY <2>1 DEF SweepInv, OwnerKnowsRow
  <2>3. ckpt[run[p].query].made => ckpt'[run[p].query] = ckpt[run[p].query]
    BY <1>0, <1>1, <1>7 DEF ReadCheckpoint
  <2> QED
    BY <1>1, <2>2, <2>3 DEF KnowsRow
<1>8. ASSUME CommitRestart(o) \/ CommitStart(o) \/ CommitNote(o)
      PROVE  CommitLeased(o)
  BY <1>8 DEF CommitRestart, CommitStart, CommitNote
<1>9. ASSUME NEW listed \in SUBSET Lot, NEW left \in SUBSET listed, NEW ready \in SUBSET left,
             NEW next \in Cursor \cup {NoCursor}, CommitPage(o, listed, left, ready, next)
      PROVE  CommitLeased(o)
  BY <1>9 DEF CommitPage
<1> QED
  BY <1>2, <1>3, <1>4, <1>5, <1>6, <1>7, <1>8, <1>9 DEF RunStep

(* ... and its own steps keep to it. *)
LEMMA OwnRow ==
    ASSUME SweepInv, NEW o \in Owner, RunStep(o) \/ CrashRun(o), ticks = 0, Owns(o)'
    PROVE  KnowsRow(o)'
<1> USE DEF Become, At, SameLots, SameRest
<1>0. /\ run \in [Owner -> Run] /\ run[o] \in Run /\ run[o].query \in Query
      /\ lease \in LeaseRow /\ now \in Nat /\ ckpt \in [Query -> CheckpointRow]
      /\ NoOwner \notin Owner
  BY LeaseAssumption DEF SweepInv, TypeOK, LeaseTypeOK, Run
<1>1. ASSUME run'[o].at \notin {"starting", "paging", "persisting"}
      PROVE  KnowsRow(o)'
  BY <1>1 DEF KnowsRow
<1>2. ASSUME NEW state \in {"leaving", "noting", "done"}, run'[o] = Blank(state)
      PROVE  KnowsRow(o)'
  <2>1. Blank(state).at = state
    BY StateOfBlank DEF RunState
  <2> QED
    BY <1>1, <1>2, <2>1
<1>3. ASSUME NEW q \in Query, ClaimRun(o, q)
      PROVE  KnowsRow(o)'
  <2>1. [Blank("claimed") EXCEPT !.query = q].at = "claimed" /\ Blank("done").at = "done"
    BY StateOfBlank, BlankTyped DEF Run, RunState
  <2> QED
    BY <1>0, <1>1, <1>3, <2>1 DEF ClaimRun
<1>4. CASE ReadCheckpoint(o)
  <2> DEFINE q   == run[o].query
             row == IF ckpt[q].made THEN ckpt[q] ELSE FreshRow(now)
  <2>1. row \in CheckpointRow /\ row.made
    BY <1>0, FreshRowTyped DEF FreshRow
  <2>2. run'[o] = ResumeFrom(q, row) /\ ckpt'[q] = row
    BY <1>0, <1>4 DEF ReadCheckpoint
  <2> HIDE DEF row
  <2>3. /\ run'[o].at \in {"leaving", "restarting", "starting", "paging"}
        /\ run'[o].at # "leaving" => run'[o].query = q
        /\ run'[o].at \in {"starting", "paging"} => ~row.exhausted
        /\ run'[o].at = "paging" => row.cursor = run'[o].cursor /\ row.cycle = run'[o].cycle
    BY <1>0, <2>1, <2>2, Resumed
  <2> QED
    BY <2>1, <2>2, <2>3 DEF KnowsRow
<1>5. CASE ReadFails(o) \/ WriteRefused(o) \/ FetchFails(o) \/ CommitNote(o) \/ StopPaging(o)
             \/ Leave(o) \/ CrashRun(o)
  BY <1>0, <1>2, <1>5
     DEF ReadFails, WriteRefused, FetchFails, CommitNote, StopPaging, Leave, CrashRun
<1>6. ASSUME lease.owner = o, held[o] = lease.fence
      PROVE  KnowsRow(o)
  BY <1>6 DEF SweepInv, OwnerKnowsRow, Owns
<1>7. ASSUME CommitLeased(o)
      PROVE  lease.owner = o /\ held[o] = lease.fence
  BY <1>0, <1>7 DEF CommitLeased, SweepInv, LeaseInv, TransactionKeepsRow
<1>8. CASE BeginWrite(o)
  <2>1. lease.owner = o /\ held[o] = lease.fence /\ run' = run /\ ckpt' = ckpt
    BY <1>8 DEF BeginWrite, BeginLeased, VerifyOwnership, Owns
  <2> QED
    BY <1>6, <2>1 DEF KnowsRow
<1>9. CASE CommitRestart(o)
  <2>1. CASE run'[o] = Blank("leaving")
    BY <1>2, <2>1
  <2>2. CASE run'[o] # Blank("leaving")
    <3>1. run'[o] = [run[o] EXCEPT !.at = "paging", !.cursor = NoCursor]
      BY <1>0, <1>9, <2>2 DEF CommitRestart, Written
    <3>2. /\ run'[o].at = "paging" /\ run'[o].query = run[o].query
          /\ run'[o].cursor = NoCursor /\ run'[o].cycle = run[o].cycle
      BY <1>0, <3>1 DEF Run
    <3>3. ckpt'[run[o].query] = FreshRow(run[o].cycle)
      BY <1>0, <1>9 DEF CommitRestart
    <3> QED
      BY <3>2, <3>3 DEF KnowsRow, FreshRow
  <2> QED
    BY <2>1, <2>2
<1>10. CASE CommitStart(o)
  <2> DEFINE q == run[o].query
  <2>1. CASE run'[o] = Blank("leaving")
    BY <1>2, <2>1
  <2>2. CASE run'[o] # Blank("leaving")
    <3>1. run'[o] = [run[o] EXCEPT !.at = "paging", !.cursor = ckpt[q].cursor]
      BY <1>0, <1>10, <2>2 DEF CommitStart, Written
    <3>2. /\ run'[o].at = "paging" /\ run'[o].query = q
          /\ run'[o].cursor = ckpt[q].cursor /\ run'[o].cycle = run[o].cycle
      BY <1>0, <3>1 DEF Run
    <3>3. ckpt'[q] = [ckpt[q] EXCEPT !.cycle = run[o].cycle]
      BY <1>0, <1>10 DEF CommitStart
    <3>4. ckpt[q].made /\ ~ckpt[q].exhausted
      BY <1>6, <1>7, <1>10 DEF CommitStart, KnowsRow
    <3>5. /\ ckpt'[q].made /\ ~ckpt'[q].exhausted
          /\ ckpt'[q].cursor = ckpt[q].cursor /\ ckpt'[q].cycle = run[o].cycle
      BY <1>0, <3>3, <3>4 DEF CheckpointRow
    <3> QED
      BY <3>2, <3>5 DEF KnowsRow
  <2> QED
    BY <2>1, <2>2
<1>11. CASE Fetch(o)
  <2>1. lease.owner = o /\ held[o] = lease.fence /\ ckpt' = ckpt
    BY <1>11 DEF Fetch, Owns, leaseVars
  <2>2. /\ run'[o].at = "persisting" /\ run'[o].query = run[o].query
        /\ run'[o].cursor = run[o].cursor /\ run'[o].cycle = run[o].cycle
    BY <1>0, <1>11 DEF Fetch, Run
  <2>3. run[o].at = "paging" /\ KnowsRow(o)
    BY <1>6, <1>11, <2>1 DEF Fetch
  <2> QED
    BY <2>1, <2>2, <2>3 DEF KnowsRow
<1>12. ASSUME NEW listed \in SUBSET Lot, NEW left \in SUBSET listed, NEW ready \in SUBSET left,
              NEW next \in Cursor \cup {NoCursor}, CommitPage(o, listed, left, ready, next)
       PROVE  KnowsRow(o)'
  <2> DEFINE q == run[o].query
  <2>1. CASE run'[o] = Blank("leaving")
    BY <1>2, <2>1
  <2>2. CASE run'[o] # Blank("leaving")
    <3>1. /\ next # NoCursor
          /\ run'[o] = [at |-> "paging", query |-> q, cursor |-> next,
                        cycle |-> run[o].cycle, seenAt |-> Never, pages |-> run[o].pages + 1]
      BY <1>0, <1>12, <2>2 DEF CommitPage, Written
    <3>2. /\ ckpt'[q].made /\ ~ckpt'[q].exhausted
          /\ ckpt'[q].cursor = next /\ ckpt'[q].cycle = ckpt[q].cycle
      BY <1>0, <1>12, <3>1 DEF CommitPage
    <3>3. ckpt[q].cycle = run[o].cycle
      BY <1>6, <1>7, <1>12 DEF CommitPage, KnowsRow
    <3>4. /\ run'[o].query = q /\ run'[o].at = "paging"
          /\ run'[o].cursor = next /\ run'[o].cycle = run[o].cycle
      BY <3>1
    <3> QED
      BY <3>2, <3>3, <3>4 DEF KnowsRow
  <2> QED
    BY <2>1, <2>2
<1> QED
  BY <1>3, <1>4, <1>5, <1>8, <1>9, <1>10, <1>11, <1>12 DEF RunStep

(* Hence no step but a tick's reset parts a run from its row. *)
LEMMA RowStep == SweepInv /\ [Next]_vars => OwnerKnowsRow'
<1> SUFFICES ASSUME SweepInv, [Next]_vars, NEW p \in Owner, ticks' = 0, Owns(p)'
             PROVE  KnowsRow(p)'
  BY DEF OwnerKnowsRow
<1> USE DEF SameLots, SameRest
<1>0. ticks \in Nat
  BY SweepAssumption DEF SweepInv, TypeOK
<1>1. ASSUME UNCHANGED <<lease, held, ckpt, run, ticks>>
      PROVE  KnowsRow(p)'
  <2>1. KnowsRow(p)
    BY <1>1 DEF SweepInv, OwnerKnowsRow, Owns
  <2> QED
    BY <1>1, <2>1 DEF KnowsRow
<1>2. ASSUME NEW o \in Owner, RunStep(o) \/ CrashRun(o)
      PROVE  KnowsRow(p)'
  <2>1. ticks' = ticks
    BY <1>2
       DEF RunStep, ClaimRun, ReadCheckpoint, ReadFails, BeginWrite, WriteRefused,
           CommitRestart, CommitStart, Fetch, FetchFails, CommitNote, CommitPage,
           StopPaging, Leave, CrashRun
  <2> QED
    BY <1>2, <2>1, OthersKeepRow, OwnRow
<1>3. ~TickFindsNoInventory
  BY <1>0 DEF TickFindsNoInventory
<1>4. ASSUME NEW q \in Query
      PROVE  ~TickResets(q)
  BY DEF TickResets, SweepInv, TicksAreCounted
<1>5. CASE TickFindsExhausted
  BY <1>1, <1>5 DEF TickFindsExhausted, leaseVars
<1>6. ASSUME NEW revived \in SUBSET Lot, NEW cleared \in SUBSET Lot, Reconcile(revived, cleared)
      PROVE  KnowsRow(p)'
  BY <1>1, <1>6 DEF Reconcile, leaseVars
<1>7. ASSUME NEW l \in Lot, SearchFinds(l) \/ (\E t \in 0 .. now : SearchStores(l, t))
      PROVE  KnowsRow(p)'
  BY <1>1, <1>7 DEF SearchFinds, SearchStores, leaseVars
<1>8. CASE Clock \/ UNCHANGED vars
  BY <1>1, <1>8 DEF Clock, Tick, vars, leaseVars
<1> QED
  BY <1>2, <1>3, <1>4, <1>5, <1>6, <1>7, <1>8 DEF Next, TickStep

(* The inductive invariant of the sweep. *)
THEOREM SweepInvariant == Spec => []SweepInv
<1>1. Init => RunKnowsToken /\ WriterIsWriting /\ TicksAreCounted /\ OwnerKnowsRow
  <2> SUFFICES ASSUME Init
               PROVE  RunKnowsToken /\ WriterIsWriting /\ TicksAreCounted /\ OwnerKnowsRow
    OBVIOUS
  <2>1. Blank("idle").at = "idle"
    BY StateOfBlank DEF RunState
  <2> QED
    BY <2>1, LeaseAssumption
       DEF Init, LeaseInit, RunKnowsToken, WriterIsWriting, TicksAreCounted, OwnerKnowsRow,
           KnowsRow, NoTick
<1>2. LeaseInv /\ TypeOK /\ RunKnowsToken /\ WriterIsWriting /\ TicksAreCounted
        /\ OwnerKnowsRow => SweepInv
  BY DEF SweepInv
<1>3. SweepInv /\ [Next]_vars
        => RunKnowsToken' /\ WriterIsWriting' /\ TicksAreCounted' /\ OwnerKnowsRow'
  BY TokenStep, WriterStep, CountedStep, RowStep
<1> QED
  BY <1>1, <1>2, <1>3, SweepLeaseInvariant, SweepTyped, PTL DEF Spec

(* As long as no recovery tick interferes, every page is written to the    *)
(* position it was fetched from, for any number of runs and queries.       *)
THEOREM PagesFollowCheckpoints == Spec => []PageFollowsCheckpoint
<1>1. SweepInv => PageFollowsCheckpoint
  BY LeaseAssumption
     DEF SweepInv, LeaseInv, TransactionKeepsRow, OwnerKnowsRow, KnowsRow, Owns, At,
         PageFollowsCheckpoint
<1> QED
  BY <1>1, SweepInvariant, PTL

-----------------------------------------------------------------------------
(* The misses.  A step that touches neither rows, lots nor ticks keeps the *)
(* sweeps in order, if it leaves them so for its own run and gives the     *)
(* lease to nobody else.                                                   *)
LEMMA OrderKept ==
    ASSUME MissInv, UNCHANGED <<now, ckpt, sweep, seen, misses, tick, ticks>>,
           NEW o \in Owner, run' = [run EXCEPT ![o] = run'[o]],
           run'[o].cycle <= now,
           Owns(o)' => InOrder(o)',
           \A p \in Owner \ {o} : Owns(p)' => Owns(p)
    PROVE  SweepsAreInOrder'
<1>0. run \in [Owner -> Run]
  BY DEF MissInv, SweepInv, TypeOK
<1>1. TimesArePast'
  BY <1>0 DEF MissInv, SweepsAreInOrder, TimesArePast
<1>2. RowsAreInOrder'
  BY DEF MissInv, SweepsAreInOrder, RowsAreInOrder, CycleBegan
<1>3. ASSUME NEW p \in Owner, Owns(p)'
      PROVE  InOrder(p)'
  <2>1. CASE p # o
    <3>1. InOrder(p) /\ run'[p] = run[p]
      BY <1>0, <1>3, <2>1 DEF MissInv, SweepsAreInOrder, OwnersAreInOrder
    <3> QED
      BY <3>1 DEF InOrder, CycleBegan, At
  <2> QED
    BY <1>3, <2>1
<1>4. ListedAreSeen' /\ MissesTakeCycles'
  BY DEF MissInv, SweepsAreInOrder, ListedAreSeen, MissesTakeCycles, NextCycle
<1> QED
  BY <1>1, <1>2, <1>3, <1>4 DEF SweepsAreInOrder, OwnersAreInOrder

(* Those are the steps of a run but its writes and its reading of a row.   *)
LEMMA QuietStepOrder ==
    ASSUME MissInv, NEW o \in Owner,
           \/ \E q \in Query : ClaimRun(o, q)
           \/ ReadFails(o) \/ BeginWrite(o) \/ WriteRefused(o) \/ Fetch(o) \/ FetchFails(o)
           \/ CommitNote(o) \/ StopPaging(o) \/ Leave(o) \/ CrashRun(o)
    PROVE  SweepsAreInOrder'
<1> USE DEF Become, At, SameLots, SameRest
<1>0. /\ run \in [Owner -> Run] /\ run[o] \in Run /\ held \in [Owner -> Nat] /\ lease \in LeaseRow
      /\ now \in Nat /\ NoOwner \notin Owner
  BY LeaseAssumption DEF MissInv, SweepInv, TypeOK, LeaseTypeOK
<1>1. RunStep(o) \/ CrashRun(o)
  BY DEF RunStep
<1>2. run' = [run EXCEPT ![o] = run'[o]]
  BY <1>1, OthersKeepRun DEF MissInv, SweepInv
<1>3. UNCHANGED <<now, ckpt, sweep, seen, misses, tick, ticks>>
  BY DEF ClaimRun, ReadFails, BeginWrite, BeginLeased, WriteRefused, AbortLeased, Fetch, FetchFails,
         CommitNote, CommitLeased, StopPaging, Leave, Release, CrashRun, Crash, leaseVars, lotVars
<1>4. ASSUME NEW p \in Owner \ {o}, Owns(p)'
      PROVE  Owns(p)
  <2>1. CASE \E q \in Query : ClaimRun(o, q)
    BY <1>0, <1>4, <2>1 DEF ClaimRun, Grant, Answered, Owns, LeaseRow
  <2>2. CASE ReadFails(o) \/ BeginWrite(o) \/ WriteRefused(o) \/ Fetch(o) \/ FetchFails(o)
               \/ StopPaging(o) \/ CommitNote(o)
    BY <1>0, <1>4, <2>2 DEF ReadFails, BeginWrite, BeginLeased, WriteRefused, AbortLeased, Fetch, FetchFails,
         CommitNote, CommitLeased, StopPaging, leaseVars, Owns, LeaseRow
  <2>3. CASE Leave(o)
    BY <1>0, <1>4, <2>3 DEF Leave, Release, ClearRow, Owns, LeaseRow
  <2>4. CASE CrashRun(o)
    BY <1>0, <1>4, <2>4 DEF CrashRun, Crash, Owns
  <2> QED
    BY <2>1, <2>2, <2>3, <2>4
<1>5. ASSUME NEW state \in {"claimed", "leaving", "noting", "done"},
             run'[o].at = state, run'[o].cycle = Never
      PROVE  run'[o].cycle <= now /\ InOrder(o)'
  BY <1>0, <1>5 DEF InOrder, Never
<1>6. \A state \in RunState : Blank(state) \in Run /\ Blank(state).at = state /\ Blank(state).cycle = Never
  BY BlankTyped DEF Blank
<1>7. CASE \E q \in Query : ClaimRun(o, q)
  <2>1. PICK q \in Query : ClaimRun(o, q)
    BY <1>7
  <2>2. Blank("claimed") \in Run /\ Blank("claimed").at = "claimed" /\ Blank("claimed").cycle = Never
    BY <1>6 DEF RunState
  <2>3. /\ [Blank("claimed") EXCEPT !.query = q].at = "claimed"
        /\ [Blank("claimed") EXCEPT !.query = q].cycle = Never
    BY <2>2 DEF Run
  <2>4. Blank("done").at = "done" /\ Blank("done").cycle = Never
    BY <1>6 DEF RunState
  <2>5. run'[o] \in {[Blank("claimed") EXCEPT !.query = q], Blank("done")}
    BY <1>0, <2>1 DEF ClaimRun
  <2> QED
    BY <1>2, <1>3, <1>4, <1>5, <2>3, <2>4, <2>5, OrderKept
<1>8. CASE ReadFails(o) \/ WriteRefused(o) \/ FetchFails(o) \/ CommitNote(o) \/ StopPaging(o)
             \/ Leave(o) \/ CrashRun(o)
  <2>1. PICK state \in {"leaving", "noting", "done"} : run'[o] = Blank(state)
    BY <1>0, <1>8 DEF ReadFails, WriteRefused, FetchFails, CommitNote, StopPaging, Leave, CrashRun
  <2>2. run'[o].at = state /\ run'[o].cycle = Never
    BY <1>6, <2>1 DEF RunState
  <2> QED
    BY <1>2, <1>3, <1>4, <1>5, <2>2, OrderKept
<1>9. run[o].cycle <= now
  BY DEF MissInv, SweepsAreInOrder, TimesArePast
<1>10. CASE BeginWrite(o)
  <2>1. Owns(o) /\ run' = run
    BY <1>10 DEF BeginWrite, BeginLeased, VerifyOwnership, Owns
  <2>2. InOrder(o)
    BY <2>1 DEF MissInv, SweepsAreInOrder, OwnersAreInOrder
  <2>3. InOrder(o)'
    BY <1>3, <2>1, <2>2 DEF InOrder, CycleBegan
  <2> QED
    BY <1>2, <1>3, <1>4, <1>9, <2>1, <2>3, OrderKept
<1>11. CASE Fetch(o)
  <2>1. /\ run'[o].at = "persisting" /\ run'[o].seenAt = now /\ run'[o].query = run[o].query
        /\ run'[o].cursor = run[o].cursor /\ run'[o].cycle = run[o].cycle
    BY <1>0, <1>11 DEF Fetch, Run
  <2>2. ASSUME Owns(o)'
        PROVE  InOrder(o)'
    <3> DEFINE q == run[o].query
               began == CycleBegan(q) \cup {run[o].cycle}
    <3>1. Owns(o) /\ run[o].at = "paging"
      BY <1>11, <2>2 DEF Fetch, leaseVars, Owns
    <3>2. InOrder(o)
      BY <3>1 DEF MissInv, SweepsAreInOrder, OwnersAreInOrder
    <3>3. q \in Query
      BY <1>0 DEF Run
    <3>4. \A t \in began : t <= now
      <4>1. ckpt[q].cycle <= now /\ run[o].cycle <= now
        BY <3>3 DEF MissInv, SweepsAreInOrder, TimesArePast
      <4>2. q \in tick.todo => tick.now <= now
        BY <1>0 DEF MissInv, SweepsAreInOrder, TimesArePast, NoTick
      <4> QED
        BY <4>1, <4>2 DEF CycleBegan
    <3>5. \A r \in Query : sweep[r].since <= now
      BY DEF MissInv, SweepsAreInOrder, TimesArePast
    <3> QED
      BY <1>0, <1>3, <2>1, <3>1, <3>2, <3>4, <3>5 DEF InOrder, CycleBegan
  <2> QED
    BY <1>2, <1>3, <1>4, <1>9, <2>1, <2>2, OrderKept
<1> QED
  BY <1>7, <1>8, <1>10, <1>11

(* Reading makes a row that was missing, and takes a run up at its row.    *)
LEMMA ReadStepOrder ==
    ASSUME MissInv, NEW o \in Owner, ReadCheckpoint(o)
    PROVE  SweepsAreInOrder'
<1> USE DEF Become, At, SameLots, SameRest
<1> DEFINE q == run[o].query
           row == IF ckpt[q].made THEN ckpt[q] ELSE FreshRow(now)
<1>0. /\ run \in [Owner -> Run] /\ run[o] \in Run /\ q \in Query /\ held \in [Owner -> Nat]
      /\ now \in Nat /\ ckpt \in [Query -> CheckpointRow] /\ misses \in [Lot -> Nat]
      /\ seen \in [Lot -> Int]
  BY DEF MissInv, SweepInv, TypeOK, LeaseTypeOK, Run
<1>1. ckpt' = [ckpt EXCEPT ![q] = row] /\ run' = [run EXCEPT ![o] = ResumeFrom(q, row)]
  BY DEF ReadCheckpoint
<1>2. UNCHANGED <<now, lease, held, sweep, seen, misses, tick, ticks>>
  BY DEF ReadCheckpoint, leaseVars, lotVars
<1>3. row \in CheckpointRow /\ row.made /\ row.cycle <= now
      /\ (row.exhausted \/ row.cycle = Never => row.cursor = NoCursor)
  <2>1. CASE ckpt[q].made
    BY <1>0, <2>1 DEF MissInv, SweepsAreInOrder, TimesArePast, RowsAreInOrder
  <2>2. CASE ~ckpt[q].made
    BY <1>0, <2>2, FreshRowTyped DEF FreshRow
  <2> QED
    BY <2>1, <2>2
<1>4. q \notin Partition /\ row.cursor # NoCursor
        => ckpt[q].made /\ row = ckpt[q] /\ \A t \in CycleBegan(q) : sweep[q].since >= t
  BY <1>0 DEF MissInv, SweepsAreInOrder, RowsAreInOrder, FreshRow
<1>5. /\ ckpt'[q] = row
      /\ \A r \in Query \ {q} : ckpt'[r] = ckpt[r]
      /\ \A r \in Query : ckpt[r].made => ckpt'[r] = ckpt[r]
  BY <1>0, <1>1
<1>6. /\ run'[o] = ResumeFrom(q, row)
      /\ \A p \in Owner \ {o} : run'[p] = run[p]
  BY <1>0, <1>1
<1>7. /\ run'[o].at \in {"leaving", "restarting", "starting", "paging"}
      /\ run'[o].at # "leaving" => run'[o].query = q
      /\ run'[o].at \in {"starting", "paging"} => ~row.exhausted
      /\ run'[o].at = "paging" => run'[o].cursor = row.cursor /\ run'[o].cycle = row.cycle /\ row.cycle # Never
      /\ run'[o].at = "starting" => run'[o].cycle = now /\ row.cycle = Never
      /\ run'[o].at = "restarting" => run'[o].cycle = now /\ row.exhausted /\ row.dueAt <= now
      /\ run'[o].at = "leaving" => run'[o].cycle = Never
  BY <1>0, <1>3, <1>6, Resumed
<1> HIDE DEF row
<1>8. TimesArePast'
  <2>1. run'[o].cycle <= now
    BY <1>0, <1>3, <1>7 DEF Never
  <2> QED
    BY <1>2, <1>3, <1>5, <1>6, <2>1 DEF MissInv, SweepsAreInOrder, TimesArePast
<1>9. tick' = tick /\ sweep' = sweep
  BY <1>2
<1>10. ASSUME NEW r \in Query, ckpt'[r] = ckpt[r]
       PROVE  CycleBegan(r)' = CycleBegan(r)
  BY <1>9, <1>10 DEF CycleBegan
<1>11. RowsAreInOrder'
  <2>1. ASSUME NEW r \in Query
        PROVE  /\ ckpt'[r].made \/ ckpt'[r] = NoRow
               /\ ckpt'[r].exhausted \/ ckpt'[r].cycle = Never => ckpt'[r].cursor = NoCursor
    BY <1>0, <1>3, <1>5 DEF MissInv, SweepsAreInOrder, RowsAreInOrder
  <2>2. SUFFICES ASSUME NEW r \in Query, r \notin Partition, ckpt'[r].cursor # NoCursor,
                        NEW t \in CycleBegan(r)'
                 PROVE  sweep[r].since >= t
    BY <1>9, <2>1 DEF RowsAreInOrder
  <2>3. ckpt'[r] = ckpt[r]
    <3>1. CASE r = q
      BY <1>0, <1>4, <1>5, <2>2, <3>1
    <3> QED
      BY <1>5, <3>1
  <2>4. t \in CycleBegan(r)
    BY <1>10, <2>3
  <2> QED
    BY <2>2, <2>3, <2>4 DEF MissInv, SweepsAreInOrder, RowsAreInOrder
<1>12. ASSUME NEW p \in Owner, Owns(p)'
       PROVE  InOrder(p)'
  <2>1. Owns(p) /\ InOrder(p)
    BY <1>2, <1>12 DEF Owns, MissInv, SweepsAreInOrder, OwnersAreInOrder
  <2>2. CASE p # o
    <3>1. run'[p] = run[p] /\ run[p].query \in Query
      BY <1>0, <1>6, <2>2 DEF Run
    <3>2. CASE ckpt[run[p].query].made
      <4>1. ckpt'[run[p].query] = ckpt[run[p].query] /\ CycleBegan(run[p].query)' = CycleBegan(run[p].query)
        BY <1>2, <1>5, <3>1, <3>2 DEF CycleBegan
      <4> QED
        BY <1>2, <2>1, <3>1, <4>1 DEF InOrder
    <3>3. CASE ~ckpt[run[p].query].made
      <4>1. ~ckpt[run[p].query].exhausted
        BY <3>1, <3>3 DEF MissInv, SweepsAreInOrder, RowsAreInOrder, NoRow
      <4> QED
        BY <1>2, <2>1, <3>1, <3>3, <4>1 DEF InOrder
    <3> QED
      BY <3>2, <3>3
  <2>3. CASE p = o
    <3>1. CASE run'[o].at = "leaving"
      BY <2>3, <3>1 DEF InOrder
    <3>2. CASE run'[o].at = "restarting"
      BY <1>0, <1>5, <1>7, <2>3, <3>2 DEF InOrder, Never
    <3>3. CASE run'[o].at = "starting"
      BY <1>0, <1>3, <1>5, <1>7, <2>3, <3>3 DEF InOrder, Never
    <3>4. CASE run'[o].at = "paging"
      BY <1>2, <1>3, <1>4, <1>5, <1>7, <2>3, <3>4 DEF InOrder, CycleBegan
    <3> QED
      BY <1>7, <3>1, <3>2, <3>3, <3>4
  <2> QED
    BY <2>2, <2>3
<1>13. ListedAreSeen'
  BY <1>2 DEF MissInv, SweepsAreInOrder, ListedAreSeen
<1>14. MissesTakeCycles'
  <2> SUFFICES ASSUME ticks = 0, NEW r \in Query, Query \ Partition = {r}, NEW l \in Lot, misses[l] > 0
               PROVE  NextCycle(r)' > seen[l] + CycleGap * misses[l]
    BY <1>2 DEF MissesTakeCycles
  <2>1. NextCycle(r) > seen[l] + CycleGap * misses[l]
    BY DEF MissInv, SweepsAreInOrder, MissesTakeCycles
  <2>2. CASE ckpt[r].made
    BY <1>5, <2>1, <2>2 DEF NextCycle
  <2>3. CASE ~ckpt[r].made
    <3>1. ~ckpt[r].exhausted /\ ckpt[r].cycle = Never
      BY <2>3 DEF MissInv, SweepsAreInOrder, RowsAreInOrder, NoRow
    <3>2. seen[l] >= 0 /\ seen[l] \in Int /\ CycleGap \in Nat /\ misses[l] \in Nat
      BY <1>0, SweepAssumption DEF MissInv, SweepsAreInOrder, TimesArePast
    <3>3. CycleGap * misses[l] >= 0 /\ CycleGap * misses[l] \in Int
      BY <3>2
    <3> QED
      BY <2>1, <3>1, <3>2, <3>3 DEF NextCycle, Never
  <2> QED
    BY <2>2, <2>3
<1> QED
  BY <1>8, <1>11, <1>12, <1>13, <1>14 DEF SweepsAreInOrder, OwnersAreInOrder

(* A run that commits owns the lease, and alone.                           *)
LEMMA CommitterOwns ==
    ASSUME MissInv, NEW o \in Owner, CommitLeased(o)
    PROVE  /\ Owns(o) /\ InOrder(o)
           /\ \A p \in Owner : Owns(p)' => p = o
           /\ now' = now
<1>1. lease \in LeaseRow /\ NoOwner \notin Owner
  BY LeaseAssumption DEF MissInv, SweepInv, TypeOK, LeaseTypeOK
<1>2. Owns(o)
  BY <1>1 DEF MissInv, SweepInv, LeaseInv, TransactionKeepsRow, CommitLeased, Owns
<1> QED
  BY <1>1, <1>2 DEF CommitLeased, Owns, LeaseRow, MissInv, SweepsAreInOrder, OwnersAreInOrder

(* A new cycle, or the first that is recorded, begins without a cursor.    *)
LEMMA CycleStepOrder ==
    ASSUME MissInv, NEW o \in Owner, CommitRestart(o) \/ CommitStart(o)
    PROVE  SweepsAreInOrder'
<1> USE DEF Become, At, SameLots, SameRest
<1> DEFINE q == run[o].query
<1>0. /\ run \in [Owner -> Run] /\ run[o] \in Run /\ q \in Query
      /\ now \in Nat /\ ckpt \in [Query -> CheckpointRow] /\ misses \in [Lot -> Nat]
      /\ seen \in [Lot -> Int]
  BY DEF MissInv, SweepInv, TypeOK, LeaseTypeOK, Run
<1>1. CommitLeased(o) /\ UNCHANGED <<sweep, seen, misses, tick, ticks>>
  BY DEF CommitRestart, CommitStart, lotVars
<1>2. InOrder(o) /\ now' = now /\ \A p \in Owner : Owns(p)' => p = o
  BY <1>1, CommitterOwns
<1>3. /\ ckpt'[q].made /\ ~ckpt'[q].exhausted /\ ckpt'[q].cursor = NoCursor
      /\ ckpt'[q].cycle = run[o].cycle /\ run[o].cycle # Never /\ run[o].cycle <= now
      /\ \A r \in Query \ {q} : ckpt'[r] = ckpt[r]
      /\ ticks = 0 => (IF ckpt[q].exhausted THEN ckpt[q].dueAt ELSE ckpt[q].cycle) <= run[o].cycle
  <2>1. run[o].cycle <= now
    BY DEF MissInv, SweepsAreInOrder, TimesArePast
  <2>2. CASE CommitRestart(o)
    BY <1>0, <1>2, <2>1, <2>2 DEF CommitRestart, InOrder, FreshRow
  <2>3. CASE CommitStart(o)
    <3>1. ckpt' = [ckpt EXCEPT ![q] = [ckpt[q] EXCEPT !.cycle = run[o].cycle]]
      BY <1>0, <2>3 DEF CommitStart
    <3>2. ckpt'[q] = [ckpt[q] EXCEPT !.cycle = run[o].cycle]
      BY <1>0, <3>1
    <3>3. /\ ckpt'[q].made = ckpt[q].made /\ ckpt'[q].exhausted = ckpt[q].exhausted
          /\ ckpt'[q].cursor = ckpt[q].cursor /\ ckpt'[q].cycle = run[o].cycle
      BY <1>0, <3>2 DEF CheckpointRow
    <3> QED
      BY <1>0, <1>2, <2>1, <2>3, <3>1, <3>3 DEF CommitStart, InOrder
  <2> QED
    BY <2>2, <2>3
<1>4. /\ \A p \in Owner \ {o} : run'[p] = run[p]
      /\ run'[o].cycle \in {run[o].cycle, Never}
      /\ \/ run'[o].at = "leaving"
         \/ run'[o].at = "paging" /\ run'[o].query = q /\ run'[o].cursor = NoCursor
  <2>1. \A p \in Owner \ {o} : run'[p] = run[p]
    BY <1>0 DEF CommitRestart, CommitStart, Written
  <2>2. CASE run'[o] = Blank("leaving")
    BY <2>1, <2>2 DEF Blank
  <2>3. CASE run'[o] = [run[o] EXCEPT !.at = "paging", !.cursor = NoCursor]
    BY <1>0, <2>1, <2>3 DEF Run
  <2>4. CommitRestart(o) => run'[o] \in {Blank("leaving"), [run[o] EXCEPT !.at = "paging", !.cursor = NoCursor]}
    BY <1>0 DEF CommitRestart, Written
  <2>5. CommitStart(o) => run'[o] \in {Blank("leaving"), [run[o] EXCEPT !.at = "paging", !.cursor = ckpt[q].cursor]}
    BY <1>0 DEF CommitStart, Written
  <2>6. CommitStart(o) => ckpt[q].cursor = NoCursor
    BY <1>2 DEF CommitStart, InOrder
  <2> QED
    BY <2>2, <2>3, <2>4, <2>5, <2>6
<1>5. TimesArePast'
  BY <1>0, <1>1, <1>2, <1>3, <1>4 DEF MissInv, SweepsAreInOrder, TimesArePast, Never
<1>6. RowsAreInOrder'
  BY <1>1, <1>3 DEF MissInv, SweepsAreInOrder, RowsAreInOrder, CycleBegan
<1>7. OwnersAreInOrder'
  <2>1. InOrder(o)'
    BY <1>3, <1>4 DEF InOrder
  <2> QED
    BY <1>2, <2>1 DEF OwnersAreInOrder
<1>8. ListedAreSeen'
  BY <1>1 DEF MissInv, SweepsAreInOrder, ListedAreSeen
<1>9. MissesTakeCycles'
  <2> SUFFICES ASSUME ticks = 0, NEW r \in Query, Query \ Partition = {r}, NEW l \in Lot, misses[l] > 0
               PROVE  NextCycle(r)' > seen[l] + CycleGap * misses[l]
    BY <1>1 DEF MissesTakeCycles
  <2>1. NextCycle(r) > seen[l] + CycleGap * misses[l]
    BY DEF MissInv, SweepsAreInOrder, MissesTakeCycles
  <2>2. seen[l] + CycleGap * misses[l] \in Int
    BY <1>0, SweepAssumption
  <2>3. NextCycle(r) \in Int /\ NextCycle(r)' >= NextCycle(r) /\ NextCycle(r)' \in Int
    BY <1>0, <1>3 DEF NextCycle, CheckpointRow, Run
  <2> QED
    BY <2>1, <2>2, <2>3
<1> QED
  BY <1>5, <1>6, <1>7, <1>8, <1>9 DEF SweepsAreInOrder

(* What a page that is committed does to its row and to its sweep.         *)
LEMMA PageCommitted ==
    ASSUME MissInv, NEW o \in Owner, NEW listed \in SUBSET Lot, NEW left \in SUBSET listed,
           NEW ready \in SUBSET left, NEW next \in Cursor \cup {NoCursor},
           CommitPage(o, listed, left, ready, next)
    PROVE  LET q == run[o].query
               t == run[o].seenAt
               began == CycleBegan(q) \cup {run[o].cycle}
           IN  /\ q \in Query /\ ~ckpt[q].exhausted /\ ckpt[q].cycle # Never
               /\ t \in 0 .. now /\ run[o].cycle \in Int
               /\ \A u \in began \cup {sweep[r].since : r \in Query} : t >= u
               /\ \A r \in Query \ {q} : ckpt'[r] = ckpt[r] /\ sweep'[r] = sweep[r]
               /\ ckpt'[q] = [made |-> TRUE, cursor |-> next, cycle |-> ckpt[q].cycle,
                              exhausted |-> next = NoCursor,
                              dueAt |-> IF next = NoCursor THEN t + CycleGap ELSE 0]
               /\ sweep'[q] = Covered(o, listed)
               /\ q \notin Partition => \A u \in began : sweep'[q].since >= u
<1> DEFINE q == run[o].query
           t == run[o].seenAt
           began == CycleBegan(q) \cup {run[o].cycle}
<1>0. /\ run \in [Owner -> Run] /\ run[o] \in Run /\ q \in Query /\ ckpt \in [Query -> CheckpointRow]
      /\ sweep \in [Query -> [since : Int, listed : SUBSET Lot]]
  BY DEF MissInv, SweepInv, TypeOK, Run
<1>1. At(o, "persisting") /\ InOrder(o)
  BY CommitterOwns DEF CommitPage
<1>2. /\ ~ckpt[q].exhausted /\ ckpt[q].cycle # Never
      /\ q \notin Partition /\ run[o].cursor # NoCursor => \A u \in began : sweep[q].since >= u
      /\ t \in 0 .. now
      /\ \A u \in began \cup {sweep[r].since : r \in Query} : t >= u
  BY <1>1 DEF InOrder, At
<1>3. /\ ckpt' = [ckpt EXCEPT ![q] = [made |-> TRUE, cursor |-> next, cycle |-> ckpt[q].cycle,
                              exhausted |-> next = NoCursor,
                              dueAt |-> IF next = NoCursor THEN t + CycleGap ELSE 0]]
      /\ sweep' = [sweep EXCEPT ![q] = Covered(o, listed)]
  BY DEF CommitPage
<1>4. /\ \A r \in Query \ {q} : ckpt'[r] = ckpt[r] /\ sweep'[r] = sweep[r]
      /\ ckpt'[q] = [made |-> TRUE, cursor |-> next, cycle |-> ckpt[q].cycle,
                              exhausted |-> next = NoCursor,
                              dueAt |-> IF next = NoCursor THEN t + CycleGap ELSE 0]
      /\ sweep'[q] = Covered(o, listed)
  BY <1>0, <1>3
<1>5. q \notin Partition => \A u \in began : sweep'[q].since >= u
  <2>1. q \notin Partition => sweep'[q].since = IF run[o].cursor = NoCursor THEN t ELSE sweep[q].since
    BY <1>4 DEF Covered
  <2> QED
    BY <1>2, <2>1
<1>6. run[o].cycle \in Int
  BY <1>0 DEF Run
<1> QED
  BY <1>0, <1>2, <1>4, <1>5, <1>6

(* The lots of the page are seen when it was, which is no earlier than any *)
(* sweep began; the misses of the last page come a whole cycle later.      *)
LEMMA PageStepOrder ==
    ASSUME MissInv, NEW o \in Owner, NEW listed \in SUBSET Lot, NEW left \in SUBSET listed,
           NEW ready \in SUBSET left, NEW next \in Cursor \cup {NoCursor},
           CommitPage(o, listed, left, ready, next)
    PROVE  SweepsAreInOrder'
<1> DEFINE q == run[o].query
           t == run[o].seenAt
           began == CycleBegan(q) \cup {run[o].cycle}
<1>0. /\ run \in [Owner -> Run] /\ run[o] \in Run /\ ckpt \in [Query -> CheckpointRow]
      /\ sweep \in [Query -> [since : Int, listed : SUBSET Lot]]
      /\ now \in Nat /\ misses \in [Lot -> Nat] /\ seen \in [Lot -> Int]
  BY DEF MissInv, SweepInv, TypeOK, LeaseTypeOK
<1>1. /\ q \in Query /\ ~ckpt[q].exhausted /\ ckpt[q].cycle # Never
      /\ t \in 0 .. now /\ run[o].cycle \in Int
      /\ \A u \in began : t >= u
      /\ \A r \in Query : t >= sweep[r].since
      /\ \A r \in Query \ {q} : ckpt'[r] = ckpt[r] /\ sweep'[r] = sweep[r]
      /\ sweep'[q] = Covered(o, listed)
      /\ q \notin Partition => \A u \in began : sweep'[q].since >= u
  BY PageCommitted
<1>2. /\ ckpt'[q].made /\ ckpt'[q].cursor = next /\ ckpt'[q].cycle = ckpt[q].cycle
      /\ ckpt'[q].exhausted = (next = NoCursor)
      /\ next = NoCursor => ckpt'[q].dueAt = t + CycleGap
  <2>1. ckpt'[q] = [made |-> TRUE, cursor |-> next, cycle |-> ckpt[q].cycle,
                    exhausted |-> next = NoCursor,
                    dueAt |-> IF next = NoCursor THEN t + CycleGap ELSE 0]
    BY PageCommitted
  <2> QED
    BY <2>1
<1>3. /\ UNCHANGED <<tick, ticks>> /\ CommitLeased(o)
      /\ seen' = [l \in Lot |-> IF l \in listed THEN t ELSE seen[l]]
      /\ misses' = [l \in Lot |-> IF l \in listed THEN 0
                                  ELSE IF l \in Missed(o, next) THEN misses[l] + 1
                                  ELSE misses[l]]
  BY DEF CommitPage, SameRest
<1>4. now' = now /\ \A p \in Owner : Owns(p)' => p = o
  BY <1>3, CommitterOwns
<1>5. /\ \A p \in Owner \ {o} : run'[p] = run[p]
      /\ run'[o].cycle \in {run[o].cycle, Never}
      /\ \/ run'[o].at = "leaving"
         \/ /\ next # NoCursor
            /\ run'[o].at = "paging" /\ run'[o].query = q /\ run'[o].cursor = next
            /\ run'[o].cycle = run[o].cycle
  <2> DEFINE paged == IF next = NoCursor THEN Blank("leaving")
                      ELSE [at |-> "paging", query |-> q, cursor |-> next,
                            cycle |-> run[o].cycle, seenAt |-> Never, pages |-> run[o].pages + 1]
  <2>1. Become(o, paged) \/ Become(o, Blank("leaving"))
    BY DEF CommitPage, Written
  <2>2. (\A p \in Owner \ {o} : run'[p] = run[p]) /\ run'[o] \in {paged, Blank("leaving")}
    BY <1>0, <2>1 DEF Become
  <2>3. Blank("leaving").at = "leaving" /\ Blank("leaving").cycle = Never
    BY DEF Blank
  <2> QED
    BY <2>2, <2>3
<1>6. TimesArePast'
  <2>1. \A r \in Query : ckpt'[r].cycle <= now /\ sweep'[r].since <= now
    <3>1. sweep'[q].since \in {t, sweep[q].since}
      BY <1>1 DEF Covered
    <3> QED
      BY <1>0, <1>1, <1>2, <3>1 DEF MissInv, SweepsAreInOrder, TimesArePast
  <2>2. \A p \in Owner : run'[p].cycle <= now
    BY <1>0, <1>5 DEF MissInv, SweepsAreInOrder, TimesArePast, Never
  <2>3. \A l \in Lot : seen'[l] >= 0
    BY <1>0, <1>1, <1>3 DEF MissInv, SweepsAreInOrder, TimesArePast
  <2> QED
    BY <1>3, <1>4, <2>1, <2>2, <2>3 DEF MissInv, SweepsAreInOrder, TimesArePast
<1>7. ASSUME NEW r \in Query
      PROVE  CycleBegan(r)' = CycleBegan(r)
  <2>1. tick' = tick /\ ckpt'[r].cycle = ckpt[r].cycle
    BY <1>1, <1>2, <1>3
  <2> QED
    BY <2>1 DEF CycleBegan
<1>8. RowsAreInOrder'
  <2>1. ASSUME NEW r \in Query
        PROVE  /\ ckpt'[r].made \/ ckpt'[r] = NoRow
               /\ ckpt'[r].exhausted \/ ckpt'[r].cycle = Never => ckpt'[r].cursor = NoCursor
    BY <1>1, <1>2 DEF MissInv, SweepsAreInOrder, RowsAreInOrder
  <2>2. SUFFICES ASSUME NEW r \in Query, r \notin Partition, ckpt'[r].cursor # NoCursor,
                        NEW u \in CycleBegan(r)'
                 PROVE  sweep'[r].since >= u
    BY <2>1 DEF RowsAreInOrder
  <2>3. u \in CycleBegan(r)
    BY <1>7
  <2>4. CASE r = q
    BY <1>1, <2>2, <2>3, <2>4
  <2>5. CASE r # q
    BY <1>1, <2>2, <2>3, <2>5 DEF MissInv, SweepsAreInOrder, RowsAreInOrder
  <2> QED
    BY <2>4, <2>5
<1>9. OwnersAreInOrder'
  <2>1. CASE run'[o].at = "leaving"
    <3>1. InOrder(o)'
      BY <2>1 DEF InOrder, At
    <3> QED
      BY <1>4, <3>1 DEF OwnersAreInOrder
  <2>2. CASE run'[o].at # "leaving"
    <3>1. /\ next # NoCursor
          /\ run'[o].at = "paging" /\ run'[o].query = q /\ run'[o].cursor = next
          /\ run'[o].cycle = run[o].cycle
      BY <1>5, <2>2
    <3>2. PICK r \in Query : r = q
      BY <1>1
    <3>3. \A u \in CycleBegan(r)' \cup {run[o].cycle} : u \in began
      BY <1>7, <3>2
    <3>4. r \notin Partition => \A u \in CycleBegan(r)' \cup {run[o].cycle} : sweep'[r].since >= u
      BY <1>1, <3>2, <3>3
    <3>5. ckpt'[r].made /\ ~ckpt'[r].exhausted /\ ckpt'[r].cycle # Never
      BY <1>1, <1>2, <3>1, <3>2
    <3>6. InOrder(o)'
      BY <3>1, <3>2, <3>4, <3>5 DEF InOrder, At
    <3> QED
      BY <1>4, <3>6 DEF OwnersAreInOrder
  <2> QED
    BY <2>1, <2>2
<1>10. ListedAreSeen'
  <2> SUFFICES ASSUME NEW r \in Query, NEW l \in sweep'[r].listed
               PROVE  seen'[l] >= sweep'[r].since
    BY DEF ListedAreSeen
  <2>1. \/ l \in sweep[r].listed /\ sweep'[r].since = sweep[r].since
        \/ r = q /\ l \in listed /\ sweep'[r].since \in {t, sweep[r].since}
    <3>1. CASE r # q
      BY <1>1, <3>1
    <3>2. CASE r = q
      <4>1. sweep'[r] \in {sweep[r], [since |-> t, listed |-> listed],
                           [since |-> sweep[r].since, listed |-> sweep[r].listed \cup listed]}
        BY <1>1, <3>2 DEF Covered
      <4> QED
        BY <3>2, <4>1
    <3> QED
      BY <3>1, <3>2
  <2>2. CASE l \in sweep[r].listed /\ sweep'[r].since = sweep[r].since
    <3>1. l \in Lot /\ seen[l] >= sweep[r].since /\ t >= sweep[r].since
      BY <1>0, <1>1, <2>2 DEF MissInv, SweepsAreInOrder, ListedAreSeen
    <3> QED
      BY <1>3, <2>2, <3>1
  <2>3. CASE l \in listed /\ sweep'[r].since \in {t, sweep[r].since}
    BY <1>0, <1>1, <1>3, <2>3
  <2> QED
    BY <2>1, <2>2, <2>3
<1>11. MissesTakeCycles'
  <2> SUFFICES ASSUME ticks = 0, NEW r \in Query, Query \ Partition = {r}, NEW l \in Lot, misses'[l] > 0
               PROVE  NextCycle(r)' > seen'[l] + CycleGap * misses'[l]
    BY <1>3 DEF MissesTakeCycles
  <2>1. l \notin listed /\ seen'[l] = seen[l] /\ misses[l] \in Nat /\ seen[l] \in Int /\ CycleGap \in Nat
    BY <1>0, <1>3, SweepAssumption
  <2>2. CycleGap * misses[l] \in Int /\ CycleGap * (misses[l] + 1) = CycleGap * misses[l] + CycleGap
    BY <2>1
  <2>3. misses[l] > 0 => NextCycle(r) > seen[l] + CycleGap * misses[l]
    BY DEF MissInv, SweepsAreInOrder, MissesTakeCycles
  <2>4. r = q => /\ NextCycle(r) = ckpt[r].cycle /\ ckpt[r].cycle \in Int /\ t >= ckpt[r].cycle
                 /\ NextCycle(r)' = IF next = NoCursor THEN t + CycleGap ELSE ckpt[r].cycle
    <3>1. t >= ckpt[q].cycle
      BY <1>1 DEF CycleBegan
    <3> QED
      BY <1>0, <1>1, <1>2, <3>1 DEF NextCycle, CheckpointRow
  <2>5. CASE l \in Missed(o, next)
    <3>1. next = NoCursor /\ q \notin Partition /\ seen[l] < run[o].cycle
      BY <2>1, <2>5 DEF Missed
    <3>2. r = q /\ t >= run[o].cycle /\ misses'[l] = misses[l] + 1
      BY <1>0, <1>1, <1>3, <2>1, <2>5, <3>1
    <3>3. NextCycle(r)' = t + CycleGap
      BY <2>4, <3>1, <3>2
    <3>4. t > seen[l] + CycleGap * misses[l]
      <4>1. CASE misses[l] = 0
        BY <1>1, <2>1, <3>1, <3>2, <4>1
      <4>2. CASE misses[l] > 0
        <5>1. ckpt[r].cycle > seen[l] + CycleGap * misses[l]
          BY <2>3, <2>4, <3>2, <4>2
        <5> QED
          BY <1>1, <2>1, <2>2, <2>4, <3>2, <5>1
      <4> QED
        BY <2>1, <4>1, <4>2
    <3> QED
      BY <1>1, <2>1, <2>2, <3>2, <3>3, <3>4
  <2>6. CASE l \notin Missed(o, next)
    <3>1. misses'[l] = misses[l] /\ NextCycle(r) > seen[l] + CycleGap * misses[l]
      BY <1>3, <2>1, <2>3, <2>6
    <3>2. CASE r = q
      <4>1. NextCycle(r)' >= ckpt[r].cycle /\ NextCycle(r)' \in Int
        BY <1>1, <2>1, <2>4, <3>2
      <4> QED
        BY <2>1, <2>2, <2>4, <3>1, <3>2, <4>1
    <3>3. CASE r # q
      BY <1>1, <2>1, <3>1, <3>3 DEF NextCycle
    <3> QED
      BY <3>2, <3>3
  <2> QED
    BY <2>5, <2>6
<1> QED
  BY <1>6, <1>8, <1>9, <1>10, <1>11 DEF SweepsAreInOrder

(* The steps of a tick.  What it resets has ended; no run is at a page of  *)
(* an exhausted query, and none is in doubt once a tick was counted.       *)
LEMMA TickStepOrder ==
    ASSUME MissInv, TickStep
    PROVE  SweepsAreInOrder'
<1>0. /\ run \in [Owner -> Run] /\ ckpt \in [Query -> CheckpointRow]
      /\ sweep \in [Query -> [since : Int, listed : SUBSET Lot]]
      /\ now \in Nat /\ ticks \in Nat /\ SweepInv
  BY SweepAssumption DEF MissInv, SweepInv, TypeOK, LeaseTypeOK
<1>1. UNCHANGED <<leaseVars, run, sweep, seen, misses>>
  BY DEF TickStep, TickFindsNoInventory, TickFindsExhausted, TickResets, Reconcile, SameLots, lotVars
<1>2. UNCHANGED <<now, lease, held>>
  BY <1>1 DEF leaseVars
<1>3. ListedAreSeen'
  BY <1>1 DEF MissInv, SweepsAreInOrder, ListedAreSeen
<1>4. ASSUME UNCHANGED <<ckpt, tick, ticks>>
      PROVE  SweepsAreInOrder'
  <2>1. TimesArePast' /\ RowsAreInOrder'
    BY <1>1, <1>2, <1>4 DEF MissInv, SweepsAreInOrder, TimesArePast, RowsAreInOrder, CycleBegan
  <2>2. OwnersAreInOrder'
    BY <1>1, <1>2, <1>4 DEF MissInv, SweepsAreInOrder, OwnersAreInOrder, InOrder, CycleBegan, At, Owns
  <2>3. MissesTakeCycles'
    BY <1>1, <1>4 DEF MissInv, SweepsAreInOrder, MissesTakeCycles, NextCycle
  <2> QED
    BY <1>3, <2>1, <2>2, <2>3 DEF SweepsAreInOrder
<1>5. ASSUME ticks' > 0, UNCHANGED ckpt,
             tick'.todo \subseteq {q \in Query : ckpt[q].exhausted},
             tick' = NoTick \/ tick'.now \in 0 .. now
      PROVE  SweepsAreInOrder'
  <2>1. TimesArePast'
    BY <1>1, <1>2, <1>5 DEF MissInv, SweepsAreInOrder, TimesArePast
  <2>2. ASSUME NEW q \in Query, ~ckpt[q].exhausted
        PROVE  \A u \in CycleBegan(q)' : u \in CycleBegan(q)
    BY <1>5, <2>2 DEF CycleBegan
  <2>3. RowsAreInOrder'
    BY <1>1, <1>5, <2>2 DEF MissInv, SweepsAreInOrder, RowsAreInOrder
  <2>4. ASSUME NEW o \in Owner, Owns(o)'
        PROVE  InOrder(o)'
    <3>1. InOrder(o) /\ run[o].query \in Query
      BY <1>0, <1>2, <2>4 DEF MissInv, SweepsAreInOrder, OwnersAreInOrder, Owns, Run
    <3>2. CASE ckpt[run[o].query].exhausted
      BY <1>1, <1>5, <3>1, <3>2 DEF InOrder, At
    <3>3. CASE ~ckpt[run[o].query].exhausted
      <4>1. PICK q \in Query : q = run[o].query
        BY <3>1
      <4>2. \A u \in CycleBegan(q)' : u \in CycleBegan(q)
        BY <2>2, <3>3, <4>1
      <4> QED
        BY <1>1, <1>2, <1>5, <3>1, <4>1, <4>2 DEF InOrder, At
    <3> QED
      BY <3>2, <3>3
  <2>5. MissesTakeCycles'
    BY <1>5 DEF MissesTakeCycles
  <2> QED
    BY <1>3, <2>1, <2>3, <2>4, <2>5 DEF SweepsAreInOrder, OwnersAreInOrder
<1>6. CASE TickFindsNoInventory
  BY <1>0, <1>2, <1>5, <1>6 DEF TickFindsNoInventory
<1>7. CASE TickFindsExhausted
  <2>1. ticks' > 0 /\ UNCHANGED ckpt
    BY <1>0, <1>7 DEF TickFindsExhausted, SweepInv, TicksAreCounted
  <2>2. tick.now \in 0 .. now
    BY <1>7 DEF TickFindsExhausted, NoTick, MissInv, SweepsAreInOrder, TimesArePast
  <2> QED
    BY <1>5, <1>7, <2>1, <2>2 DEF TickFindsExhausted, Resetting, NoTick
<1>8. ASSUME NEW q \in Query, TickResets(q)
      PROVE  SweepsAreInOrder'
  <2>1. /\ q \in tick.todo /\ ticks' = ticks /\ ticks > 0
        /\ tick' = Resetting(tick.now, tick.todo \ {q})
        /\ ckpt' = [ckpt EXCEPT ![q] = FreshRow(tick.now)]
    BY <1>0, <1>8 DEF TickResets, SweepInv, TicksAreCounted
  <2>2. tick.now \in 0 .. now
    BY <2>1 DEF NoTick, MissInv, SweepsAreInOrder, TimesArePast
  <2>3. /\ tick'.todo = tick.todo \ {q}
        /\ tick'.todo = {} \/ tick'.now = tick.now
        /\ tick' = NoTick \/ tick'.now \in 0 .. now
    BY <2>1, <2>2 DEF Resetting, NoTick
  <2>4. /\ ckpt'[q] = FreshRow(tick.now)
        /\ \A r \in Query \ {q} : ckpt'[r] = ckpt[r]
    BY <1>0, <2>1
  <2>5. /\ ckpt'[q].made /\ ~ckpt'[q].exhausted /\ ckpt'[q].cursor = NoCursor
        /\ ckpt'[q].cycle = tick.now
    BY <2>4 DEF FreshRow
  <2>6. ASSUME NEW r \in Query
        PROVE  \A u \in CycleBegan(r)' : u \in CycleBegan(r)
    BY <2>1, <2>3, <2>4, <2>5 DEF CycleBegan
  <2>7. TimesArePast'
    BY <1>1, <1>2, <2>2, <2>3, <2>4, <2>5 DEF MissInv, SweepsAreInOrder, TimesArePast
  <2>8. RowsAreInOrder'
    BY <1>1, <2>4, <2>5, <2>6 DEF MissInv, SweepsAreInOrder, RowsAreInOrder
  <2>9. ASSUME NEW o \in Owner, Owns(o)'
        PROVE  InOrder(o)'
    <3>1. InOrder(o) /\ run[o].query \in Query
      BY <1>0, <1>2, <2>9 DEF MissInv, SweepsAreInOrder, OwnersAreInOrder, Owns, Run
    <3>2. PICK r \in Query : r = run[o].query
      BY <3>1
    <3>3. \A u \in CycleBegan(r)' : u \in CycleBegan(r)
      BY <2>6
    <3>4. /\ ckpt[r].made => ckpt'[r].made
          /\ ~ckpt[r].exhausted => ~ckpt'[r].exhausted
          /\ ckpt[r].cursor = NoCursor => ckpt'[r].cursor = NoCursor
          /\ ckpt[r].cycle # Never => ckpt'[r].cycle # Never
      BY <2>2, <2>4, <2>5 DEF Never
    <3> QED
      BY <1>1, <1>2, <2>1, <3>1, <3>2, <3>3, <3>4 DEF InOrder, At
  <2>10. MissesTakeCycles'
    BY <2>1 DEF MissesTakeCycles
  <2> QED
    BY <1>3, <2>7, <2>8, <2>9, <2>10 DEF SweepsAreInOrder, OwnersAreInOrder
<1>9. CASE \E revived, cleared \in SUBSET Lot : Reconcile(revived, cleared)
  BY <1>4, <1>9 DEF Reconcile
<1> QED
  BY <1>6, <1>7, <1>8, <1>9 DEF TickStep

(* The search stores a sighting of some time; the clock goes on.           *)
LEMMA OtherStepOrder ==
    ASSUME MissInv,
           \/ \E l \in Lot : SearchFinds(l) \/ \E t \in 0 .. now : SearchStores(l, t)
           \/ Clock \/ UNCHANGED vars
    PROVE  SweepsAreInOrder'
<1>0. /\ run \in [Owner -> Run] /\ sweep \in [Query -> [since : Int, listed : SUBSET Lot]]
      /\ now \in Nat /\ misses \in [Lot -> Nat] /\ seen \in [Lot -> Int]
      /\ ckpt \in [Query -> CheckpointRow]
  BY DEF MissInv, SweepInv, TypeOK, LeaseTypeOK
<1>1. UNCHANGED <<ckpt, tick, ticks, run, lease, held>> /\ now' \in Nat /\ now <= now'
  <2>1. CASE Clock
    BY <1>0, <2>1 DEF Clock, Tick, SameRest
  <2>2. CASE \E l \in Lot : SearchFinds(l) \/ \E t \in 0 .. now : SearchStores(l, t)
    <3>1. UNCHANGED <<ckpt, tick, ticks, run, leaseVars>>
      BY <2>2 DEF SearchFinds, SearchStores
    <3> QED
      BY <1>0, <3>1 DEF leaseVars
  <2>3. CASE UNCHANGED vars
    BY <1>0, <2>3 DEF vars, leaseVars
  <2> QED
    BY <2>1, <2>2, <2>3
<1>2. ASSUME NEW q \in Query
      PROVE  CycleBegan(q)' = CycleBegan(q)
  BY <1>1 DEF CycleBegan
<1>3. /\ \A q \in Query : sweep'[q].since = sweep[q].since
      /\ \A l \in Lot : \/ misses'[l] = 0 /\ seen'[l] >= 0
                        \/ misses'[l] = misses[l] /\ seen'[l] = seen[l]
      /\ ListedAreSeen'
  <2>1. CASE UNCHANGED <<sweep, seen, misses>>
    BY <2>1 DEF MissInv, SweepsAreInOrder, ListedAreSeen
  <2>2. ASSUME NEW l \in Lot, NEW t \in 0 .. now, SearchStores(l, t)
        PROVE  /\ \A q \in Query : sweep'[q].since = sweep[q].since
               /\ \A k \in Lot : \/ misses'[k] = 0 /\ seen'[k] >= 0
                                 \/ misses'[k] = misses[k] /\ seen'[k] = seen[k]
               /\ ListedAreSeen'
    <3>1. /\ seen'[l] = t /\ misses'[l] = 0
          /\ \A m \in Lot \ {l} : seen'[m] = seen[m] /\ misses'[m] = misses[m]
      BY <1>0, <2>2 DEF SearchStores
    <3>2. sweep' = IF t >= seen[l] THEN sweep
                   ELSE [q \in Query |-> [sweep[q] EXCEPT !.listed = @ \ {l}]]
      BY <2>2 DEF SearchStores
    <3>3. \A q \in Query : sweep'[q].since = sweep[q].since
      BY <1>0, <3>2
    <3>4. ASSUME NEW q \in Query, NEW m \in sweep'[q].listed
          PROVE  seen'[m] >= sweep'[q].since
      <4>1. m \in sweep[q].listed /\ (m = l => t >= seen[l])
        BY <1>0, <3>2, <3>4
      <4>2. m \in Lot /\ seen[m] >= sweep[q].since
        BY <1>0, <4>1 DEF MissInv, SweepsAreInOrder, ListedAreSeen
      <4> QED
        BY <1>0, <3>1, <3>3, <4>1, <4>2
    <3> QED
      BY <3>1, <3>3, <3>4 DEF ListedAreSeen
  <2>3. CASE Clock \/ UNCHANGED vars \/ \E l \in Lot : SearchFinds(l)
    BY <2>1, <2>3 DEF SearchFinds, Clock, SameLots, vars, lotVars
  <2> QED
    BY <2>2, <2>3
<1>4. TimesArePast'
  <2>1. \A q \in Query : ckpt[q].cycle \in Int /\ sweep[q].since \in Int
    BY <1>0 DEF CheckpointRow
  <2>2. \A o \in Owner : run[o].cycle \in Int
    BY <1>0 DEF Run
  <2> QED
    BY <1>0, <1>1, <1>3, <2>1, <2>2 DEF MissInv, SweepsAreInOrder, TimesArePast
<1>5. RowsAreInOrder'
  BY <1>1, <1>2, <1>3 DEF MissInv, SweepsAreInOrder, RowsAreInOrder
<1>6. ASSUME NEW o \in Owner, Owns(o)'
      PROVE  InOrder(o)'
  <2>1. InOrder(o) /\ run[o].query \in Query
    BY <1>0, <1>1, <1>6 DEF MissInv, SweepsAreInOrder, OwnersAreInOrder, Owns, Run
  <2>2. PICK q \in Query : q = run[o].query
    BY <2>1
  <2>3. CycleBegan(q)' = CycleBegan(q)
    BY <1>2
  <2> QED
    BY <1>0, <1>1, <1>3, <2>1, <2>2, <2>3 DEF InOrder, At
<1>7. MissesTakeCycles'
  BY <1>1, <1>3 DEF MissInv, SweepsAreInOrder, MissesTakeCycles, NextCycle
<1> QED
  BY <1>3, <1>4, <1>5, <1>6, <1>7 DEF SweepsAreInOrder, OwnersAreInOrder

(* The inductive invariant that the misses rest on.                        *)
THEOREM MissInvariant == Spec => []MissInv
<1>1. Init => SweepsAreInOrder
  <2> SUFFICES ASSUME Init
               PROVE  SweepsAreInOrder
    OBVIOUS
  <2>1. Blank("idle").at = "idle" /\ Blank("idle").cycle = Never
    BY DEF Blank
  <2>2. \A q \in Query : ckpt[q] \in OldRow \cup {NoRow}
    BY DEF Init
  <2>3. \A row \in OldRow \cup {NoRow} :
           /\ row.made \/ row = NoRow
           /\ row.cursor = NoCursor
           /\ row.cycle \in {0, Never}
    BY DEF OldRow, NoRow, FreshRow
  <2>4. now = 0 /\ tick = NoTick /\ seen = [l \in Lot |-> 0] /\ misses = [l \in Lot |-> 0]
        /\ run = [o \in Owner |-> Blank("idle")]
        /\ sweep = [q \in Query |-> [since |-> Never, listed |-> {}]]
    BY DEF Init, LeaseInit
  <2>5. TimesArePast
    BY <2>1, <2>2, <2>3, <2>4 DEF TimesArePast, Never
  <2>6. RowsAreInOrder /\ ListedAreSeen /\ MissesTakeCycles
    BY <2>2, <2>3, <2>4 DEF RowsAreInOrder, ListedAreSeen, MissesTakeCycles
  <2>7. OwnersAreInOrder
    BY <2>1, <2>4 DEF OwnersAreInOrder, InOrder, At
  <2> QED
    BY <2>5, <2>6, <2>7 DEF SweepsAreInOrder
<1>2. SweepInv /\ SweepsAreInOrder /\ [Next]_vars => SweepsAreInOrder'
  <2> SUFFICES ASSUME MissInv, [Next]_vars
               PROVE  SweepsAreInOrder'
    BY DEF MissInv
  <2>1. ASSUME NEW o \in Owner, RunStep(o) \/ CrashRun(o)
        PROVE  SweepsAreInOrder'
    BY <2>1, QuietStepOrder, ReadStepOrder, CycleStepOrder, PageStepOrder DEF RunStep
  <2> QED
    BY <2>1, TickStepOrder, OtherStepOrder DEF Next
<1> QED
  BY <1>1, <1>2, SweepInvariant, PTL DEF Spec, MissInv

(* A lot is counted as missed only at the end of a whole sweep without it, *)
(* and, until a recovery tick and with one query that counts, once in a    *)
(* cycle interval, for any number of lots, cursors, queries and runs.      *)
THEOREM MissesAreReal == Spec => NoFalseMiss
<1> DEFINE Real(l) ==
        misses'[l] > misses[l] =>
            \E q \in Query \ Partition :
               /\ ckpt'[q].exhausted /\ ~ckpt[q].exhausted
               /\ sweep'[q].since >= ckpt[q].cycle
               /\ l \notin sweep'[q].listed
               /\ (ticks = 0 /\ Query \ Partition = {q})
                    => now - seen[l] > CycleGap * (misses'[l] - 1)
<1>1. MissInv /\ [Next]_vars => [\A l \in Lot : Real(l)]_vars
  <2> SUFFICES ASSUME MissInv, [Next]_vars, NEW l \in Lot, misses'[l] > misses[l]
               PROVE  Real(l)
    OBVIOUS
  <2>0. /\ now \in Nat /\ misses \in [Lot -> Nat] /\ seen \in [Lot -> Int]
        /\ ckpt \in [Query -> CheckpointRow] /\ run \in [Owner -> Run]
        /\ sweep \in [Query -> [since : Int, listed : SUBSET Lot]]
    BY DEF MissInv, SweepInv, TypeOK, LeaseTypeOK
  <2>1. misses' # misses
    BY <2>0
  <2>2. ASSUME NEW m \in Lot, NEW t \in 0 .. now, SearchStores(m, t)
        PROVE  FALSE
    <3>1. misses' = [misses EXCEPT ![m] = 0]
      BY <2>2 DEF SearchStores
    <3> QED
      BY <2>0, <3>1
  <2>3. PICK o \in Owner : RunStep(o)
    BY <2>1, <2>2 DEF Next, TickStep, TickFindsNoInventory, TickFindsExhausted, TickResets, Reconcile,
       SearchFinds, Clock, CrashRun, SameLots, lotVars, vars
  <2>41. PICK listed \in SUBSET Lot :
            \E left \in SUBSET listed : \E ready \in SUBSET left :
               \E next \in Cursor \cup {NoCursor} : CommitPage(o, listed, left, ready, next)
    BY <2>1, <2>3 DEF RunStep, ClaimRun, ReadCheckpoint, ReadFails, BeginWrite, WriteRefused, CommitRestart,
       CommitStart, Fetch, FetchFails, CommitNote, StopPaging, Leave, SameLots, lotVars
  <2>42. PICK left \in SUBSET listed : \E ready \in SUBSET left :
               \E next \in Cursor \cup {NoCursor} : CommitPage(o, listed, left, ready, next)
    BY <2>41
  <2>4. PICK ready \in SUBSET left, next \in Cursor \cup {NoCursor} :
           CommitPage(o, listed, left, ready, next)
    BY <2>42
  <2>5. /\ l \notin listed /\ l \in Missed(o, next) /\ misses'[l] = misses[l] + 1
        /\ seen'[l] = seen[l]
    BY <2>0, <2>4 DEF CommitPage
  <2>6. PICK q \in Query : q = run[o].query
    BY <2>0 DEF Run
  <2>7. /\ q \notin Partition /\ next = NoCursor
        /\ seen[l] < run[o].cycle
    BY <2>5, <2>6 DEF Missed
  <2>8. /\ ~ckpt[q].exhausted /\ run[o].seenAt \in 0 .. now
        /\ run[o].seenAt >= run[o].cycle /\ run[o].cycle \in Int
        /\ \A u \in CycleBegan(q) \cup {run[o].cycle} : sweep'[q].since >= u
        /\ run[o].seenAt >= ckpt[q].cycle
        /\ sweep'[q] = Covered(o, listed)
    BY <2>4, <2>6, <2>7, PageCommitted DEF CycleBegan
  <2>9. ckpt'[q].exhausted
    <3>1. ckpt'[q] = [made |-> TRUE, cursor |-> next, cycle |-> ckpt[q].cycle,
                      exhausted |-> next = NoCursor,
                      dueAt |-> IF next = NoCursor THEN run[o].seenAt + CycleGap ELSE 0]
      BY <2>4, <2>6, PageCommitted
    <3>2. ckpt'[q].exhausted = (next = NoCursor)
      BY <3>1
    <3> QED
      BY <2>7, <3>2
  <2>10. sweep'[q].since >= ckpt[q].cycle
    BY <2>8 DEF CycleBegan
  <2>11. l \notin sweep'[q].listed
    <3>1. CASE run[o].cursor = NoCursor
      BY <2>5, <2>6, <2>7, <2>8, <3>1 DEF Covered
    <3>2. CASE run[o].cursor # NoCursor
      <4>1. sweep'[q] = [since |-> sweep[q].since, listed |-> sweep[q].listed \cup listed]
        BY <2>6, <2>7, <2>8, <3>2 DEF Covered
      <4>2. sweep[q].since >= run[o].cycle
        BY <2>8, <4>1
      <4>3. l \in sweep[q].listed => seen[l] >= sweep[q].since
        BY DEF MissInv, SweepsAreInOrder, ListedAreSeen
      <4> QED
        BY <2>0, <2>5, <2>7, <2>8, <4>1, <4>2, <4>3
    <3> QED
      BY <3>1, <3>2
  <2>12. ASSUME ticks = 0, Query \ Partition = {q}
         PROVE  now - seen[l] > CycleGap * (misses'[l] - 1)
    <3>1. CycleGap \in Nat /\ misses[l] \in Nat /\ seen[l] \in Int /\ misses'[l] - 1 = misses[l]
      BY <2>0, <2>5, SweepAssumption
    <3>2. CASE misses[l] = 0
      BY <2>0, <2>7, <2>8, <3>1, <3>2
    <3>3. CASE misses[l] > 0
      <4>1. ckpt[q].cycle > seen[l] + CycleGap * misses[l]
        BY <2>8, <2>12, <3>3 DEF MissInv, SweepsAreInOrder, MissesTakeCycles, NextCycle
      <4>2. CycleGap * misses[l] \in Int /\ ckpt[q].cycle \in Int /\ ckpt[q].cycle <= now
        BY <2>0, <3>1 DEF CheckpointRow, MissInv, SweepsAreInOrder, TimesArePast
      <4> QED
        BY <2>0, <3>1, <4>1, <4>2
    <3> QED
      BY <3>1, <3>2, <3>3
  <2> QED
    BY <2>7, <2>8, <2>9, <2>10, <2>11, <2>12
<1> QED
  BY <1>1, MissInvariant, PTL DEF Spec, NoFalseMiss
=============================================================================
