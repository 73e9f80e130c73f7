------------------------- MODULE FreshnessScheduler -------------------------
(***************************************************************************)
(* The scheduler (src/src/copart/freshness-scheduler.service.ts) of one    *)
(* process: automatic ticks behind the isTicking flag, ticks an            *)
(* administrator starts beside them, the pacing of their requests over the *)
(* day, the queue of providers, the rotation of the partitions that a      *)
(* discovery run searches, and the recovery mode.                          *)
(*                                                                         *)
(* Time is counted in slots of one tick interval.  DiscoverySweep has a    *)
(* discovery run in detail, and what a tick does to the lots; here a run   *)
(* is the attempts it charges and the reason it ends with.                 *)
(***************************************************************************)
EXTENDS Integers, FiniteSets, SequencesExt

CONSTANTS
    Tick, Timer,       \* the ticks that may run at once; Timer is the timer's tick
    Partition,        \* the partitions, in the order of their names
    SlotsPerDay, Days, DailyRequests,
    MaxPagesPerTick,  \* 4 in the code
    MaxEvents         \* bound: ticks and pauses by administrators, crashes, other
                      \* requests, changes of the inventory

ASSUME SchedulerAssumption ==
    /\ IsFiniteSet(Tick) /\ Timer \in Tick
    /\ Partition \in Seq(ToSet(Partition)) /\ Len(Partition) > 0
    /\ \A i, j \in 1 .. Len(Partition) : Partition[i] = Partition[j] => i = j
    /\ SlotsPerDay \in Nat \ {0} /\ Days \in Nat /\ DailyRequests \in Nat
    /\ MaxPagesPerTick \in Nat /\ MaxEvents \in Nat

MaxPagesPerRun == 2
Providers == {"copart", "iaai"}

VARIABLES
    slot,        \* the clock
    used,        \* dailyUsed: what all requests of the day have charged
    paced,       \* history: what the ticks that began today have charged
    isPaused,
    isTicking,
    recoveryMode,
    active,      \* there are active lots
    lease,       \* lease[p]: the tick whose run holds p, "dead", or "none"
    queue,       \* queue[p]: the partitions, least recently started first
    due,         \* due[p]: the partitions whose cycle is not exhausted
    waited,      \* history: waited[p][k]: runs of others since k was started
    tick,        \* tick[t]: where t is
    events

schedulerVars == <<slot, used, paced, isPaused, isTicking, recoveryMode, active, lease, queue, due,
          waited, tick, events>>
clock == <<slot, used, paced>>
control == <<isPaused, isTicking, recoveryMode, active, events>>
sweeps == <<lease, queue, due, waited>>

Partitions == ToSet(Partition)

(* barren: it began without active lots and has stored no lot since.       *)
NoTick == [phase |-> "idle", day |-> 0, remaining |-> 0, runnable |-> {},
           turn |-> "copart", provider |-> "copart", partition |-> Partition[1],
           pages |-> 0, barren |-> FALSE]

SchedulerInit ==
    /\ slot = 0 /\ used = 0 /\ paced = 0
    /\ isPaused = FALSE /\ isTicking = FALSE /\ recoveryMode = "NORMAL"
    /\ active \in BOOLEAN
    /\ lease = [p \in Providers |-> "none"]
    /\ queue = [p \in Providers |-> Partition]
    /\ due = [p \in Providers |-> Partitions]
    /\ waited = [p \in Providers |-> [k \in Partitions |-> 0]]
    /\ tick = [t \in Tick |-> NoTick]
    /\ events = 0

-----------------------------------------------------------------------------
Today == slot \div SlotsPerDay
Elapsed == slot % SlotsPerDay
Smaller(a, b) == IF a < b THEN a ELSE b

PacedTarget == (DailyRequests * Elapsed) \div SlotsPerDay

(* A slip: what the day has used is forgotten.                             *)
PagesOfTarget(dailyUsed) ==
    Smaller(Smaller(DailyRequests - dailyUsed, PacedTarget), MaxPagesPerTick)

TickPages(dailyUsed) ==
    Smaller(Smaller(DailyRequests - dailyUsed, PacedTarget - dailyUsed), MaxPagesPerTick)

At(t, phase) == tick[t].phase = phase
Goes(t, phase) == tick' = [tick EXCEPT ![t].phase = phase]

(* The finally block of guardedTick clears the flag it took.               *)
Ends(t) ==
    /\ tick' = [tick EXCEPT ![t] = NoTick]
    /\ isTicking' = (isTicking /\ t # Timer)

-----------------------------------------------------------------------------
Event == events < MaxEvents /\ events' = events + 1

(* The timer: skipped while the flag is taken, then guarded.               *)
TimerFires ==
    /\ ~ isTicking
    /\ isTicking' = TRUE
    /\ Goes(Timer, "guard")
    /\ UNCHANGED <<clock, sweeps, isPaused, recoveryMode, active, events>>

Guard(t) ==
    /\ At(t, "guard")
    /\ IF isPaused \/ used >= DailyRequests THEN Ends(t)
       ELSE Goes(t, "begin") /\ UNCHANGED isTicking
    /\ UNCHANGED <<clock, sweeps, isPaused, recoveryMode, active, events>>

(* An administrator's tick takes no flag.                                  *)
AdminTick(t) ==
    /\ t # Timer /\ At(t, "idle") /\ Event
    /\ Goes(t, "begin")
    /\ UNCHANGED <<clock, sweeps, isPaused, isTicking, recoveryMode, active>>

(* Without active lots (there are always historical ones here) every       *)
(* exhausted cycle is begun again.                                         *)
Recovers ==
    /\ recoveryMode' = IF ~ active THEN "INVENTORY_RECOVERY"
                       ELSE IF recoveryMode = "INVENTORY_RECOVERY" THEN "NORMAL"
                       ELSE recoveryMode
    /\ due' = IF active THEN due ELSE [p \in Providers |-> Partitions]

(* tick reads the state, the budget, which says how much it may charge,    *)
(* and the lots.                                                           *)
Begin(t) ==
    /\ At(t, "begin")
    /\ IF isPaused \/ TickPages(used) <= 0 THEN Ends(t)
       ELSE /\ tick' = [tick EXCEPT ![t] =
                          [@ EXCEPT !.phase = "loop", !.day = Today,
                               !.remaining = TickPages(used), !.runnable = Providers,
                               !.turn = IF slot % 2 = 0 THEN "copart" ELSE "iaai",
                               !.barren = ~ active]]
            /\ UNCHANGED isTicking
    /\ IF tick'[t].phase = "loop" THEN Recovers ELSE UNCHANGED <<recoveryMode, due>>
    /\ UNCHANGED <<clock, isPaused, active, events, lease, queue, waited>>

-----------------------------------------------------------------------------
(* The loop: while there is something to charge and a provider to ask.     *)
Other(p) == CHOOSE q \in Providers : q # p

(* A slip: the partition started last is started again.                    *)
MostRecent(p) == queue[p][Len(queue[p])]

LeastRecent(p) == queue[p][1]

Select(t) ==
    /\ At(t, "loop") /\ tick[t].remaining > 0 /\ tick[t].runnable # {}
    /\ LET turn == tick[t].turn
           p == IF turn \in tick[t].runnable THEN turn ELSE Other(turn)
       IN  tick' = [tick EXCEPT ![t] =
                      [@ EXCEPT !.phase = "claim", !.turn = Other(turn),
                           !.provider = p, !.partition = LeastRecent(p)]]
    /\ UNCHANGED <<clock, sweeps, control>>

(* A slip: a provider whose cycle is not due stays in the queue.           *)
SomeUnavailable ==
    {"lease_held", "exhausted", "lease_lost", "persistence_error", "provider_error"}

UnavailableReasons ==
    {"lease_held", "not_due", "exhausted", "lease_lost", "persistence_error", "provider_error"}

EndRun(t, reason) ==
    tick' = [tick EXCEPT ![t] =
        [@ EXCEPT !.phase = "loop", !.pages = 0,
             !.provider = "copart", !.partition = Partition[1],
             !.runnable = IF reason \in UnavailableReasons
                          THEN tick[t].runnable \ {tick[t].provider} ELSE tick[t].runnable,
             !.barren = tick[t].barren /\ reason \in {"exhausted", "provider_error"}]]

(* The partition that is started is now the one started last.              *)
MovedToEnd(order, k) ==
    LET at == CHOOSE i \in 1 .. Len(order) : order[i] = k
    IN  [i \in 1 .. Len(order) |-> IF i < at THEN order[i]
                                  ELSE IF i < Len(order) THEN order[i + 1] ELSE k]

(* A run claims the provider and starts its partition, due or not.         *)
RunClaims(t) ==
    LET p == tick[t].provider
        k == tick[t].partition
    IN  /\ At(t, "claim")
        /\ IF lease[p] # "none"
           THEN EndRun(t, "lease_held") /\ UNCHANGED sweeps
           ELSE /\ queue' = [queue EXCEPT ![p] = MovedToEnd(@, k)]
                /\ waited' = [waited EXCEPT ![p] = [j \in Partitions |->
                                  IF j = k THEN 0 ELSE waited[p][j] + 1]]
                /\ UNCHANGED due
                /\ IF k \in due[p]
                   THEN lease' = [lease EXCEPT ![p] = t] /\ Goes(t, "run")
                   ELSE EndRun(t, "not_due") /\ UNCHANGED lease
        /\ UNCHANGED <<clock, control>>

Charge(t) ==
    /\ used < DailyRequests
    /\ used' = used + 1
    /\ paced' = IF tick[t].day = Today THEN paced + 1 ELSE paced

Running(t) == At(t, "run") /\ lease' = [lease EXCEPT ![tick[t].provider] = "none"]

(* An attempt: a page, the last page of a cycle, or a failure that may be  *)
(* tried again.                                                            *)
RunAttempts(t) ==
    /\ At(t, "run") /\ tick[t].remaining > 0 /\ tick[t].pages < MaxPagesPerRun
    /\ Charge(t)
    /\ \E got \in {"lots", "no lots", "retry"} :
         tick' = [tick EXCEPT ![t] =
                    [@ EXCEPT !.remaining = tick[t].remaining - 1,
                         !.pages = IF got = "retry" THEN tick[t].pages ELSE tick[t].pages + 1,
                         !.barren = tick[t].barren /\ got # "lots"]]
    /\ UNCHANGED <<slot, control, sweeps>>

RunExhausts(t) ==
    /\ Running(t) /\ tick[t].pages > 0
    /\ due' = [due EXCEPT ![tick[t].provider] = @ \ {tick[t].partition}]
    /\ EndRun(t, "exhausted")
    /\ UNCHANGED <<clock, control, queue, waited>>

(* The pages of the run are done, the tick's attempts, or the job's time,  *)
(* which is not before the first attempt.                                  *)
RunStops(t) ==
    /\ Running(t)
    /\ tick[t].remaining = 0 \/ tick[t].pages > 0
    /\ EndRun(t, "completed")
    /\ UNCHANGED <<clock, control, queue, due, waited>>

(* The provider, the budget or the database fails.                         *)
RunFails(t) ==
    /\ Running(t)
    /\ \E reason \in {"lease_lost", "persistence_error", "provider_error"} : EndRun(t, reason)
    /\ UNCHANGED <<clock, control, queue, due, waited>>

(* The queue is done: an empty upstream is noted, and the tick ends.       *)
Finish(t) ==
    /\ At(t, "loop") /\ (tick[t].remaining = 0 \/ tick[t].runnable = {})
    /\ recoveryMode' = IF recoveryMode = "INVENTORY_RECOVERY" /\ tick[t].barren
                       THEN "EMPTY_UPSTREAM" ELSE recoveryMode
    /\ Ends(t)
    /\ UNCHANGED <<clock, sweeps, isPaused, active, events>>

(* A read or a write of the tick itself throws.                            *)
TickThrows(t) ==
    /\ tick[t].phase \in {"begin", "loop"}
    /\ Ends(t)
    /\ UNCHANGED <<clock, sweeps, isPaused, recoveryMode, active, events>>

-----------------------------------------------------------------------------
Pause ==
    /\ Event
    /\ isPaused' = ~ isPaused
    /\ UNCHANGED <<clock, sweeps, isTicking, recoveryMode, active, tick>>

(* Other requests, live searches for one, charge the same budget.          *)
OtherRequest ==
    /\ Event
    /\ used < DailyRequests /\ used' = used + 1
    /\ UNCHANGED <<slot, paced, isPaused, isTicking, recoveryMode, active, sweeps, tick>>

ClockTicks ==
    /\ slot < Days * SlotsPerDay - 1
    /\ slot' = slot + 1
    /\ IF (slot + 1) % SlotsPerDay = 0 THEN used' = 0 /\ paced' = 0 ELSE UNCHANGED <<used, paced>>
    /\ UNCHANGED <<control, sweeps, tick>>

LotsChange ==
    /\ Event
    /\ active' = ~ active
    /\ UNCHANGED <<clock, isPaused, isTicking, recoveryMode, sweeps, tick>>

CycleDue(p, k) ==
    /\ due' = [due EXCEPT ![p] = @ \cup {k}] /\ k \notin due[p]
    /\ UNCHANGED <<clock, control, lease, queue, waited, tick>>

(* The process dies and starts again: its ticks, its flag and its mode are *)
(* gone, and the leases of its runs stay until they expire.                *)
Crash ==
    /\ Event
    /\ tick' = [t \in Tick |-> NoTick]
    /\ isTicking' = FALSE /\ recoveryMode' = "NORMAL"
    /\ lease' = [p \in Providers |-> IF lease[p] = "none" THEN "none" ELSE "dead"]
    /\ UNCHANGED <<clock, isPaused, active, queue, due, waited>>

LeaseExpires(p) ==
    /\ lease[p] = "dead"
    /\ lease' = [lease EXCEPT ![p] = "none"]
    /\ UNCHANGED <<clock, control, queue, due, waited, tick>>

TickStep(t) ==
    \/ Guard(t) \/ Begin(t) \/ Select(t) \/ RunClaims(t)
    \/ RunAttempts(t) \/ RunExhausts(t) \/ RunStops(t) \/ RunFails(t)
    \/ Finish(t) \/ TickThrows(t)

Environment ==
    \/ Pause \/ OtherRequest \/ ClockTicks \/ LotsChange \/ Crash
    \/ \E p \in Providers : LeaseExpires(p) \/ \E k \in Partitions : CycleDue(p, k)

SchedulerNext ==
    \/ TimerFires \/ Environment
    \/ \E t \in Tick : AdminTick(t) \/ TickStep(t)

(* The steps of the timer's tick are callbacks, which the event loop gets  *)
(* to; nothing is asked of the ticks of administrators, which may hang.    *)
Fairness == WF_schedulerVars(TickStep(Timer))

SchedulerSpec == SchedulerInit /\ [][SchedulerNext]_schedulerVars /\ Fairness

-----------------------------------------------------------------------------
(* The ticks of a day are ahead of its pace by no more than one tick's     *)
(* attempts for each other tick that may run beside, whatever else charges *)
(* the budget, and ticks of the day before that still run.                 *)
PaceKept == paced <= PacedTarget + MaxPagesPerTick * (Cardinality(Tick) - 1)

(* The strengthening it is proved from counts the attempts that are        *)
(* promised to the ticks of the day as if they were charged already.       *)
TickRow ==
    [phase : {"idle", "guard", "begin", "loop", "claim", "run"}, day : Nat,
     remaining : 0 .. MaxPagesPerTick, runnable : SUBSET Providers, turn : Providers,
     provider : Providers, partition : Partitions, pages : Nat, barren : BOOLEAN]

SchedulerTypeOK ==
    /\ slot \in Nat /\ used \in Nat /\ paced \in Nat
    /\ queue \in [Providers -> [1 .. Len(Partition) -> Partitions]]
    /\ waited \in [Providers -> [Partitions -> Nat]]
    /\ tick \in [Tick -> TickRow]

Promised ==
    {ti \in Tick \X (1 .. MaxPagesPerTick) :
        tick[ti[1]].day = Today /\ ti[2] <= tick[ti[1]].remaining}

PaceInv ==
    /\ SchedulerTypeOK
    /\ \A t \in Tick : tick[t].day <= Today
    /\ paced <= used
    /\ paced + Cardinality(Promised)
          <= PacedTarget + MaxPagesPerTick * (Cardinality(Tick) - 1)

(* No partition of a provider waits for more than one run by each tick of  *)
(* each other partition, also when ticks that overlap choose alike.        *)
PartitionsTakeTurns ==
    \A p \in Providers, k \in Partitions :
        waited[p][k] <= Cardinality(Tick) * (Cardinality(Partitions) - 1)

(* The strengthening it is proved from: each run that a partition waited   *)
(* for was another partition's, by another tick, and that partition now    *)
(* comes after it and is not about to be started by that tick again.       *)
Orders ==
    {order \in [1 .. Len(Partition) -> Partitions] :
        /\ \A i, n \in 1 .. Len(Partition) : order[i] = order[n] => i = n
        /\ \A k \in Partitions : \E i \in 1 .. Len(Partition) : order[i] = k}

Before(order, a, b) ==
    \E i, n \in 1 .. Len(Partition) : i < n /\ order[i] = a /\ order[n] = b

Behind(p, k) == {j \in Partitions : Before(queue[p], k, j)}

Claims(t, p, j) == At(t, "claim") /\ tick[t].provider = p /\ tick[t].partition = j

RunsBehind(p, k) ==
    \E runs \in SUBSET (Behind(p, k) \X Tick) :
       /\ waited[p][k] = Cardinality(runs)
       /\ \A jt \in runs : ~ Claims(jt[2], p, jt[1])

TurnsInv ==
    /\ SchedulerTypeOK
    /\ queue \in [Providers -> Orders]
    /\ \A p \in Providers, k \in Partitions : RunsBehind(p, k)

(* The timer's tick ends, whatever its runs end with and whoever ticks     *)
(* beside it, and frees the flag that keeps every later one out.           *)
TicksEnd == isTicking ~> ~ isTicking
=============================================================================
