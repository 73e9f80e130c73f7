--------------------------- MODULE DiscoverySweep ---------------------------
(***************************************************************************)
(* The discovery runs of copart/discovery.service.ts over one provider's   *)
(* list, the checkpoints they resume from, and the other writers of the    *)
(* lots: the scheduler's tick and the live search.                         *)
(*                                                                         *)
(* A run draws a fresh token, so the token stands for the run.  The        *)
(* provider's list may change between any two requests: a page holds any   *)
(* lots.  Times are whole units of the lease's clock.  A null time that    *)
(* the code treats as long past (nextDueAt, nextRefreshAt) is 0.           *)
(***************************************************************************)
EXTENDS ProviderLease

CONSTANTS Query,       \* query fingerprints, with their mode
          Partition,   \* the queries that name a make or a model
          Inherited,   \* queries that may have a row from before
          Lot,         \* external lot ids
          Cursor,      \* the opaque cursors of the provider
          NoCursor,    \* null: before the first page, and after the last
          SweepTtl,    \* IMPORT_JOB_TIMEOUT_MS + 60000
          PageLimit,   \* pages one run commits at most
          CycleGap,    \* CYCLE_INTERVAL_MS
          RefreshGap,  \* the refresh intervals of the three tiers
          MaxTicks,    \* bound on the scheduler's recovery ticks
          MaxEvents    \* bound on crashes, searches and reconciliations together

ASSUME SweepAssumption ==
    /\ Query # {}
    /\ Partition \subseteq Query
    /\ Inherited \subseteq Query
    /\ NoCursor \notin Cursor
    /\ SweepTtl \in Ttls
    /\ PageLimit \in Nat
    /\ CycleGap \in Nat
    /\ RefreshGap \subseteq Nat
    /\ MaxTicks \in Nat
    /\ MaxEvents \in Nat

VARIABLES ckpt,       \* discovery_checkpoints: the row of each query
          known,      \* the lots that have a row
          open,       \* those of them that are not SOLD, ENDED or REMOVED
          active,     \* those of these that are UPCOMING, OPEN or LIVE, not NOT_READY
          seen,       \* seen[l]: lastSeenAt
          misses,     \* misses[l]: consecutiveMisses
          refreshAt,  \* refreshAt[l]: nextRefreshAt
          run,        \* run[o]: the local variables of the run of token o
          tick,       \* the local variables of a tick in recovery mode
          ticks,      \* recovery ticks so far
          search,     \* the sightings a search has yet to store
          events,     \* crashes, searches and reconciliations so far
          sweep       \* history: the pages of each unpartitioned query's sweep

lotVars == <<known, open, active, seen, misses, refreshAt>>
vars == <<leaseVars, ckpt, lotVars, search, run, tick, ticks, events, sweep>>

Never == -1

Disturb == events < MaxEvents /\ events' = events + 1

CheckpointRow == [made : BOOLEAN, cursor : Cursor \cup {NoCursor}, cycle : Int,
                  exhausted : BOOLEAN, dueAt : Int]

RunState == {"idle", "claimed", "restarting", "starting", "paging", "persisting",
             "noting", "leaving", "done"}

Run == [at : RunState, query : Query, cursor : Cursor \cup {NoCursor}, cycle : Int,
        seenAt : Int, pages : Nat]

TypeOK == /\ LeaseTypeOK
          /\ ckpt \in [Query -> CheckpointRow]
          /\ known \subseteq Lot
          /\ open \subseteq known
          /\ active \subseteq open
          /\ seen \in [Lot -> Int]
          /\ misses \in [Lot -> Nat]
          /\ refreshAt \in [Lot -> Int]
          /\ run \in [Owner -> Run]
          /\ tick \in [at : {"idle", "counted", "resetting"}, now : Int,
                       todo : SUBSET Query]
          /\ ticks \in 0 .. MaxTicks
          /\ search \subseteq Lot \X Nat
          /\ events \in 0 .. MaxEvents
          /\ sweep \in [Query -> [since : Int, listed : SUBSET Lot]]

At(o, state) == run[o].at = state

(* What a run remembers before it begins and once it only has to leave. *)
Blank(state) == [at |-> state, query |-> CHOOSE q \in Query : TRUE,
                 cursor |-> NoCursor, cycle |-> Never, seenAt |-> Never, pages |-> 0]

Become(o, r) == run' = [run EXCEPT ![o] = r]

SameLots == UNCHANGED <<lotVars, search>>
SameRest == UNCHANGED <<tick, ticks, events>>

NoTick == [at |-> "idle", now |-> Never, todo |-> {}]

NoRow == [made |-> FALSE, cursor |-> NoCursor, cycle |-> Never,
          exhausted |-> FALSE, dueAt |-> 0]

FreshRow(t) == [made |-> TRUE, cursor |-> NoCursor, cycle |-> t,
                exhausted |-> FALSE, dueAt |-> 0]

(* A row from before is exhausted and due, or older than cycleStartedAt.   *)
OldRow == {[FreshRow(0) EXCEPT !.exhausted = TRUE], FreshRow(Never)}

Init == /\ LeaseInit
        /\ \E old \in [Inherited -> OldRow \cup {NoRow}] :
              ckpt = [q \in Query |-> IF q \in Inherited THEN old[q] ELSE NoRow]
        /\ known \in SUBSET Lot
        /\ open \in SUBSET known
        /\ active \in SUBSET open
        /\ seen = [l \in Lot |-> 0]
        /\ misses = [l \in Lot |-> 0]
        /\ refreshAt = [l \in Lot |-> 0]
        /\ run = [o \in Owner |-> Blank("idle")]
        /\ tick = NoTick
        /\ ticks = 0
        /\ search = {}
        /\ events = 0
        /\ sweep = [q \in Query |-> [since |-> Never, listed |-> {}]]

-----------------------------------------------------------------------------
(* A run of one query: claim, read the checkpoint, pages, release. *)

(* Faulty variant: the claim reads the row without locking it. *)
ClaimRunUnlocked(o, q) ==
    /\ At(o, "idle")
    /\ Grant(o, NoJob, SweepTtl)
    /\ Become(o, IF held'[o] # 0 THEN [Blank("claimed") EXCEPT !.query = q]
                 ELSE Blank("done"))
    /\ UNCHANGED <<now, txn, lastWrite, ckpt, sweep>>
    /\ SameLots /\ SameRest

(* A refused claim ends the run at once and changes nothing. *)
ClaimRun(o, q) ==
    /\ At(o, "idle")
    /\ RowFree
    /\ Grant(o, NoJob, SweepTtl)
    /\ Become(o, IF held'[o] # 0 THEN [Blank("claimed") EXCEPT !.query = q]
                 ELSE Blank("done"))
    /\ UNCHANGED <<now, txn, lastWrite, ckpt, sweep>>
    /\ SameLots /\ SameRest

(* Faulty variant: a cycle that is resumed counts from now. *)
ResumeFromNow(q, row) ==
    LET resumed == [Blank("paging") EXCEPT !.query = q, !.cursor = row.cursor]
    IN CASE row.exhausted /\ row.dueAt > now -> Blank("leaving")
         [] row.exhausted /\ row.dueAt <= now ->
              [resumed EXCEPT !.at = "restarting", !.cycle = now]
         [] ~row.exhausted -> [resumed EXCEPT !.cycle = now]

(* What a run makes of the row it has read. *)
ResumeFrom(q, row) ==
    LET resumed == [Blank("paging") EXCEPT !.query = q, !.cursor = row.cursor]
    IN CASE row.exhausted /\ row.dueAt > now -> Blank("leaving")
         [] row.exhausted /\ row.dueAt <= now ->
              [resumed EXCEPT !.at = "restarting", !.cycle = now]
         [] ~row.exhausted /\ row.cycle = Never ->
              [resumed EXCEPT !.at = "starting", !.cycle = now]
         [] OTHER -> [resumed EXCEPT !.cycle = row.cycle]

(* The upsert is not fenced. *)
ReadCheckpoint(o) ==
    LET q   == run[o].query
        row == IF ckpt[q].made THEN ckpt[q] ELSE FreshRow(now)
    IN /\ At(o, "claimed")
       /\ ckpt' = [ckpt EXCEPT ![q] = row]
       /\ Become(o, ResumeFrom(q, row))
       /\ UNCHANGED <<leaseVars, sweep>> /\ SameLots /\ SameRest

(* The upsert fails: the run only releases its lease. *)
ReadFails(o) ==
    /\ At(o, "claimed")
    /\ Become(o, Blank("leaving"))
    /\ UNCHANGED <<leaseVars, ckpt, sweep>> /\ SameLots /\ SameRest

(* The states in which a run asks for a leased transaction. *)
Writing == {"restarting", "starting", "persisting", "noting"}

BeginWrite(o) ==
    /\ run[o].at \in Writing
    /\ BeginLeased(o)
    /\ UNCHANGED <<ckpt, run, sweep>> /\ SameLots /\ SameRest

(* withLeasedTransaction answers null: not the owner, expired, or an error *)
(* that rolled the transaction back.  The run gives up.                    *)
WriteRefused(o) ==
    /\ run[o].at \in Writing
    /\ IF txn = o THEN AbortLeased(o) ELSE UNCHANGED leaseVars
    /\ Become(o, Blank("leaving"))
    /\ UNCHANGED <<ckpt, sweep>> /\ SameLots /\ SameRest

(* The transaction committed; its answer may still be lost.                *)
Written(o, r) == Become(o, r) \/ Become(o, Blank("leaving"))

(* A new cycle of an exhausted query. *)
CommitRestart(o) ==
    /\ At(o, "restarting")
    /\ CommitLeased(o)
    /\ ckpt' = [ckpt EXCEPT ![run[o].query] = FreshRow(run[o].cycle)]
    /\ Written(o, [run[o] EXCEPT !.at = "paging", !.cursor = NoCursor])
    /\ UNCHANGED sweep /\ SameLots /\ SameRest

(* A row from before cycleStartedAt gets one. *)
CommitStart(o) ==
    /\ At(o, "starting")
    /\ CommitLeased(o)
    /\ ckpt' = [ckpt EXCEPT ![run[o].query].cycle = run[o].cycle]
    /\ Written(o, [run[o] EXCEPT !.at = "paging", !.cursor = ckpt[run[o].query].cursor])
    /\ UNCHANGED sweep /\ SameLots /\ SameRest

-----------------------------------------------------------------------------
(* The pages. *)

(* listVehicles has a page; observedAt is taken before the transaction.    *)
Fetch(o) ==
    /\ At(o, "paging")
    /\ run[o].pages < PageLimit
    /\ Become(o, [run[o] EXCEPT !.at = "persisting", !.seenAt = now])
    /\ UNCHANGED <<leaseVars, ckpt, sweep>> /\ SameLots /\ SameRest

(* The request fails, or its page is malformed; when the tick's attempts   *)
(* are used up the error is not noted.                                     *)
FetchFails(o) ==
    /\ At(o, "paging")
    /\ run[o].pages < PageLimit
    /\ \E next \in {"noting", "leaving"} : Become(o, Blank(next))
    /\ UNCHANGED <<leaseVars, ckpt, sweep>> /\ SameLots /\ SameRest

(* lastError is written; only the lease sees it here. *)
CommitNote(o) ==
    /\ At(o, "noting")
    /\ CommitLeased(o)
    /\ Become(o, Blank("leaving"))
    /\ UNCHANGED <<ckpt, sweep>> /\ SameLots /\ SameRest

(* Faulty variant: an exhausted partition counts misses too. *)
MissedByAnyQuery(o, next) ==
    IF next # NoCursor THEN {}
    ELSE {l \in open' : seen'[l] < run[o].cycle /\ refreshAt[l] <= run[o].cycle}

(* The lots that the last page of a sweep counts as missed. *)
Missed(o, next) ==
    IF next # NoCursor \/ run[o].query \in Partition THEN {}
    ELSE {l \in open' : seen'[l] < run[o].cycle /\ refreshAt[l] <= run[o].cycle}

(* History: the sweep begins with the page that is asked for without a     *)
(* cursor, and its pages add up.                                           *)
Covered(o, listed) ==
    LET q == run[o].query IN
    IF q \in Partition THEN sweep[q]
    ELSE IF run[o].cursor = NoCursor
    THEN [since |-> run[o].seenAt, listed |-> listed]
    ELSE [since |-> sweep[q].since, listed |-> sweep[q].listed \cup listed]

(* One transaction: the page's lots (those in left are not over, those in  *)
(* ready are active), the misses of the last page, and the checkpoint.     *)
(* New lots of no interest are not stored; they are as if not listed.      *)
CommitPage(o, listed, left, ready, next) ==
    LET q == run[o].query
        t == run[o].seenAt
    IN /\ At(o, "persisting")
       /\ next = NoCursor \/ next # run[o].cursor
       /\ CommitLeased(o)
       /\ known' = known \cup listed
       /\ open' = (open \ listed) \cup left
       /\ active' = (active \ listed) \cup ready
       /\ seen' = [l \in Lot |-> IF l \in listed THEN t ELSE seen[l]]
       /\ misses' = [l \in Lot |-> IF l \in listed THEN 0
                                   ELSE IF l \in Missed(o, next) THEN misses[l] + 1
                                   ELSE misses[l]]
       /\ ckpt' = [ckpt EXCEPT ![q] =
                     [made |-> TRUE, cursor |-> next, cycle |-> ckpt[q].cycle,
                      exhausted |-> next = NoCursor,
                      dueAt |-> IF next = NoCursor THEN t + CycleGap ELSE 0]]
       /\ sweep' = [sweep EXCEPT ![q] = Covered(o, listed)]
       /\ Written(o, IF next = NoCursor THEN Blank("leaving")
                     ELSE [at |-> "paging", query |-> q, cursor |-> next,
                           cycle |-> run[o].cycle, seenAt |-> Never,
                           pages |-> run[o].pages + 1])
       /\ UNCHANGED <<refreshAt, search>> /\ SameRest

(* The limits of pages, time or attempts end the run. *)
StopPaging(o) ==
    /\ At(o, "paging")
    /\ Become(o, Blank("leaving"))
    /\ UNCHANGED <<leaseVars, ckpt, sweep>> /\ SameLots /\ SameRest

Leave(o) ==
    /\ At(o, "leaving")
    /\ Release(o)
    /\ Become(o, Blank("done"))
    /\ UNCHANGED <<ckpt, sweep>> /\ SameLots /\ SameRest

(* The process of the run dies, or hangs until all it does is refused. *)
CrashRun(o) ==
    /\ Disturb
    /\ Crash(o)
    /\ Become(o, Blank("done"))
    /\ UNCHANGED <<ckpt, sweep, tick, ticks>> /\ SameLots

-----------------------------------------------------------------------------
(* The scheduler's tick: its INVENTORY_RECOVERY and its reconciliation.    *)

(* No active lot, but old ones: the tick's time is already taken. *)
TickFindsNoInventory ==
    /\ tick = NoTick
    /\ ticks < MaxTicks
    /\ active = {} /\ known # {}
    /\ tick' = [at |-> "counted", now |-> now, todo |-> {}]
    /\ ticks' = ticks + 1
    /\ UNCHANGED <<leaseVars, ckpt, run, events, sweep>> /\ SameLots

(* Which rows are left to reset; after the last the tick goes on.          *)
Resetting(t, todo) ==
    IF todo = {} THEN NoTick ELSE [at |-> "resetting", now |-> t, todo |-> todo]

TickFindsExhausted ==
    /\ tick.at = "counted"
    /\ tick' = Resetting(tick.now, {q \in Query : ckpt[q].exhausted})
    /\ UNCHANGED <<leaseVars, ckpt, run, ticks, events, sweep>> /\ SameLots

(* The update is by id: it takes no lease and tests nothing again. *)
TickResets(q) ==
    /\ q \in tick.todo
    /\ ckpt' = [ckpt EXCEPT ![q] = FreshRow(tick.now)]
    /\ tick' = Resetting(tick.now, tick.todo \ {q})
    /\ UNCHANGED <<leaseVars, run, ticks, events, sweep>> /\ SameLots

(* Every tick gives the active lots their next refresh time, after lots    *)
(* that had ended without a result and are still ahead became active; lots *)
(* with a result lose theirs.                                              *)
Reconcile(revived, cleared) ==
    /\ Disturb
    /\ revived \subseteq known \ open
    /\ cleared \subseteq known \ (open \cup revived)
    /\ open' = open \cup revived
    /\ active' = active \cup revived
    /\ \E gap \in [active' -> RefreshGap] :
          refreshAt' = [l \in Lot |-> IF l \in active' THEN now + gap[l]
                                      ELSE IF l \in cleared THEN 0 ELSE refreshAt[l]]
    /\ UNCHANGED <<leaseVars, ckpt, known, seen, misses, search, run, tick, ticks, sweep>>

(* The live search stores the lots it has found, outside of any lease and  *)
(* with the time it saw them: an older sighting may replace a newer one,   *)
(* and then the history counts the lot as not listed.                      *)
SearchFinds(l) ==
    /\ Disturb
    /\ search' = search \cup {<<l, now>>}
    /\ UNCHANGED <<leaseVars, ckpt, lotVars, run, tick, ticks, sweep>>

SearchStores(l, t) ==
    /\ <<l, t>> \in search
    /\ search' = search \ {<<l, t>>}
    /\ known' = known \cup {l}
    /\ open' \in {open \cup {l}, open \ {l}}
    /\ active' \in {(active \ {l}) \cup (open' \cap {l}), active \ {l}}
    /\ seen' = [seen EXCEPT ![l] = t]
    /\ misses' = [misses EXCEPT ![l] = 0]
    /\ sweep' = IF t >= seen[l] THEN sweep
                ELSE [q \in Query |-> [sweep[q] EXCEPT !.listed = @ \ {l}]]
    /\ UNCHANGED <<leaseVars, ckpt, refreshAt, run, tick, ticks, events>>

Clock == /\ Tick
         /\ UNCHANGED <<ckpt, run, sweep>> /\ SameLots /\ SameRest

RunStep(o) ==
    \/ \E q \in Query : ClaimRun(o, q)
    \/ ReadCheckpoint(o) \/ ReadFails(o)
    \/ BeginWrite(o) \/ WriteRefused(o)
    \/ CommitRestart(o) \/ CommitStart(o)
    \/ Fetch(o) \/ FetchFails(o) \/ CommitNote(o)
    \/ \E listed \in SUBSET Lot : \E left \in SUBSET listed : \E ready \in SUBSET left :
          \E next \in Cursor \cup {NoCursor} : CommitPage(o, listed, left, ready, next)
    \/ StopPaging(o) \/ Leave(o)

TickStep ==
    \/ TickFindsNoInventory \/ TickFindsExhausted
    \/ \E q \in Query : TickResets(q)
    \/ \E revived, cleared \in SUBSET Lot : Reconcile(revived, cleared)

Next ==
    \/ \E o \in Owner : RunStep(o) \/ CrashRun(o)
    \/ TickStep
    \/ \E l \in Lot : SearchFinds(l) \/ \E t \in 0 .. now : SearchStores(l, t)
    \/ Clock

Spec == Init /\ [][Next]_vars

-----------------------------------------------------------------------------
(* Only the newest lease holder moves a checkpoint on or counts a miss: a  *)
(* run that was superseded while it waited for the provider changes        *)
(* neither, whatever it had fetched.                                       *)
SupersededRunsWriteNothing ==
    [][ \A o \in Owner :
          (At(o, "persisting") /\ run'[o] # run[o] /\ (ckpt' # ckpt \/ misses' # misses))
            => \A p \in Owner : held[p] <= held[o] ]_vars

(* As long as no recovery tick interferes, a page is written to the        *)
(* position it was fetched from, in the cycle the run has been counting    *)
(* in: no page of a sweep is skipped or applied twice, through any number  *)
(* of runs, crashes, lost answers and takeovers.                           *)
PageFollowsCheckpoint ==
    \A o \in Owner :
        (ticks = 0 /\ At(o, "persisting") /\ txn = o)
            => LET row == ckpt[run[o].query] IN
               /\ row.made /\ ~row.exhausted
               /\ row.cursor = run[o].cursor
               /\ row.cycle = run[o].cycle

(* The strengthening it is proved from: a run knows its token while it is  *)
(* under way, only a run that writes has a transaction open, a tick that   *)
(* resets was counted, and while a run owns the lease its row is where the *)
(* run takes it to be.                                                     *)
RunKnowsToken ==
    \A o \in Owner : (held[o] = 0) <=> (run[o].at \in {"idle", "done"})

WriterIsWriting ==
    txn # NoOwner => run[txn].at \in Writing

TicksAreCounted ==
    (tick.at # "idle" \/ tick.todo # {}) => ticks > 0

KnowsRow(o) ==
    LET row == ckpt[run[o].query] IN
    /\ run[o].at \in {"starting", "paging", "persisting"} => row.made /\ ~row.exhausted
    /\ run[o].at \in {"paging", "persisting"} => /\ row.cursor = run[o].cursor
                                                /\ row.cycle = run[o].cycle

OwnerKnowsRow == \A o \in Owner : (ticks = 0 /\ Owns(o)) => KnowsRow(o)

SweepInv ==
    LeaseInv /\ TypeOK /\ RunKnowsToken /\ WriterIsWriting /\ TicksAreCounted /\ OwnerKnowsRow

(* A lot is counted as missed only when a sweep without make and model     *)
(* ends that has asked for every page since its cycle began, and listed    *)
(* the lot on none (but for sightings a late search has put back),         *)
(* whatever runs, ticks and takeovers came between its pages.  Until a     *)
(* recovery tick, and if one query is the only one to count misses, each   *)
(* further miss takes a cycle interval, also when an exhausted query is    *)
(* run again at once: a lot is withdrawn after three.                      *)
NoFalseMiss ==
    [][ \A l \in Lot :
          misses'[l] > misses[l] =>
            \E q \in Query \ Partition :
               /\ ckpt'[q].exhausted /\ ~ckpt[q].exhausted
               /\ sweep'[q].since >= ckpt[q].cycle
               /\ l \notin sweep'[q].listed
               /\ (ticks = 0 /\ Query \ Partition = {q})
                    => now - seen[l] > CycleGap * (misses'[l] - 1) ]_vars

(* The strengthening it is proved from: nothing on record lies ahead of    *)
(* the clock; a sweep under way began no earlier than its cycle, nor than  *)
(* the tick that has yet to reset its row; a page of the owner was asked   *)
(* for no earlier than that, nor than any sweep began; a listed lot has    *)
(* been seen since; and misses are cycle intervals apart.                  *)
TimesArePast ==
    /\ \A q \in Query : ckpt[q].cycle <= now /\ sweep[q].since <= now
    /\ \A o \in Owner : run[o].cycle <= now
    /\ \A l \in Lot : seen[l] >= 0
    /\ tick = NoTick \/ tick.now \in 0 .. now

(* The times that the sweep of a query is not to have begun before.        *)
CycleBegan(q) == {ckpt[q].cycle} \cup (IF q \in tick.todo THEN {tick.now} ELSE {})

RowsAreInOrder ==
    \A q \in Query :
        /\ ckpt[q].made \/ ckpt[q] = NoRow
        /\ ckpt[q].exhausted \/ ckpt[q].cycle = Never => ckpt[q].cursor = NoCursor
        /\ q \notin Partition /\ ckpt[q].cursor # NoCursor
             => \A t \in CycleBegan(q) : sweep[q].since >= t

InOrder(o) ==
    LET q == run[o].query
        row == ckpt[q]
        began == CycleBegan(q) \cup {run[o].cycle}
    IN  /\ run[o].at \in {"starting", "paging", "persisting"} => row.made /\ ~row.exhausted
        /\ run[o].at \in {"restarting", "starting"} => run[o].cycle # Never
        /\ At(o, "restarting") /\ ticks = 0 => row.exhausted /\ row.dueAt <= run[o].cycle
        /\ At(o, "starting") => row.cursor = NoCursor
        /\ At(o, "starting") /\ ticks = 0 => row.cycle <= run[o].cycle
        /\ run[o].at \in {"paging", "persisting"} =>
              /\ row.cycle # Never
              /\ q \notin Partition /\ run[o].cursor # NoCursor
                   => \A t \in began : sweep[q].since >= t
        /\ At(o, "persisting") =>
              /\ run[o].seenAt \in 0 .. now
              /\ \A t \in began \cup {sweep[r].since : r \in Query} : run[o].seenAt >= t

OwnersAreInOrder == \A o \in Owner : Owns(o) => InOrder(o)

ListedAreSeen == \A q \in Query : \A l \in sweep[q].listed : seen[l] >= sweep[q].since

NextCycle(q) == IF ckpt[q].exhausted THEN ckpt[q].dueAt ELSE ckpt[q].cycle

MissesTakeCycles ==
    ticks = 0 =>
        \A q \in Query : Query \ Partition = {q} =>
            \A l \in Lot : misses[l] > 0 => NextCycle(q) > seen[l] + CycleGap * misses[l]

SweepsAreInOrder ==
    TimesArePast /\ RowsAreInOrder /\ OwnersAreInOrder /\ ListedAreSeen /\ MissesTakeCycles

MissInv == SweepInv /\ SweepsAreInOrder
=============================================================================
