# A verification of the strong-auto backend

The backend serves a car marketplace and imports lots of the Copart and IAAI auctions from a
paid API. It is a NestJS server; its shared state is a PostgreSQL database reached through
Prisma, and several instances may run at once. This directory holds TLA+ models of its
parts, the configurations with which TLC checks them on small instances, and theorems about
them that TLAPS has checked.

Paths are relative to the repository, whose server is `src/src/` and whose web client is
`src/frontend/`.

## 1. The system

| Component | State | Operations | What is hard |
|---|---|---|---|
| Provider lease (`copart/provider-lease.service.ts`) | one row of `provider_leases` per provider: owner, fencing token, expiry, job | `claim`, `claimWithRecovery`, `renew`, `verifyOwnership`, `withLeasedTransaction`, `release`, `recoverStaleJobs` | several instances, expiry during work, lost answers, crashes |
| Import jobs (`copart/copart.service.ts`) | `import_jobs.status` | `sync`, `syncByPlatform`, `processImportJobWithPlatform` | a background worker per job, recovery of jobs whose worker died, errors after the lease was lost |
| Discovery sweep (`copart/discovery.service.ts`) | `discovery_checkpoints`, `discovered_lots` | `runDiscovery` | a sweep spans many runs; competes with imports for the lease; counts lots as missed |
| Request budget (`copart/request-budget.service.ts`) | month counters, per-provider counters, one row per attempt | `reserve`, `confirm`, `complete`, the usage snapshot | competing attempts, retries, calls out of order, change of month, pacing |
| Provider requests (`copart/provider-fetch.ts`, `auction-lot/rapidapi-transport.ts`) | none of their own | fetch with retries, deadline and budget hooks | hooks that fail, retries that repeat them |
| Freshness scheduler (`copart/freshness-scheduler.service.ts`) | `scheduler_state`, a local `isTicking` flag, the recovery mode, the rotation | start-up recovery, `guardedTick`, `tick` | overlapping ticks, pacing, checkpoints reset under a running sweep |
| Live search (`copart/auction-search.service.ts`) | `discovered_lots`, a cache, the requests in flight | `search` | two equal searches, sightings stored outside of any lease |
| Import of one lot (`copart/copart.service.ts`, `auction-lot/auction-lots.service.ts`) | source binding, vehicle, link of the lot | `importSingle`, `importPersistedLot` | concurrent imports, partial failure |
| Lot lifecycle and catalogue (`auction-lot/*`, `catalog/catalog.service.ts`) | the row of a lot | mapping, merging, eligibility, prices, lists, options, reports | one rule in several implementations, boundary cases of time |
| Marketplace (`marketplace/marketplace.service.ts`) | listing, vehicle, inquiry, review | create, edit, submit, approve, reject, renew, expire, sell; contact, close; review, reply, moderate | every operation reads, decides, and writes later |
| Hot offers (`hot-offers/hot-offers.service.ts`) | two settings rows (policy with overrides, snapshot), AI analyses and decisions | overrides, policy, public read, reviews | read-modify-write of a shared row, a cached build |
| Authentication (`auth/*`, `frontend/src/lib/api.ts`) | refresh sessions, one-time tokens, a tab's tokens | login, refresh, logout, reset, verify | rotation of tokens, two requests refused at once |
| Leads (`leads/leads.service.ts`) | leads and their history | request assistance, cancel, update, list | duplicates, two managers at once |
| Vehicles (`vehicles/vehicles.service.ts`) | vehicles and their publication | create, publish, hide, delete | lists and filter options that must agree |
| Broadcasts (`broadcasts/broadcasts.service.ts`) | broadcasts, notification rows | edit, delete, send | background sending, crashes |
| Calculator (`calculator/*`) | a cache, shared requests | previews, estimates | sharing and expiry, steps of fees |
| The rest: favorites, saved calculations, settings, users, news, files, mail, audit, health, pages, scripts | rows of their own | editing of single rows, queries, I/O | little |

How they interact. An import worker and a discovery run claim the lease of their provider before
they work, renew it by heartbeats, and write inside `withLeasedTransaction`, which locks the lease
row. Discovery runs, live searches and the scheduler's reconciliation write the same lots; the
scheduler starts the runs, decides how many requests they may spend, and its recovery mode
writes their checkpoints. Each request to the provider is reserved in the request budget first
and, where the caller has hooks for it, confirmed and completed after. The start of an instance,
a later claim, and an administrator recover jobs whose worker is gone. Catalogue, calculator,
hot offers and requests for assistance read the lots by the rules of eligibility and price.
The imports turn lots into vehicles; showroom and marketplace publish vehicles.

What makes each one correct: for the lease, that a worker who lost it cannot write; for import
jobs, that a live job is never given up and that a worker ends; for the sweep, that no page is
skipped or applied twice and no lot is counted as missed that was listed; for the budget,
that no attempt is lost or counted twice and that no month or day is overspent; for requests,
that none is sent without a reservation; for the scheduler, that its pace holds and no partition
starves; for the catalogue, that its implementations of one rule agree; for the marketplace, that
interleaved requests do what they would do one after another; for accounts, that a login has one
live session. `PROJECT.json` lists the hazards of each component at their lines, with the
properties that cover them.

## 2. The modules

| Module | Models | Checked by run | Proofs |
|---|---|---|---|
| `FencedOwnership` | abstract: ownership under fresh tokens, writes under the last one | refined by the next | |
| `ProviderLease` | the lease service | `lease` | `ProviderLeaseProofs` |
| `ImportJob` (extends `ProviderLease`) | import workers, discovery runs, crashes and recovery around one lease | `import` | `ImportJobProofs` |
| `DiscoverySweep` (extends `ProviderLease`) | discovery runs, checkpoints, lots, the recovery tick, live searches | `sweep` | `DiscoverySweepProofs` |
| `RequestBudget` | the ledger and its snapshot | `budget` | `RequestPacingProofs` |
| `ProviderRequests` | fetching with retries and hooks, and its five callers | `requests` | `ProviderRequestsProofs` |
| `FreshnessScheduler` | ticks, pacing, rotation, recovery mode | `scheduler` | `RequestPacingProofs` |
| `LotRules` | what the site says of a stored lot, each implementation of a rule apart | `catalog` | `ShopProofs` |
| `LotCatalog` (extends `LotRules`) | the writers of a lot's row, and time | `catalog` | `ShopProofs` |
| `ListingLifecycle` | abstract: one listing with each request handled alone | refined by the next | |
| `Marketplace` | one listing with its vehicle, inquiries and reviews | `marketplace` | `MarketplaceProofs` |
| `HotReview` | AI analyses and decisions of administrators | `hot` | `StorefrontProofs` |
| `HotOffers` (extends `HotReview`) | policy, overrides, snapshot, public reads | `hot`, `hot_excluded` | `StorefrontProofs` |
| `AuthSessions` | sessions and tokens on the server and in a tab | `accounts` | `ShopProofs` |
| `CustomerDesk` | requests for assistance, leads, their history | `shop` | `ShopProofs` |
| `VehicleImports` | lots that become vehicles | `shop` | `ShopProofs` |
| `Broadcasts`, `CalculatorEstimate` | sending; the built-in estimate | `shop` | `ShopProofs` |
| `CalculatorEngine`, `CatalogPages` | previews; pages of two providers | `shop` | `StorefrontProofs` |
| `Showroom` | lists and the options of their filters | `shop` | `ShopProofs` |
| `Lists` | what `filter` leaves of a list, for `HotOffers` and `CalculatorEngine` | `hot`, `shop` | `StorefrontProofs` |
| `MC...` | the sets, the symmetry and, for `hot` and `shop`, the parts of their instances | | |

Operators that a comment calls a *faulty variant* are not part of any specification. Each is what
an operator would be after a plausible programming mistake. Put in the place of the operator
named in `PROJECT.json` under `mutants`, it makes the listed property fail, which shows that the
property depends on that piece of code.

### ProviderLease

`lease` is the row of one provider; all statements are keyed by provider, so providers do not
interact. `claim`, `renew` and `release` run under `SELECT ... FOR UPDATE` or as one conditional
`UPDATE`, and are single steps that need the row to be unlocked. `withLeasedTransaction` is two
steps, `BeginLeased` and `CommitLeased` or `AbortLeased`, because the caller's function runs in
between; `txn` says who holds the lock meanwhile. `held[o]` is the token the service has
told worker `o`. A `claim` whose commit succeeds and whose answer is lost leaves `held` as it was.
The code compares the expiry in two ways, and both are kept: `claim` takes a lease over when the
expiry lies strictly before the clock, verification and recovery refuse it already at the expiry.

### ImportJob

`pc[j]` is where the worker of job `j` is; each step lies between two awaits of
`processImportJobWithPlatform`. Its token is fresh for each run, so the job stands for the token;
the other owners are discovery runs. Database errors take the exits the code has for them:
`Throw` leads to the catch block, which first releases the lease and then writes `FAILED`
(`CatchRelease`, `CatchFail`). `WorkerCrash` ends a worker anywhere and rolls its transaction
back; `Restart` is the start-up recovery of the instance, `RecoveryElsewhere` that of another
replica or of an administrator. What a page contains, and why paging stops, is left open.

Simplifications: an instance runs one worker when it crashes; a start-up recovery that fails
counts as one that has not run yet (the code logs and goes on); it is assumed to be enabled
(`SCHEDULER_ENABLED`).

### DiscoverySweep

`run[o]` holds the local variables of the run that drew the token `o`; each of its states lies
between two awaits of `runDiscovery`. A run claims (`ClaimRun`), upserts and reads the checkpoint
of its query outside the fence (`ReadCheckpoint`), and then leaves, restarts an exhausted cycle,
starts a row that has no cycle yet, or resumes (`ResumeFrom`). It fetches a page, takes the time
(`Fetch`), and stores page, misses and checkpoint in one leased transaction (`BeginWrite`,
`CommitPage`). Every commit may lose its answer, in which case the run gives up (`Written`). The
errors have the exits of the catch block: a note in the checkpoint, or at once the release.

`ckpt` are the checkpoint rows of one provider; `known`, `open`, `active`, `seen`, `misses`,
`refreshAt` are the columns of the lots that a sweep tests. The provider answers with any page:
its list may change between two requests. `sweep` is a history variable that nothing tests: when
the pages of a query without make and model began to be asked for, and what they listed.

The tick's recovery mode is three steps, since other work comes between them: it finds no active
lot, reads which rows are exhausted, and resets them one by one. The reconciliation's updates are
one step. A live search takes the time of a sighting and stores it later.

### RequestBudget

`reserve` reads the clock, then opens its transaction and waits for the row of the month, so it
is two steps with midnights in between: `CallReserve`, then `ReserveGrant` or `ReserveNoCharge`.
`confirm` and `complete` are conditional updates keyed by the attempt. They may be
called at any time, twice, or not at all. The month of a row is the one the call read; the day of
a row is the day of the insert. Months have equal length. The kinds of failure are one counter.
`Snapshot` recomputes caps and reasons from the row the way `getSnapshot` does, beside the
decision of `reserve`. `getUsage` reads its rows without a transaction and may mix two moments;
the model has the snapshot of one moment, which is what `reserve` sees under its lock.

### ProviderRequests

A caller is a request at a step between two awaits: `providerFetch` with its attempts, waits and
deadline, the hooks before and after an attempt, and around it the page of a discovery run, the
page of an import, a live search with its cache and its requests in flight, the browsing of an
administrator and the page of one lot. `ledger` is what `RequestBudget` keeps of an attempt. A
database call of a hook or of a caller may fail (`MaxFaults`), before its transaction commits or
after: the caller does not learn which. A reservation that is committed and answered by a refusal is
`unclaimed` in the ledger: allocated in the database, and unknown to its caller, who sends nothing
under it and never completes it. A hook that throws after the answer makes a refused request be sent again though `provider-fetch.ts:6` says that 4xx is not retried.
The property speaks of the callers as they are: a search, browsing and the page of one lot
reserve once and may send three requests, and an import leaves the attempts before its last one
allocated; `EveryRequestReserved` is about those with hooks, `PageAttemptsSettled` about pages.

### FreshnessScheduler

A tick is the timer's, behind `isTicking`, or an administrator's, which takes no flag. Its steps
are the awaits of `tick`: read the state, the daily share, the queue of providers, one discovery
run per attempt, the state written back. A run is here what it charges and why it ends.
`queue[p]` has the partitions of provider `p` in the order in which their checkpoints were last
started, `due[p]` those whose cycle is not exhausted: the next run is of the first of them that is
due. `paced` and `waited` are history: what the ticks of the day have charged, and the runs of others
each partition has waited for. The recovery mode and its way back are
there, with `EMPTY_UPSTREAM`, which only another empty inventory ends.

### LotRules and LotCatalog

`LotRules` has each rule as often as the code has it: `evaluateAuctionTruth` and
`publicCatalogWhere`, `hasFreshAuctionPrice` and `freshAuctionPriceWhere`,
`evaluateCatalogQuality` and the query's part of it, the second projection, the source record, the
calculator's and the assistance request's preconditions, the scheduler's tiers and the
administrator's lists and counters. `LotCatalog` has the writers: a discovery page, a live search
whose write comes later than its answer, a counted miss, the reconciliation in its
updates one after another, and the clock. A sighting is what the normalizer makes of the provider's
lot: its time with or without a zone, its auction date, state, prices, and one fault of quality.
Names and text are left out.

### Marketplace

A request is a read, which remembers the status it saw (`call[c].seen`), and a write, which is
conditional on that status where the code says so. Transactions that begin with a guarded update
of the listing are one step. `rejectListing` writes the listing and then its vehicle without a
transaction: two steps. `createListing` is two steps for the same reason. `renewListing` and
`approveListing` compute the expiry from a clock they read between their read and their write.
`Fail` ends a call at any point: a condition that no longer holds, a database error, a crash.
`version` stands for the content: an edit makes a new one. `submitted` is the version that was last
submitted, `round` counts the submissions, and `approved` and `approvedIn` are the version and the
submission that the last approval had read: history that the code does not keep.

### HotReview and HotOffers

`setting` and `snapshot` are the two settings rows. An edit of the overrides reads the row, writes
it whole, and then deletes the snapshot: three steps. A public read takes the fresh snapshot and
checks each lot again, or builds anew and saves what it built. The order of the offers
is by score, with the caps per make, model and provider. A policy that the code would refuse is
among the inputs. An analysis is found by digests; here by the lot and the facts it was made of, its
auction time among them.

### AuthSessions

A token is the second it was issued in: two tokens of one user and second are equal strings. A
refresh finds the session, revokes it and creates its successor in three steps. In the tab, a
request that is refused waits for the refresh of the others or begins one, as `api.ts` does;
tokens are removed when the refresh fails. `overlapped` and `since` are history.

### The shop's modules

`CustomerDesk`: a request for assistance is a transaction behind an advisory lock; the status of
a lead is read and written with its history. `Broadcasts`: the sender works through the
subscribers it read; its process may stop. `VehicleImports`: look for a binding, create the
vehicle, create the binding, in separate statements or in one serializable transaction.
`CalculatorEngine`: a cache with a bound, and callers that share a request. `CalculatorEstimate`:
the estimate while the fee tables are empty. `CatalogPages`: what a page shows of two lists, which
are merged card by card; whose turn it is depends on the cards taken of each and on the last ones.
`Showroom`: vehicles and lots with the fields that filters test, and the options offered for them. A
make, model or state is a word and its spelling: plain, in capitals, with an inner blank doubled, or
with blanks at its ends. `Trim` and `Canonical` do to a spelling what `optionalText`,
`stateFromLocation` and `canonicalOptionValue` do to a text; the comparisons of the lists (`Same`,
`Includes`) ignore case and see every blank. The USA list counts and filters body type, fuel,
transmission and drive as it does the make.

## 3. What TLC checks

| Run | Instance | Result |
|---|---|---|
| `lease` | 3 workers, 1 job, ttls 1 and 2, clock to 5, 4 grants | 36 312 states, holds |
| `import` | 2 jobs, 1 discovery run, 1 crash, clock to 4, 3 grants | 401 880 states, holds, with liveness |
| `sweep` | 2 runs, 2 queries (one a partition), 1 lot, 1 cursor, clock to 2, ttl and cycle interval 1, 1 recovery tick, and 1 crash, search or reconciliation | 1 923 062 states (runs symmetric), holds |
| `budget` | 3 attempts, 1 provider, a budget of 2 with 1 in reserve, a month of 2 days and the first day of the next | 364 108 states (attempts symmetric), holds |
| `requests` | 2 callers of any of the 5 kinds, room for 4 requests, an allowance of 2, 2 faults | 582 413 states (callers symmetric), holds |
| `scheduler` | the timer's tick and an administrator's, 2 partitions, a day of 2 slots and 5 requests, 1 other event | 337 652 states, holds, with liveness |
| `catalog` | 1 lot, six-hour steps to hour 54, shown at hours 0, 6 and 48, 2 stored sightings or misses | 96 060 states, holds |
| `marketplace` | 2 requests in flight, 1 buyer, clock to 2, 2 edits, 3 submissions | 2 976 817 states, holds |
| `hot` | 3 lots, 3 policies, 2 administrators, 1 reader, 2 workers, 1 reviewer, 2 facts, ttl 1 | 1 360 643 states, holds |
| `hot_excluded` | the same, with exclusions of a lot | violated: `ExcludedNotShown` |
| `accounts` | 1 user, 2 requests of a tab, 3 sessions, clock to 2 | 3 176 036 states (requests symmetric), holds |
| `shop` | 2 requests and 2 managers on 1 lot; 1 broadcast to 2 subscribers by 2 clerks; 3 imports of 2 lots; 2 previews of 3 inputs in a cache of 2; 12 lots of each provider on pages of 1, 3, 4 and 5; prices around each step; 1 vehicle and 2 lots in the showroom | 570 755 states, holds |

**lease.** A live lease changes hands only by its holder's release, and the status pages, which
look at its expiry alone, show one as live only while it has a holder (`ActiveLeaseNotStolen`);
writes commit in the order of the grants (`StaleWriterFencedOff`); the service implements
`FencedOwnership` (`ImplementsContract`). Three workers are enough for a holder, its successor
and a third that still remembers an old token; four grants let a released row be granted again
twice. That tokens are distinct and ordered is a theorem.

**import.** No recovery gives up the job of a worker whose lease is live (`LiveJobNotAbandoned`);
a superseded worker never writes `SUCCESS` (`SupersededNeverSucceeds`); every worker that was
queued ends or dies (`WorkersFinish`). One page suffices for every exit of the loop, since each
pass through the loop takes the same steps.

**sweep.** A page is written to the position it was fetched from, so that none is skipped or
applied twice (`PageFollowsCheckpoint`); a superseded run writes nothing
(`SupersededRunsWriteNothing`); a miss is counted only by a whole sweep that did not list the lot
(`NoFalseMiss`). Two tokens are enough for a run and its successor; one cursor gives sweeps of one
page and of two, in one run or in two; with clock 2 and interval 1 a second miss is just
reachable. Sweeps of more pages, more runs and more lots are left to the theorems.
Inherited rows are exhausted ones and ones older than the `cycleStartedAt` column.

**budget.** The caps (`CapsHold`), the counters (`CountersMatchRows`), the pacing
(`PacedForRemainingDays`: a routine grant leaves each remaining day of the month as many routine
requests as today has had), and that the snapshot, the scheduler's report and the import status
promise what `reserve` would do and add up (`SnapshotAgrees`). One provider suffices here: that
the counters of several are kept apart is part of the theorem. Two days and the first of the next month make every
change of day and month happen, and a budget of two with one in reserve every refusal.

**requests.** No hooked request is sent that the budget has not granted
(`EveryRequestReserved`); when a page is done each of its attempts has an outcome
(`PageAttemptsSettled`); one live search of a query is on its way at a time
(`OneSearchInFlight`). Two callers of any kinds meet at the ledger and at the cache; room for four
lets the budget run out in the middle of either's retries; two faults can hit two hooks of one call.
An attempt whose completion itself failed stays open; the property names those apart. So does an
attempt whose reservation was committed without an answer: the property says that it is the last of
its page, was never sent, and stays allocated.

**scheduler.** Ticks keep the day's pace up to the overlap with an administrator's
(`PaceKept`); no partition waits for more than one run by each tick of each other partition
(`PartitionsTakeTurns`); the timer's tick ends (`TicksEnd`). A day of two slots and five requests
makes shares that do not divide evenly.

**catalog.** The implementations of eligibility, effective state, price and counting agree
(`ViewsAgree`, whose parts are named in the module), and so do the administrators' dashboard, the
scheduler's counters of the day and oldest observation, and the recovery state; for a listed lot
every reader has the same price, the calculator, the hot offers and the recorded request among
them, and hot offers are the listed lots of good quality that have a price and are still to be
sold (`PricesAgree`); a lot that was hidden comes back only after the provider has shown it again
(`ReappearsOnlyWhenSeen`). The clock advances by six hours, so that each threshold (6, 12, 24, 48,
72, 168 hours) is met exactly and passed by a step; the provider shows the lot at hours 0, 6 and
48, which leaves time for it to grow stale and come back; two stored sightings are enough for a
merge and for an overtaken write. Inherited rows have no `listingObservedAt`, may have
been ended by time alone, and may have been missed twice.

**marketplace.** Public content is what was last submitted, and what an approval had read, unless the
listing was submitted anew between that read and the approval's write (`OnlyApprovedIsPublic`; with
two edits and three submissions the exception occurs, and without it TLC finds the property violated); a sale leaves no open
inquiry (`SaleIsComplete`); a renewed listing is not expired by a reconciliation that read it
before (`NotExpiredEarly`); every interleaving is one of `ListingLifecycle`
(`ImplementsLifecycle`).

**hot.** Overlapping edits leave no lot both pinned and excluded and no position given twice
(`OverridesConsistent`); shown lots were eligible when the request checked them, also when it
follows another's snapshot (`ShownIsEligible`); a snapshot in force is at most half an hour behind
the policy (`StaleAtMostTtl`); a worker that is told its analysis is stored finds its own
conclusion, and what is public as confirmed is listed with the facts it was concluded from
(`StoredIsOwnPayload`). A behaviour exercises one of four parts; they meet
in the readers, and a reader sees of the others only what its own part lets change.
**hot_excluded** is the finding below.

**accounts.** A refresh ends the session it continues (`OneLiveSessionPerLogin`), except where two
refreshes found it before either revoked it; a tab gives up its tokens only when the server no
longer takes them (`GivesUpOnlyDeadTokens`), except when the refresh's answer was lost or comes
after a new login. Both exceptions are what the code does (section 5).

**shop.** A behaviour exercises one of eight parts, which share no state their properties
are about, so that their state spaces add up instead of multiplying. Two overlapping requests of a
customer make one lead (`NoDuplicateRequests`); a lead's status is one that its history has led to
(`HistoryExplainsLead`), though after overlapping updates not always by the newest row; a sent broadcast was tried for everyone who stayed subscribed
(`SentMeansAttempted`); lot, binding and vehicle point at each other (`LinksAgree`); the
cache keeps its bound and nobody is shown an answer that is too old (`PreviewsSound`); a page is
full while lots are left and shows both providers while both have lots (`BothProvidersShown`); a dearer car costs more (`DearerCostsMore`), checked two
dollars around every step of the fees; an option that a filter offers leads to the cards
it counts (`OptionsLeadSomewhere`), on top of no filter, one, or one and a lowest price, except for what
section 5 says of blanks and prices; each exception occurs among the rows and queries of the run. A problem the dashboard counts leads to a vehicle
in the administrators' list, and a published vehicle is counted as one.

**The finding** (`hot_excluded`). An administrator excludes a lot, the edit and the deletion of the
snapshot are done, and a public read that begins afterwards still shows the lot: `getOverrides`
reads a policy that `getPolicy` has rebuilt field by field without the overrides. The comment in
the controller says that the operation excludes the lot.

**Bounds.** `MaxTime`, `LastHour`, `MaxClock`, `MaxMinute`, `MaxFence`, `MaxPages`, `SweepPages`, `MaxCrashes`,
`MaxTicks`, `MaxEvents`, `MaxFaults`, `MaxSightings`, `MaxSessions`, `MaxLeads`, `MaxNotices`,
`MaxVehicles`, `MaxLots`, `RenewLag`, `LastDay`, `Days`, `MaxVersion` bound clocks and counters, each
in the guard of the action that would pass it. `PageLimit` is the code's own limit of two pages;
`MaxItems`, `MaxPins`, `MaxSame...`, `MaxEntries`, `Window` and the ttls are limits of the code, made
small. Deadlock is checked where the system has no end: the budget and the marketplace. Elsewhere
clocks, grants, events or inputs are bounded, and an instance stops for good when they are used up.

**Fairness.** `ImportJob!FairSpec`: a worker, once queued, is driven by the event loop of its process
(weak fairness of its step); an open transaction of a discovery run ends, since Prisma gives
transactions a timeout; time passes; the platform restarts a crashed instance.
`FreshnessScheduler!SchedulerSpec`: a tick of the timer that has begun is driven by the event loop, each of
its awaits being a query or a request with a deadline. Sync calls, recoveries and ticks asked for by
administrators, and crashes are not promised. No other specification states fairness.

## 4. What is proved

TLAPS checks these for every value of the constants, under the named assumptions of the modules:
that bounds and times are natural numbers, that a sentinel is no value of the set it stands beside
(`LeaseAssumption`, `MarketAssumption`, `DeskAssumption`, `ImportsAssumption`, `NullAssumption`),
that attempts, subscribers, ticks and lots are finitely many (`BudgetAssumption`,
`BroadcastAssumption`, `SchedulerAssumption`, `OffersAssumption`), that each partition is listed once and
a day has a slot (`SchedulerAssumption`), that the default policy is a policy and weights are
integers (`OffersAssumption`), that pages, the cache and the ttl of previews are not empty
(`PagesAssumption`, `EngineAssumption`), that the showroom has finitely many cars and lots and no price,
text or region is the missing one (`ShowroomAssumption`), that prices and volumes are natural numbers
(`EstimateAssumption`), and that sightings have the fields the normalizer gives them and inherited
rows satisfy the row invariant of `LotCatalog` (`CatalogAssumption`). The rest (`SweepAssumption`,
`ImportAssumption`, `RequestsAssumption`, `ReviewAssumption`, `AuthAssumption`) says the same of its own
constants. TLC evaluates every assumption, and has checked every inductive invariant as an
invariant of its run before it was proved.

Every invariant and every action property that a passing run checks is the conclusion of one of
these theorems.

- `ProviderLeaseProofs`. The inductive invariant `LeaseInv` is the type invariant,
  `DistinctFences`, `TransactionKeepsRow` and `FenceOrder`. `FenceOrder` is the strengthening:
  distinct tokens survive a grant only because no worker knows a token above the row's, and the
  row's own token is known to its owner alone. From it: `FencesAreDistinct`,
  `TransactionsKeepTheRow`, `NobodySteals`, `StaleWritersAreFenced` and the refinement
  `LeaseImplementsContract`.
- `ImportJobProofs`. `ImportKeepsLease`: whatever workers, discovery runs, crashes and recoveries
  do is, to the lease, what `ProviderLease` allows, so its theorems hold of them. `ImportInv`
  adds to `LeaseInv` and the types `RowFollowsWorker`: what the row of a job may hold at each step
  of its worker, `ABANDONED` included wherever a recovery can come between. From it:
  `LiveJobsAreKept` (each recovery spares the job of a live lease), `SupersededAreRefused` (`SUCCESS`
  is written only by the owner of the lease, who by `FenceOrder` has the newest token) and
  `ResultsStay` (a result is never overwritten).
- `DiscoverySweepProofs`. `SweepKeepsLease`: every step of the composition is, to the lease, a step
  `ProviderLease` allows; so its theorems hold of discovery. `SweepInv` adds to `LeaseInv` and
  the types that a run has its token while it is under way (`RunKnowsToken`), that only a run which
  writes has a transaction open (`WriterIsWriting`), that a tick which resets was counted, and
  `OwnerKnowsRow`: before any recovery tick the run that owns the lease finds its row where
  it left it. This is inductive because each other writer of the row would have to own the
  lease, or only creates a row that is missing. From it: `PagesFollowCheckpoints`; and from the
  lease's invariant `SupersededNeverWrite`. `MissInv` adds that everything a sweep is counted by
  happened in order (`SweepsAreInOrder`). A sweep under way began no earlier than its row's cycle
  did, nor than the recovery tick that has yet to reset that row (`RowsAreInOrder`); the page its
  owner holds was asked for no earlier than that (`OwnersAreInOrder`); a lot it listed has been seen
  since (`ListedAreSeen`); misses are cycle intervals apart (`MissesTakeCycles`). The
  tick's clause is what a reset needs, since the tick took its time before pages that commit ahead
  of it. From it: `MissesAreReal`.
- `RequestPacingProofs`, on `RequestBudget`. `LedgerInv` is types, rows whose flags fit their
  status, and `CountersMatchRows`, which is needed because the caps are stated on rows and enforced
  on counters. The cardinality lemmas show that one granted attempt adds exactly one element to
  exactly the sets that are counted. From it: `LedgerTyped`, `CountersAreExact`, `CapsAreKept`,
  `BudgetIsPaced`, whose arithmetic core is that `u < (a + u) \div r` leaves `(r - 1) * (u + 1) <= a
  - 1`, and `SnapshotIsSound`.
- `RequestPacingProofs`, on `FreshnessScheduler`. `PaceKept` is not inductive, because a tick
  charges on the strength of what it read before others did. `PaceInv` counts what today's ticks
  may still charge (`Promised`) as if it were charged: the sum stays within the day's target and one
  full tick for each tick beside. From it: `TicksKeepPace`. `TurnsInv` says that each queue
  stays an order of the partitions, and that the runs a partition has waited for can be told apart
  by partition and tick, all of partitions now behind it in the queue and none by a tick that is
  about to start the same one again (`RunsBehind`); there are only so many such pairs. From
  it: `TurnsAreTaken`.
- `MarketplaceProofs`. `MarketInv` adds to the three state properties what makes them inductive:
  what a request in flight still knows (`CallsConsistent`: the status it saw is one its operation
  accepts, its clock has passed), that creation happens once and in order (`CreatedOnce`), and
  that submitted versions exist and only existing reviews have replies (`RecordsConsistent`), and
  that an approval in flight has read what is submitted now unless that was submitted since
  (`ApprovalsConsistent`). From it: each state property, `RenewalsAreSafe`, `RepliesAreFinal` and the refinement
  `MarketImplementsLifecycle`.
- `ProviderRequestsProofs`. `RequestsInv` adds to types, for each caller, that the attempts granted
  and sent follow the attempt it is at (`AttemptsCounted`: those granted are `1 .. k` with `k` the
  number of the current attempt or the one before), what a page has still to tell the budget
  (`PageAttempts`), and which steps a kind of caller can be at (`KindFits`); and that the search in
  flight is the one under way, or one that has just failed (`SearchTracked`). From it:
  `RequestsAreReserved`, `PagesAreSettled`, `SearchesAreSingle`. The first needs the count:
  a retry passes the gate again, and the property would not survive that step alone.
- `StorefrontProofs`, on `HotReview` and `HotOffers`. `ReviewInv`: a lot with its facts has one
  analysis (`UniqueAnalysis`), and who was told that his is stored finds it with his own payload
  (`StoredIsKept`): an insert is refused when another came first, and a decision replaces the
  current decision only. From it `StoredStaysOwn`, whose other half, that a public confirmation is
  among the confirmed and beside its facts, follows from the operators. `PolicyInv`: who builds
  under a policy took the time while that policy was saved (`HeldSince`), so what it saves later,
  with a validity that counts from that time, ends within `Ttl` of the policy's replacement. From it
  `SnapshotsAgeOut`. `OverridesInv` says of the rows that administrators hold between their read and
  their write what the property says of the stored one, since any of them may become it. That an
  edit keeps it rests on lemmas of what a filter and an insertion leave of a list. From it
  `OverridesStayConsistent`. `ReadersInv` says that snapshots and readers pass lists of lots to one
  another, and that what a reader is about to save or has answered was eligible when it read the
  lots. From it `ShownWereEligible`.
- `StorefrontProofs`, on `CatalogPages`. After `n` turns `n` cards have been taken, none more of a
  provider than it has, and while both have cards left no run is longer than three. `PagesInv` adds
  that there was a card to turn the page for. From them: `BothAreShown`.
- `StorefrontProofs`, on `CalculatorEngine`. `EngineInv` adds to types and `PreviewsSound` that an
  entry expires when its answer is too old to be shown. That the keys of the cache stay distinct and
  its bound is kept rests on the lemmas of a filter: it keeps distinct entries distinct, and a
  writer that finds the cache full makes room for one. From it: `PreviewsAreSound`.
- `ShopProofs`, one part for each module:
  - `CustomerDesk`. `DeskInv` adds to types and `NoDuplicateRequests` that one call holds the lock
    of a key (`OneHolder`) and that a call which is clear to insert has no recent lead of its key
    (`ClearToInsert`). The second needs the first: an insert of another holder would make what was
    read stale. From it: `RequestsAreNotDoubled`. `HistoryInv` says that each history explains its
    lead (`LeadsExplained`) and, since managers write what they decided from an earlier read, that
    each change under way starts from a status the lead has had and may complete it
    (`ChangesExplained`); statuses once reached stay reached. From it: `LeadsAreExplained`.
  - `VehicleImports`. `ImportsInv` adds to types and `LinksAgree` that vehicles are numbered as they
    are created (`VehiclesAreNumbered`), that a vehicle waiting for its binding is one import's
    (`DraftsAreOwn`), and that the legacy vehicle is bound only where it is linked
    (`LegacyIsLinked`). From it: `LinksAlwaysAgree`.
  - `Broadcasts`. In `BroadcastsInv` every loop has tried everyone who stays subscribed or still has
    them on its list (`MissesNobody`), and posts to the head of that list (`PostsToHead`), so
    that dropping the head loses nobody. From it: `SentWasAttempted`.
  - `CalculatorEstimate`. `DearerNeverCheaper` is arithmetic: each fee, rounded or stepped, is
    monotone in the price, and duty and tax are monotone in what they are taken of.
  - `AuthSessions`. In `SessionsInv` the interesting part is `OneSuccessor`: a login that no two
    refreshes found together has one live session and nobody who will issue another without ending
    it, or one refresh that is about to issue one and no session. That is inductive where the
    property alone is not: the step that issues a session must know that there is none. From it:
    `SessionsAreSingle`. `TabInv` relates the tab's tokens to its requests: one refresh is under way
    at most (`OneRefresh`); until the user logs in again the tab keeps the token that refresh asked
    with, or none, and a token that was refused stays without a session (`RefreshKnown`). From it:
    `OnlyDeadTokensAreGivenUp`.
  - `LotCatalog`. `CatalogInv` says of every stored row that it is typed, that the flag and the
    price of Buy Now go together until the lot ends (`BuyNowPriced`), and that it ends with the
    provider's result and is not ready only for want of a time (`EndsWithResult`), and that no
    listing and no price was observed after the lot's last answer (`ObservedInOrder`); both writers
    and each update of the reconciliation keep it. From it, and lemmas that set each database filter
    beside its row-level rule at an arbitrary hour: `ViewsAlwaysAgree` and `ReadersSeeOnePrice`.
    `HiddenUntilSeen`: time only moves a row further from being public, and no reconciliation
    touches a column the decision reads, except a result that it adds.
  - `Showroom`. What an option promises, but for stray blanks and prices, is a set of cards contained
    in the set its filter finds, each finite, whatever the filters chosen before: an option survives
    the trimming of the filter (`OptionIsTrimmed`), and a row without stray blanks passes the filter for
    each spelling of its option (`TidyRowIsFound`). `ShowroomTypeOK` is all that is needed of the state. From it: `OptionsAlwaysLead`.

Facts about lists and about functions defined by recursion on the naturals (what a filter leaves, that
the turns of a merge are defined and counted) are proved by least counterexample: if some number
fails there is a least one, because `<` is well founded on `Nat`, and the number before it does not
fail. The library's induction theorems are not used.

Only model-checked, and why:

- liveness (`WorkersFinish`, `TicksEnd`), which the prover does not do under fairness;
- the counterexample of `hot_excluded`, which is a behaviour and no theorem.

## 5. What the code does that its texts do not say

Met while modelling; the models behave like the code, and the properties are stated so that they
hold of it.

Leases and jobs.
- `recoverStaleJobs` (`copart/provider-lease.service.ts:589`) spares the job an unexpired lease names.
  After a crash and a quick restart the dead worker's job stays `RUNNING` until another recovery;
  `copart/freshness-scheduler.service.ts:203` says that it "Recovers jobs that were left RUNNING by a
  crashed instance".
- The catch block of a worker (`copart/copart.service.ts:666`) writes `FAILED` by id, over an
  `ABANDONED` of a recovery; line 648 says that a worker without the lease "cannot write terminal
  status".
- Two overlapping calls of `sync` or `syncByPlatform` (lines 94, 121) both create a job; a test
  (`copart/copart.service.spec.ts:604`) has the sequential case.
- `tick` (`copart/freshness-scheduler.service.ts:697`) resets checkpoints without a lease; the comment at
  line 163 says that each tick acquires one.

Scheduler and sweep.
- A sweep narrowed by year, search or status (`admin/admin.controller.ts:825`) is not a partition by
  the code's test, and counts each lot outside of its filter as missed. Ticks always pass make and
  model, so they never count a miss; and each tick moves `nextRefreshAt`, which a miss needs in the
  past, so that misses may not reach three while ticks run. Two such sweeps of different filters
  count a lot's misses independently of each other: its misses are a cycle interval apart only where one
  query counts them, and `NoFalseMiss` promises no more.
- `EMPTY_UPSTREAM` (line 819) does not end when lots come back: only a tick that finds none again
  leaves it, for the recovery mode.
- Public lots that inherited `ENDED` by time are in no tier of the scheduler until the next
  reconciliation; its report of unscheduled lots includes terminal ones and those that await a result.

Requests and budget.
- A hook that throws after the answer makes the fetch retry what is not to be retried. Attempts of
  an import before its last one stay allocated, and so does an attempt whose reservation is committed
  but answered by a refusal (`copart/request-budget.service.ts:252`): the transport does not keep its id. Searches, browsing and single imports reserve one
  request and may send three.
- `getUsage` reads its rows one after another and may show a mixture of two moments. The snapshot
  leaves out three kinds of failure.

Lots.
- `qualityExclusionWhere` (`auction-lot/catalog-quality.ts:163`) reads title, primary damage, make and
  model; lots that `evaluateCatalogQuality` excludes by body style, secondary damage or documents
  are listed, and their page answers `AUCTION_LOT_NOT_AVAILABLE`.
- An answer of a live search may overwrite a newer one of a page, `SOLD` by `OPEN` included; a
  live search creates rows outside the market's scope. `terminalAt` is never reset.
- Of the values of the administrator's filter `importState`, those of an earlier version never match.
- The pages of `interleaveProviders` are slices of different interleavings when the number of lots
  taken grows, so that a lot may be on two pages or on none.

Marketplace.
- `closeInquiry` (`marketplace/marketplace.service.ts:886`) writes by id and overwrites another closing
  or the sale's; `marketplace/marketplace.spec.ts:276` has the sequential case. Between the check and the creation of a
  review (line 968) a new contact may reopen the inquiry (`marketplace.spec.ts:376`).
- `rejectListing` (line 554) writes the vehicle apart from the listing and later; when it is late, a sold
  vehicle goes back to `DRAFT`. An approval (line 475) tests the status alone: content that was
  rejected, edited and submitted again meanwhile is approved unseen.

Accounts.
- Two refreshes that find one session before either revokes it leave the login two sessions. A
  refused refresh that ends after a new login clears the new tokens. Logging out does not tell the
  server. The link that verifies an address makes every account active, a blocked one too.

Shop.
- Two sends of one broadcast both send it; broadcasts by mail stay `SENDING`, and so do those whose
  process stopped. Nothing serves `scheduledAt`.
- Concurrent updates of a lead each add to its history what they read; it is no chain of states.
- Imports of one lot that overlap leave a draft vehicle that nothing refers to; lots imported by a
  job are not linked to their vehicle.
- Published vehicles that are not available or sold are listed, hide the lot linked to them, and
  answer 404.
- The options of the USA list merge rows that differ in blanks (`catalog/catalog.service.ts:69`; the test
  at `catalog/catalog.service.spec.ts:93` expects the merged count), while the list compares the raw
  column (line 344): rows with doubled blanks are counted and not found, and so are rows whose state has
  blanks at its ends. In the mixed list an option with blanks at its ends finds nothing, since the
  filter is trimmed. The options of the USA list ignore the filters for price, year and text (line
  473), which the list applies, taking a range of prices from 0 for none (line 372): an option may lead to
  fewer cards than it counts, or to none. Both ignore the mileage.

## 6. What is not modelled, and the plan

Not modelled: favorites and saved calculations, settings, users, news, pages, files, mail, audit,
health, bootstrap, the frontend beyond its tokens, and the scripts but one. They edit single rows,
answer queries, or do I/O; `PROJECT.json` gives the reason for each. Of modelled components: seller
profiles, the probe of a provider, the shape of answers, names, text and its search, media, the
external calculator. No part stands for the provider itself: it answers anything.

Nothing but tests calls the scheduler's `isDiscoveryDue`, `runDueDiscovery`, `classifyTier`,
`markLotStatus` and `calculatePriorityScore` or `AuctionSearchService.importLot`; they are left out, as are
`quota-ledger.ts` and the two adapters beside it.

What could be added, in this order:

1. A property for `closeInquiry` (section 5): the abstract listing allows the overwriting close, because
   the code does, so that nothing says which of two closings should stay.
2. Seller profiles and the probe of a provider, which no modelled part reads.
3. A composition of `FreshnessScheduler` with `DiscoverySweep`: the scheduler's runs charge and end as
   they like, the sweep's ticks only recover and reconcile. Their joint state space is beyond TLC at
   instances where both are interesting.
4. The liveness of a sweep, that an exhausted cycle is reached while ticks run; the provider's list
   may change for ever, so that it needs an assumption about the provider.
