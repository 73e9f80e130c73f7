----------------------------- MODULE LotCatalog -----------------------------
(***************************************************************************)
(* One lot of the public auction catalogue.  Its row is written by pages   *)
(* of a discovery run (discovery.service.ts), by live searches             *)
(* (auction-search.service.ts) and by the scheduler's reconciliation       *)
(* (freshness-scheduler.service.ts), while time passes; the list, the      *)
(* detail page, the calculator and the requests of customers read it by    *)
(* the rules of LotRules (auction-lots.service.ts, catalog.service.ts).    *)
(*                                                                         *)
(* A sighting is what normalizeDiscoveredLot makes of the provider's lot;  *)
(* s.at is its timestamp as the server reads it, s.ad its auction date.    *)
(* A search holds no lease: between its answer and its write a discovery   *)
(* page may store a newer one.                                             *)
(***************************************************************************)
EXTENDS LotRules, FiniteSets

CONSTANTS
    Sightings(_),  \* the sightings the provider may answer with at a time
    LegacyRows,    \* rows stored before the columns listing_ and price_observed_at
    Stride,        \* hours the clock advances
    LastHour,      \* bound on the clock
    MaxSightings   \* bound on stored sightings and counted misses

VARIABLES
    hour,
    lot,         \* the row, or Null
    answer,      \* what a live search holds and has not stored yet, or Null
    events

catalogVars == <<hour, lot, answer, events>>

NewLot == [listingObservedAt |-> Null, priceObservedAt |-> Null, terminalAt |-> Null,
           state |-> "DISCOVERED", freshnessTier |-> "COLD", nextRefreshAt |-> Null]

CatalogInit == hour = 0 /\ lot \in LegacyRows \cup {Null} /\ answer = Null /\ events = 0

-----------------------------------------------------------------------------
(* What a sighting says.  s.zone is what confirms its timestamp: an        *)
(* "offset" of its own, the zone of a known "facility", whose clock is     *)
(* behind the server's, or "nothing".                                      *)
FacilityBehind == 6

AuctionAtUtc(s) ==
    CASE s.zone = "offset" -> s.at
      [] s.zone = "facility" /\ s.at # Null -> s.at + FacilityBehind
      [] OTHER -> Null

Evidence(s) == IF AuctionAtUtc(s) = Null THEN "nothing" ELSE s.zone

IsTerminal(result) == result \in TerminalResults

ResultOf(s, schedule, t) ==
    CASE s.auctionState = "unsold" -> "UNSOLD"
      [] s.auctionState = "sold" -> "SOLD"
      [] s.auctionState = "removed" -> "REMOVED"
      [] OTHER -> IF schedule # Null /\ schedule < t THEN "RESULT_PENDING" ELSE "UNKNOWN"

LifecycleOf(s, schedule, t) ==
    CASE s.auctionState = "unsold" -> "ENDED"
      [] s.auctionState = "sold" -> "SOLD"
      [] s.auctionState = "removed" -> "REMOVED"
      [] s.auctionState \in {"ended", "open", "bidding"} -> "OPEN"
      [] s.auctionState = "live" -> "LIVE"
      [] OTHER -> IF schedule = Null THEN "NOT_READY"
                  ELSE IF schedule > t THEN "UPCOMING" ELSE "OPEN"

FreshnessOf(lifecycle) == IF lifecycle \in {"SOLD", "REMOVED"} THEN "TERMINAL" ELSE "FRESH"

(* A Buy Now that is announced without a price, or no longer, is cleared.  *)
OffersBuyNow(s) == s.isBuyNow /\ Positive(s.buyNowUsd)

(* The columns that both writers set alike.  Without a pricing block the   *)
(* price keeps the time it was observed at.                                *)
Observed(row, s, schedule, t) ==
    LET lifecycle == LifecycleOf(s, schedule, t) IN
    [auctionState |-> s.auctionState, fault |-> s.fault,
     auctionTime |-> AuctionAtUtc(s), evidence |-> Evidence(s),
     providerResultState |-> ResultOf(s, schedule, t),
     lifecycleState |-> lifecycle, freshnessState |-> FreshnessOf(lifecycle),
     currentBidUsd |-> s.currentBidUsd, buyNowUsd |-> s.buyNowUsd, isBuyNow |-> s.isBuyNow,
     listingObservedAt |-> t, lastProviderUpdateAt |-> t, lastSeenAt |-> t,
     priceObservedAt |-> IF s.hasPricing THEN t ELSE row.priceObservedAt,
     terminalAt |-> IF IsTerminal(ResultOf(s, schedule, t)) THEN t ELSE row.terminalAt,
     consecutiveMisses |-> 0, availabilityConfirmed |-> TRUE,
     state |-> row.state, freshnessTier |-> row.freshnessTier,
     nextRefreshAt |-> row.nextRefreshAt]

(* A slip: what the sighting says of Buy Now is stored as it is.           *)
AsAnnounced(row, s, schedule, t) == Observed(row, s, schedule, t)

(* A discovery page clears only the flag of a terminal lot.                *)
DiscoveredRow(row, s, schedule, t) ==
    LET seen == Observed(row, s, schedule, t) IN
    [seen EXCEPT !.isBuyNow = OffersBuyNow(s) /\ ~IsTerminal(seen.providerResultState),
                 !.buyNowUsd = IF OffersBuyNow(s) THEN @ ELSE Null]

SearchedRow(row, s, schedule, t) ==
    LET seen == Observed(row, s, schedule, t)
        kept == OffersBuyNow(s) /\ ~IsTerminal(seen.providerResultState)
    IN [seen EXCEPT !.isBuyNow = kept, !.buyNowUsd = IF kept THEN @ ELSE Null]

Stored(row) == IF row = Null THEN NewLot ELSE row

-----------------------------------------------------------------------------
(* A page of a discovery run: the result is judged by the timestamp as the *)
(* server reads it, and only lots in scope get a new row.                  *)
DiscoveryPage(s) ==
    /\ events < MaxSightings /\ events' = events + 1
    /\ lot # Null \/ AcceptsNewLot(s)
    /\ lot' = DiscoveredRow(Stored(lot), s, s.at, hour)
    /\ UNCHANGED <<hour, answer>>

SearchAnswers(s) ==
    /\ events < MaxSightings /\ events' = events + 1
    /\ answer = Null
    /\ answer' = s
    /\ UNCHANGED <<hour, lot>>

(* A live search judges the result by the confirmed time, or by the        *)
(* auction date of the provider when it has none.                          *)
SearchStores ==
    /\ answer # Null
    /\ lot' = SearchedRow(Stored(lot), answer,
                          Coalesce(AuctionAtUtc(answer), answer.ad), hour)
    /\ answer' = Null
    /\ UNCHANGED <<hour, events>>

(* An exhausted sweep of the whole provider did not see the lot.           *)
CountMiss ==
    /\ events < MaxSightings /\ events' = events + 1
    /\ lot # Null
    /\ Swept(lot)
    /\ lot.lifecycleState \notin {"SOLD", "ENDED", "REMOVED"}
    /\ lot.lastSeenAt < hour
    /\ lot.nextRefreshAt # Null => lot.nextRefreshAt <= hour
    /\ lot' = [lot EXCEPT !.consecutiveMisses = @ + 1]
    /\ UNCHANGED <<hour, answer>>

-----------------------------------------------------------------------------
(* The end of a tick: first the projections, each update on what the one   *)
(* before left, then the lots whose auction is over.                       *)
(* A slip: the recovery also forgets that a result is awaited.             *)
RecoveredWhole(row) ==
    IF row.providerResultState \in {"UNKNOWN", "RESULT_PENDING"} /\ AtLeast(row.auctionTime, hour)
    THEN [row EXCEPT !.lifecycleState = "UPCOMING", !.providerResultState = "UNKNOWN"] ELSE row

Recovered(row) ==
    IF /\ row.lifecycleState = "ENDED"
       /\ row.providerResultState \in {"UNKNOWN", "RESULT_PENDING"}
       /\ AtLeast(row.auctionTime, hour)
    THEN [row EXCEPT !.lifecycleState = "UPCOMING"] ELSE row

InTier(row, tier, hours) == [row EXCEPT !.freshnessTier = tier, !.nextRefreshAt = hour + hours]

(* Fifteen minutes to a lot sold within twelve hours: less than an hour.   *)
Tiered(row) ==
    IF row.lifecycleState \notin Active THEN row
    ELSE IF row.auctionTime = Null THEN InTier(row, "COLD", 12)
    ELSE IF row.auctionTime < hour THEN row
    ELSE IF row.auctionTime <= hour + 12 THEN InTier(row, "HOT", 1)
    ELSE IF row.auctionTime <= hour + 48 THEN InTier(row, "WARM", 2)
    ELSE InTier(row, "COLD", 12)

SeenSince(row, cutoff) ==
    \/ AtLeast(row.listingObservedAt, cutoff)
    \/ row.listingObservedAt = Null /\ AtLeast(row.lastProviderUpdateAt, cutoff)
    \/ /\ row.listingObservedAt = Null /\ row.lastProviderUpdateAt = Null
       /\ AtLeast(AvailabilityConfirmedAt(row), cutoff)

NeverSeenSince(row, cutoff) ==
    \A at \in {row.listingObservedAt, row.lastProviderUpdateAt, AvailabilityConfirmedAt(row)} :
        ~AtLeast(at, cutoff)

Refreshed(row) ==
    IF row.lifecycleState \notin Active THEN row
    ELSE IF SeenSince(row, hour - 48) THEN [row EXCEPT !.freshnessState = "FRESH"]
    ELSE IF NeverSeenSince(row, hour - 48) THEN [row EXCEPT !.freshnessState = "STALE"]
    ELSE row

Cleared(row) ==
    IF IsTerminal(row.providerResultState)
    THEN [row EXCEPT !.freshnessTier = "COLD", !.nextRefreshAt = Null] ELSE row

Reconcile ==
    /\ lot # Null /\ Swept(lot)
    /\ lot' = Cleared(Refreshed(Tiered(Recovered(lot))))
    /\ UNCHANGED <<hour, answer, events>>

AwaitResult ==
    /\ lot # Null /\ Swept(lot)
    /\ lot.lifecycleState \in Active \cup {"ENDED"}
    /\ lot.auctionTime # Null /\ lot.auctionTime < hour
    /\ lot.providerResultState = "UNKNOWN"
    /\ lot' = [lot EXCEPT !.providerResultState = "RESULT_PENDING"]
    /\ UNCHANGED <<hour, answer, events>>

(* An answer is stored long before the clock moves.                        *)
Tick ==
    /\ answer = Null
    /\ hour + Stride <= LastHour
    /\ hour' = hour + Stride
    /\ UNCHANGED <<lot, answer, events>>

CatalogNext ==
    \/ \E s \in Sightings(hour) : DiscoveryPage(s) \/ SearchAnswers(s)
    \/ SearchStores \/ CountMiss
    \/ Reconcile \/ AwaitResult
    \/ Tick

CatalogSpec == CatalogInit /\ [][CatalogNext]_catalogVars

-----------------------------------------------------------------------------
CountersAgree(l, metrics) ==
    LET stats == StatsOf(l, hour) health == metrics.health IN
    /\ stats = {} <=> ~Listed(l, hour)
    /\ Cardinality(stats \cap {"live", "upcoming"}) = Cardinality(stats \cap {"current"})
    /\ "buyNow" \in stats <=> Listed(l, hour) /\ ListPrice(l, hour).buyNowAvailable
    /\ metrics.group = "publicNow" <=> metrics.class = "current"
    /\ metrics.group = "publicNow" <=> metrics.covered
    /\ metrics.group = "publicNow" <=> (Listed(l, hour) /\ Quality(l) = "none")
    /\ Cardinality(health \cap {"confirmedHorizon", "outOfHorizon", "unscheduled"}) = 1
    /\ metrics.group = "publicNow" => health \subseteq {"confirmedHorizon", "stalePrice"}
    /\ metrics.group = "outsideWindow" => "outOfHorizon" \in health
    /\ metrics.group = "archivedConfirmed" =>
          "resultPending" \notin health /\ TiersOf(l) \cup PendingTiers(l, hour) = {}
    /\ PendingTiers(l, hour) \cup StaleTiers(l) \subseteq TiersOf(l)
    /\ metrics.group = "publicNow" /\ l.lifecycleState # "ENDED" => TiersOf(l) # {}

DashboardsAgree(l, metrics) ==
    LET dashboard == DashboardLots(l, hour)
        age == OldestObservation({l}, hour) IN
    /\ StatsOf(l, hour) # {} => "activePublic" \in dashboard
    /\ CatalogState({l}, hour) = "INVENTORY_RECOVERY" <=> "activePublic" \notin dashboard
    /\ metrics.group = "publicNow" <=> ("activePublic" \in dashboard /\ Quality(l) = "none")
    /\ "stale" \in dashboard =>
          "activePublic" \notin dashboard /\ "unscheduled" \in metrics.health /\ TiersOf(l) = {}
    /\ Listed(l, hour) /\ HasFreshPrice(l, hour) => UpdatedToday(l, hour) # {}
    /\ age # Null => age >= 0 /\ (Listed(l, hour) => age <= ListingFreshWindow)

FoundUnderOneValue(item, filters) == \A f \in filters :
    Cardinality({v \in AdminFilters[f] : AdminLots({item}, [g \in {f} |-> v]) # {}}) = 1

FoundByOperators(detail) ==
    LET item == detail.item IN
    /\ FoundUnderOneValue(item, DOMAIN AdminFilters)
    /\ item.publicVisible =>
          /\ item.freshness = "FRESH" /\ item.v2.reasonCode \in {"OK", "STALE_PRICE"}
          /\ item.calculator = "input_ready" <=>
                (item.v2.reasonCode = "OK" /\ item.price.basis # "none")
          /\ detail.qualityReasonCode = "none" <=> OperatorGroup(lot, hour) = "publicNow"

(* The filters of the database and the rules of the rows agree on which    *)
(* lots are public, live or upcoming, and have a price to filter by; the   *)
(* second projection hides no public lot, nor the price of one; what       *)
(* operators count as public is what the list has of good quality; the     *)
(* counters of the dashboards contradict neither the list nor each other,  *)
(* the scheduler's tiers have every public lot it has not yet to recover   *)
(* and none that ended or is stale on the dashboard, and its status says   *)
(* that it heard of a listed lot within two days, and within one if there  *)
(* is a price to show;                                                     *)
(* and operators find every lot under one accepted value of each filter,   *)
(* ready for the calculator when the public may see its price.             *)
ViewsAgree == lot # Null =>
    /\ VisibleWhere(lot, hour) <=> Visible(lot, hour)
    /\ Visible(lot, hour) =>
         /\ \A k \in {"UPCOMING", "LIVE", "ENDED"} :
                LifecycleWhere(lot, k) <=> Lifecycle(lot, hour) = k
         /\ FreshPriceWhere(lot, hour) <=> HasFreshPrice(lot, hour)
         /\ LET v2 == ProjectionV2(lot, hour) IN
            /\ v2.publicVisible
            /\ v2.showPriceAndCta <=> HasFreshPrice(lot, hour)
    /\ LET metrics == AdminMetrics(lot, Null, hour)
       IN  CountersAgree(lot, metrics) /\ DashboardsAgree(lot, metrics)
    /\ FoundByOperators(AdminLotDetail(lot, Null, hour))
    /\ \A publication \in {"DRAFT", "PUBLISHED", "ARCHIVED"} :
          FoundUnderOneValue(AdminItem(lot, publication, hour), {"importState"})

(* What the readers of a listed lot make of its price.                     *)
OnePrice(l) ==
    LET shown == ListPrice(l, hour)
        start == CalculatorInput(l, hour) IN
    /\ CatalogPrice(l, hour) = shown
    /\ DetailOpens(l, hour) => FoundByNumber(l, hour) /\ DetailPrice(l, hour) = shown
    /\ start.basis = shown.basis /\ start.priceUsd = shown.primaryUsd
    /\ shown.buyNowAvailable <=> shown.basis = "buyNow"
    /\ \A intent \in {"buyNow", "currentBid"} :
          LET request == AssistancePrice(l, intent, hour) IN
          /\ request.status = "available" <=> shown.basis = intent
          /\ request.status = "available" => request.priceUsd = shown.primaryUsd
    /\ HotTiers(l, hour) # {} <=>
          Quality(l) = "none" /\ shown.basis # "none" /\ l.auctionTime > hour
    /\ HotTiers(l, hour) # {} => HotPrice(l) = shown

(* For a listed lot every reader has the same price: the lists and the     *)
(* detail page show it, the calculator starts from it, a customer's        *)
(* request records it, and a request of the other kind is refused.  The    *)
(* hot offers may have every listed lot that is priced, of good quality    *)
(* and still to be sold, for that price, and no other lot.                 *)
PricesAgree == lot # Null =>
    /\ Listed(lot, hour) => OnePrice(lot)
    /\ HotTiers(lot, hour) # {} => Listed(lot, hour)

(* A lot that the public cannot see, because it ended, awaits its result,  *)
(* is unavailable or was not seen for long, is seen again only after the   *)
(* provider has shown it: neither time nor the scheduler brings it back.   *)
ReappearsOnlyWhenSeen == [][
    /\ lot # Null
    /\ Truth(lot, hour) \notin {"PUBLIC", "AUCTION_OUT_OF_HORIZON"}
    /\ Visible(lot', hour')
    => SearchStores \/ \E s \in Sightings(hour) : DiscoveryPage(s)]_catalogVars

-----------------------------------------------------------------------------
(* What makes these hold: the types, a flag and price of Buy Now that go   *)
(* together, a life that ends with the provider's result, and a lot that   *)
(* is not ready only for want of a time.                                   *)
Hour == Int \cup {Null}
Price == Int \cup {Null}

AuctionState == {"unsold", "sold", "removed", "ended", "open", "bidding", "live", "other"}
Flaw == {"none", "oldYear", "commercialTitle", "commercialBody", "unknownModel",
          "junkTitle", "junkDocument", "firePrimary", "fireSecondary"}

Sighted ==
    [at : Hour, ad : Hour, zone : {"offset", "facility", "nothing"},
     auctionState : AuctionState, fault : Flaw,
     isBuyNow : BOOLEAN, buyNowUsd : Price, currentBidUsd : Price, hasPricing : BOOLEAN]

LotRow ==
    [auctionState : AuctionState, fault : Flaw,
     auctionTime : Hour, evidence : {"offset", "facility", "nothing"},
     providerResultState : {"UNKNOWN", "RESULT_PENDING"} \cup TerminalResults,
     lifecycleState : {"UPCOMING", "OPEN", "LIVE", "ENDED", "SOLD", "REMOVED", "NOT_READY"},
     freshnessState : {"FRESH", "STALE", "TERMINAL"},
     currentBidUsd : Price, buyNowUsd : Price, isBuyNow : BOOLEAN,
     listingObservedAt : Hour, lastProviderUpdateAt : Hour, lastSeenAt : Int,
     priceObservedAt : Hour, terminalAt : Hour,
     consecutiveMisses : Nat, availabilityConfirmed : BOOLEAN,
     state : {"DISCOVERED", "IMPORTED"}, freshnessTier : {"HOT", "WARM", "COLD"},
     nextRefreshAt : Hour]

BuyNowPriced(l) ==
    /\ l.isBuyNow => Positive(l.buyNowUsd)
    /\ Positive(l.buyNowUsd) => l.isBuyNow \/ IsTerminal(l.providerResultState)

EndsWithResult(l) ==
    /\ IsTerminal(l.providerResultState) => l.lifecycleState \in {"ENDED", "SOLD", "REMOVED"}
    /\ l.lifecycleState \in {"SOLD", "REMOVED"} => IsTerminal(l.providerResultState)
    /\ l.lifecycleState = "NOT_READY" => l.auctionTime = Null

RowOK(l) == l \in LotRow /\ BuyNowPriced(l) /\ EndsWithResult(l)

(* Neither the listing nor the price was observed after the last answer    *)
(* about the lot, and that is past.                                        *)
ObservedInOrder(l, t) ==
    /\ l.lastProviderUpdateAt # Null => l.lastProviderUpdateAt <= t
    /\ \A at \in {l.listingObservedAt, l.priceObservedAt} :
          at # Null => l.lastProviderUpdateAt # Null /\ at <= l.lastProviderUpdateAt

ASSUME CatalogAssumption ==
    /\ Stride \in Nat /\ LastHour \in Nat
    /\ \A row \in LegacyRows : RowOK(row) /\ ObservedInOrder(row, 0)
    /\ \A t \in 0 .. LastHour : Sightings(t) \subseteq Sighted

CatalogInv ==
    /\ hour \in 0 .. LastHour
    /\ answer \in Sighted \cup {Null}
    /\ lot # Null => RowOK(lot) /\ ObservedInOrder(lot, hour)
=============================================================================
