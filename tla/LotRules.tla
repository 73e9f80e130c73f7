------------------------------ MODULE LotRules ------------------------------
(***************************************************************************)
(* What the site says of a stored auction lot at a given time: whether it  *)
(* is public, how its life is displayed, whether its price may be shown.   *)
(* The code has each rule more than once: as a function of a row           *)
(* (evaluateAuctionTruth, hasFreshAuctionPrice, evaluateCatalogQuality),   *)
(* as a filter of the database (publicCatalogWhere, freshAuctionPriceWhere,*)
(* qualityExclusionWhere) and as the second projection (projection-v2.ts). *)
(* Each is an operator of its own here.                                    *)
(*                                                                         *)
(* l is a row of discovered_lots; times are in hours; Null is null.        *)
(***************************************************************************)
EXTENDS Integers

CONSTANT Null

ASSUME NullAssumption == Null \notin Int

ListingFreshWindow == 48
AuctionHorizon == 168

Coalesce(a, b) == IF a # Null THEN a ELSE b
Positive(price) == price # Null /\ price > 0
AtLeast(a, t) == a # Null /\ a >= t         \* gte, of a column that may be null

TerminalResults == {"SOLD", "UNSOLD", "REMOVED"}

-----------------------------------------------------------------------------
(* When the listing and its price were last observed.                      *)
AvailabilityConfirmedAt(l) == IF l.availabilityConfirmed THEN l.lastSeenAt ELSE Null

ListingObservedAt(l) ==
    Coalesce(l.listingObservedAt, Coalesce(l.lastProviderUpdateAt, AvailabilityConfirmedAt(l)))

HasPrice(l) == Positive(l.currentBidUsd) \/ Positive(l.buyNowUsd)

PriceObservedAt(l) ==
    Coalesce(l.priceObservedAt, IF HasPrice(l) THEN l.lastProviderUpdateAt ELSE Null)

(* The nearer the auction, the younger a price has to be.                  *)
MaxPriceAge(auctionTime, now) ==
    IF auctionTime = Null THEN 24
    ELSE IF auctionTime - now <= 24 THEN 6
    ELSE IF auctionTime - now <= 72 THEN 12
    ELSE 24

HasFreshPrice(l, now) ==
    /\ PriceObservedAt(l) # Null
    /\ now - PriceObservedAt(l) <= MaxPriceAge(l.auctionTime, now)

-----------------------------------------------------------------------------
(* The canonical decision: "PUBLIC" or why not, in the order of the code.  *)
Unavailable(l) ==
    ~l.availabilityConfirmed \/ l.state = "UNAVAILABLE" \/ l.consecutiveMisses >= 3

Stale(l, now) == ~AtLeast(ListingObservedAt(l), now - ListingFreshWindow)

Truth(l, now) ==
    IF l.providerResultState \in TerminalResults THEN "TERMINAL_RESULT"
    ELSE IF l.providerResultState = "RESULT_PENDING" THEN "RESULT_PENDING"
    ELSE IF Unavailable(l) THEN "UNAVAILABLE"
    ELSE IF Stale(l, now) THEN "LISTING_STALE"
    ELSE IF l.auctionTime = Null \/ AtLeast(l.auctionTime, now + AuctionHorizon)
      THEN "AUCTION_OUT_OF_HORIZON"
    ELSE IF l.auctionTime < now THEN "RESULT_PENDING"
    ELSE "PUBLIC"

Visible(l, now) == Truth(l, now) = "PUBLIC"

LiveState(l) == l.auctionState \in {"live", "bidding"}

Lifecycle(l, now) ==
    IF Truth(l, now) = "TERMINAL_RESULT"
      THEN IF l.providerResultState = "UNSOLD" THEN "ENDED" ELSE l.providerResultState
    ELSE IF Truth(l, now) = "RESULT_PENDING" THEN "ENDED"
    ELSE IF Truth(l, now) # "PUBLIC" /\ ~AtLeast(l.auctionTime, now) THEN "NOT_READY"
    ELSE IF LiveState(l) THEN "LIVE" ELSE "UPCOMING"

(* The same decision as conditions on columns.                             *)
VisibleWhere(l, now) ==
    /\ l.availabilityConfirmed
    /\ l.state # "UNAVAILABLE"
    /\ l.consecutiveMisses < 3
    /\ AtLeast(l.auctionTime, now) /\ l.auctionTime < now + AuctionHorizon
    /\ l.providerResultState \notin TerminalResults \cup {"RESULT_PENDING"}
    /\ \/ AtLeast(l.listingObservedAt, now - ListingFreshWindow)
       \/ l.listingObservedAt = Null /\ AtLeast(l.lastProviderUpdateAt, now - ListingFreshWindow)
       \/ /\ l.listingObservedAt = Null /\ l.lastProviderUpdateAt = Null
          /\ l.availabilityConfirmed
          /\ AtLeast(l.lastSeenAt, now - ListingFreshWindow)

LifecycleWhere(l, lifecycle) ==
    CASE lifecycle = "LIVE" -> LiveState(l)
      [] lifecycle = "UPCOMING" -> ~LiveState(l)
      [] OTHER -> FALSE

PriceObservedOnOrAfter(l, cutoff) ==
    \/ AtLeast(l.priceObservedAt, cutoff)
    \/ l.priceObservedAt = Null /\ AtLeast(l.lastProviderUpdateAt, cutoff) /\ HasPrice(l)

(* A slip: a lot whose auction is in exactly a day counts as a later one.  *)
StrictPriceWhere(l, now) ==
    /\ AtLeast(l.auctionTime, now)
    /\ IF l.auctionTime < now + 24 THEN PriceObservedOnOrAfter(l, now - 6)
       ELSE IF l.auctionTime <= now + 72 THEN PriceObservedOnOrAfter(l, now - 12)
       ELSE PriceObservedOnOrAfter(l, now - 24)

FreshPriceWhere(l, now) ==
    /\ AtLeast(l.auctionTime, now)
    /\ \/ l.auctionTime <= now + 24 /\ PriceObservedOnOrAfter(l, now - 6)
       \/ /\ l.auctionTime > now + 24 /\ l.auctionTime <= now + 72
          /\ PriceObservedOnOrAfter(l, now - 12)
       \/ l.auctionTime > now + 72 /\ PriceObservedOnOrAfter(l, now - 24)

-----------------------------------------------------------------------------
(* The second projection: what is not terminal and not past is visible in  *)
(* the horizon while its listing is fresh, with a price while that is.     *)
Schedule(l, now) ==
    IF l.providerResultState \in TerminalResults THEN "TERMINAL"
    ELSE IF l.auctionTime # Null /\ l.auctionTime < now THEN "RESULT_PENDING"
    ELSE IF l.auctionTime = Null THEN "UNSCHEDULED"
    ELSE IF l.auctionTime < now + AuctionHorizon THEN "SCHEDULED_ACTIVE"
    ELSE "SCHEDULED_OUT_OF_HORIZON"

ListingFreshness(l, now) ==
    IF ListingObservedAt(l) # Null /\ now - ListingObservedAt(l) <= ListingFreshWindow
    THEN "FRESH" ELSE "STALE"

PriceFreshness(l, now) == IF HasFreshPrice(l, now) THEN "FRESH" ELSE "MISSING_OR_STALE"

ProjectionV2(l, now) ==
    LET schedule == Schedule(l, now)
        listing == ListingFreshness(l, now)
        price == PriceFreshness(l, now)
        visible == schedule = "SCHEDULED_ACTIVE" /\ listing = "FRESH"
    IN  [schedule |-> schedule, listing |-> listing, price |-> price,
         publicVisible |-> visible,
         showPriceAndCta |-> visible /\ price = "FRESH",
         reasonCode |-> IF schedule # "SCHEDULED_ACTIVE" THEN schedule
                        ELSE IF listing = "STALE" THEN "STALE_LISTING"
                        ELSE IF price # "FRESH" THEN "STALE_PRICE" ELSE "OK"]

-----------------------------------------------------------------------------
(* l.fault is the one thing in the row that a pattern of the quality rules *)
(* matches, or "none".  A commercialBody is in the body style, or a word   *)
(* of the title that only the row-level rule knows (pickup, van).          *)
Quality(l) ==
    CASE l.fault = "oldYear" -> "YEAR_TOO_OLD"
      [] l.fault \in {"commercialTitle", "commercialBody"} -> "COMMERCIAL_VEHICLE"
      [] l.fault = "unknownModel" -> "OUTSIDE_MARKET_SCOPE"
      [] l.fault \in {"junkTitle", "junkDocument"} -> "NON_REPAIRABLE"
      [] l.fault \in {"firePrimary", "fireSecondary"} -> "CATASTROPHIC_DAMAGE"
      [] OTHER -> "none"

(* The filter reads the title, the primary damage, the make and the model. *)
QualityWhere(l) ==
    l.fault \notin {"commercialTitle", "unknownModel", "junkTitle", "firePrimary"}

AcceptsNewLot(l) == l.fault \notin {"commercialTitle", "commercialBody", "unknownModel"}

(* Ended lots stay available to who has their number.                      *)
HistoricalLookup(l, now) ==
    /\ Truth(l, now) \in {"TERMINAL_RESULT", "RESULT_PENDING"}
    /\ Quality(l) \notin {"OUTSIDE_MARKET_SCOPE", "COMMERCIAL_VEHICLE"}

-----------------------------------------------------------------------------
(* What the readers show of the price.                                     *)
NoPrice == [primaryUsd |-> Null, basis |-> "none", buyNowAvailable |-> FALSE]

PriceFact(l) ==
    [primaryUsd |-> IF Positive(l.buyNowUsd) THEN l.buyNowUsd
                    ELSE IF Positive(l.currentBidUsd) THEN l.currentBidUsd ELSE Null,
     basis |-> IF Positive(l.buyNowUsd) THEN "buyNow"
               ELSE IF Positive(l.currentBidUsd) THEN "currentBid" ELSE "none",
     buyNowAvailable |-> l.isBuyNow /\ Positive(l.buyNowUsd)]

(* The list of the auction, the list of the catalogue and the detail page. *)
Listed(l, now) == VisibleWhere(l, now) /\ QualityWhere(l)
ListPrice(l, now) ==
    IF Visible(l, now) /\ HasFreshPrice(l, now) THEN PriceFact(l) ELSE NoPrice
CatalogPrice(l, now) == IF HasFreshPrice(l, now) THEN PriceFact(l) ELSE NoPrice

DetailOpens(l, now) == Quality(l) = "none" \/ HistoricalLookup(l, now)
DetailPrice(l, now) ==
    IF Visible(l, now) /\ HasFreshPrice(l, now) THEN PriceFact(l) ELSE NoPrice

FoundByNumber(l, now) ==
    HistoricalLookup(l, now) \/ (Visible(l, now) /\ Quality(l) = "none")

(* The tier of the hot offers the lot may stand in: its own window of the  *)
(* hours to come; and the price it stands there with.                      *)
HotTiers(l, now) ==
    {tier \in {"urgent", "this-week"} :
        /\ Visible(l, now) /\ HasFreshPrice(l, now)
        /\ l.auctionTime # Null /\ l.auctionTime > now
        /\ IF tier = "urgent" THEN l.auctionTime <= now + 48
           ELSE l.auctionTime > now + 48 /\ l.auctionTime <= now + 168
        /\ HasPrice(l) /\ Quality(l) = "none"}

HotPrice(l) ==
    LET IfPositive(price) == IF Positive(price) THEN price ELSE Null
        buyNow == IfPositive(l.buyNowUsd)
        bid == IfPositive(l.currentBidUsd)
    IN  [primaryUsd |-> Coalesce(buyNow, bid),
         basis |-> IF buyNow # Null THEN "buyNow" ELSE IF bid # Null THEN "currentBid" ELSE "none",
         buyNowAvailable |-> l.isBuyNow /\ buyNow # Null]

(* What the calculator starts from, where it knows the vehicle.            *)
Unpriced(reason) == [status |-> reason, basis |-> "none", priceUsd |-> Null]

CalculatorInput(l, now) ==
    IF ~Visible(l, now) THEN Unpriced("LOT_NOT_ELIGIBLE")
    ELSE IF ~HasFreshPrice(l, now) THEN Unpriced("PRICE_NOT_FRESH")
    ELSE IF l.isBuyNow /\ Positive(l.buyNowUsd)
      THEN [status |-> "available", basis |-> "buyNow", priceUsd |-> l.buyNowUsd]
    ELSE IF Positive(l.currentBidUsd)
      THEN [status |-> "available", basis |-> "currentBid", priceUsd |-> l.currentBidUsd]
    ELSE Unpriced("PRICE_NOT_FRESH")

(* What a customer's request about the lot records, or why it is refused.  *)
AssistancePrice(l, intent, now) ==
    IF ~Visible(l, now) THEN Unpriced("LOT_NOT_AVAILABLE")
    ELSE IF ~HasFreshPrice(l, now) THEN Unpriced("PRICE_NOT_FRESH")
    ELSE IF intent = "currentBid" /\ l.isBuyNow THEN Unpriced("ACTION_NOT_AVAILABLE")
    ELSE IF intent = "buyNow" /\ ~(l.isBuyNow /\ Positive(l.buyNowUsd))
      THEN Unpriced("PRICE_NOT_AVAILABLE")
    ELSE IF intent = "currentBid" /\ ~Positive(l.currentBidUsd)
      THEN Unpriced("PRICE_NOT_AVAILABLE")
    ELSE [status |-> "available", basis |-> intent,
          priceUsd |-> IF intent = "buyNow" THEN l.buyNowUsd ELSE l.currentBidUsd]

(* The two classifications of the administrators' page.                    *)
AdminClass(l, now) ==
    IF l.providerResultState \in TerminalResults THEN "ended"
    ELSE IF Visible(l, now) /\ Quality(l) = "none" THEN "current"
    ELSE IF Truth(l, now) \in {"LISTING_STALE", "UNAVAILABLE"} THEN "stale"
    ELSE "unclassified"

OperatorGroup(l, now) ==
    IF l.providerResultState \in TerminalResults THEN "archivedConfirmed"
    ELSE IF Truth(l, now) = "RESULT_PENDING" THEN "awaitingResult"
    ELSE IF Quality(l) # "none" THEN "excludedByPolicy"
    ELSE IF Visible(l, now) THEN "publicNow"
    ELSE IF Schedule(l, now) = "SCHEDULED_OUT_OF_HORIZON" THEN "outsideWindow"
    ELSE "missingCriticalData"

-----------------------------------------------------------------------------
(* The counters of the site's front page and of the operators' dashboards  *)
(* in which the lot is counted.                                            *)
StatsOf(l, now) ==
    {k \in {"current", "live", "upcoming", "buyNow"} :
        /\ Listed(l, now)
        /\ CASE k = "live" -> Lifecycle(l, now) = "LIVE"
             [] k = "upcoming" -> Lifecycle(l, now) = "UPCOMING"
             [] k = "buyNow" -> l.isBuyNow /\ Positive(l.buyNowUsd) /\ HasFreshPrice(l, now)
             [] OTHER -> TRUE}

(* The scheduler's status counts the lots of each tier: all that are       *)
(* active, those due for a refresh, and those that are stale.              *)
Active == {"UPCOMING", "OPEN", "LIVE"}
Swept(l) == l.state \in {"DISCOVERED", "IMPORTED"}

TiersOf(l) == IF Swept(l) /\ l.lifecycleState \in Active THEN {l.freshnessTier} ELSE {}

PendingTiers(l, now) ==
    IF /\ Swept(l) /\ l.lifecycleState \in Active
       /\ l.nextRefreshAt # Null /\ l.nextRefreshAt <= now
    THEN {l.freshnessTier} ELSE {}

StaleTiers(l) == IF l.freshnessState = "STALE" THEN TiersOf(l) ELSE {}

(* The lots the provider confirmed within a day, and those of them that a  *)
(* sweep has missed since.                                                 *)
UpdatedToday(l, now) ==
    {k \in {"completed", "failed"} :
        /\ AtLeast(l.lastProviderUpdateAt, now - 24)
        /\ k = "completed" <=> l.consecutiveMisses = 0}

(* How long ago the lot of a tier that waits longest was confirmed.        *)
OldestObservation(lots, now) ==
    LET times == {l.lastProviderUpdateAt : l \in {m \in lots : TiersOf(m) # {}}} \ {Null}
    IN  IF times = {} THEN Null ELSE now - CHOOSE t \in times : \A u \in times : t <= u

(* The administrators' dashboard: a lot that is not ready and was not seen *)
(* for a day is a problem.                                                 *)
DashboardLots(l, now) ==
    {k \in {"discovered", "activePublic", "stale"} :
        CASE k = "activePublic" -> VisibleWhere(l, now)
          [] k = "stale" -> /\ l.state = "DISCOVERED" /\ l.lifecycleState = "NOT_READY"
                            /\ l.lastSeenAt < now - 24
          [] OTHER -> TRUE}

(* An empty list says that the lots are being recovered if any is known.   *)
CatalogState(lots, now) ==
    IF (\A l \in lots : ~VisibleWhere(l, now)) /\ (\E l \in lots : Swept(l))
    THEN "INVENTORY_RECOVERY" ELSE "NORMAL"

(* What has ended or awaits its result counts as unscheduled here.         *)
DataHealth(l, now) ==
    LET v2 == ProjectionV2(l, now) IN
    {k \in {"confirmedHorizon", "outOfHorizon", "unscheduled",
            "resultPending", "staleListing", "stalePrice"} :
        CASE k = "confirmedHorizon" -> v2.schedule = "SCHEDULED_ACTIVE"
          [] k = "outOfHorizon" -> v2.schedule = "SCHEDULED_OUT_OF_HORIZON"
          [] k = "unscheduled" -> v2.schedule \in {"TERMINAL", "RESULT_PENDING", "UNSCHEDULED"}
          [] k = "resultPending" -> v2.schedule = "RESULT_PENDING"
          [] k = "staleListing" -> v2.listing = "STALE"
          [] OTHER -> v2.price # "FRESH"}

(* The diagnostics of a lot in the operators' list and on their page of    *)
(* it; publication is the status of the vehicle it was imported as.        *)
AdminItem(l, publication, now) ==
    LET v2 == ProjectionV2(l, now) input == CalculatorInput(l, now) IN
    [state |-> l.state,
     lifecycle |-> Lifecycle(l, now),
     freshness |-> IF Visible(l, now) THEN "FRESH"
                   ELSE IF l.freshnessState = "TERMINAL" THEN "DEFERRED"
                   ELSE l.freshnessState,
     importState |-> IF publication = Null THEN "unlinked"
                     ELSE IF publication = "DRAFT" THEN "linked_draft"
                     ELSE IF publication = "PUBLISHED" THEN "linked_published"
                     ELSE "linked_other",
     buyNow |-> IF l.isBuyNow /\ ~Positive(l.buyNowUsd) THEN Null
                ELSE PriceFact(l).buyNowAvailable,
     price |-> PriceFact(l),
     publicVisible |-> Visible(l, now), truthReasonCode |-> Truth(l, now), v2 |-> v2,
     calculator |-> IF input.status = "available" THEN "input_ready" ELSE input.status]

(* The values each filter of that list accepts; some of importState are    *)
(* those of an earlier contract.                                           *)
AdminFilters ==
    [state |-> {"DISCOVERED", "IMPORTING", "IMPORTED", "SOLD", "REMOVED", "UNAVAILABLE"},
     lifecycle |-> {"UPCOMING", "OPEN", "LIVE", "ENDED", "SOLD", "REMOVED", "NOT_READY"},
     freshness |-> {"FRESH", "STALE", "DEFERRED"},
     importState |-> {"notImported", "unlinked", "draft", "linked_draft", "published",
                      "linked_published", "other", "linked_other"},
     buyNow |-> BOOLEAN]

MatchesAdminItem(item, query) == \A f \in DOMAIN query : item[f] = query[f]

AdminLots(items, query) == {item \in items : MatchesAdminItem(item, query)}

AdminLotDetail(l, publication, now) ==
    [item |-> AdminItem(l, publication, now), qualityReasonCode |-> Quality(l)]

(* The metrics count lots and vehicles of one snapshot of the database.    *)
AdminMetrics(l, publication, now) ==
    [class |-> AdminClass(l, now), group |-> OperatorGroup(l, now),
     covered |-> Visible(l, now) /\ Quality(l) = "none",
     imported |-> publication # Null,
     vehicle |-> IF publication = Null THEN "none"
                 ELSE IF publication \in {"DRAFT", "PUBLISHED"} THEN publication
                 ELSE "OTHER",
     health |-> DataHealth(l, now)]
=============================================================================
