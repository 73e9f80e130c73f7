---------------------------- MODULE MCLotCatalog ----------------------------
(***************************************************************************)
(* LotCatalog on a clock of six-hour steps: the thresholds of the rules    *)
(* are 6, 12, 24, 48, 72 and 168 hours, so every boundary is met exactly   *)
(* and passed by a step.                                                   *)
(***************************************************************************)
EXTENDS LotCatalog

CONSTANTS Offset, States, Fault, Shown

(* Prices: a Buy Now with and without its price, a bid, both, neither, and *)
(* an answer without a pricing block.                                      *)
Prices == {<<FALSE, Null, 1>>, <<TRUE, 2, Null>>, <<TRUE, 2, 1>>, <<TRUE, 0, 1>>,
           <<FALSE, 2, 1>>, <<FALSE, Null, Null>>}

Sighting(at, zone, a, f, p) ==
    [at |-> at, ad |-> Null, zone |-> zone, auctionState |-> a, fault |-> f,
     isBuyNow |-> p[1], buyNowUsd |-> p[2], currentBidUsd |-> p[3],
     hasPricing |-> p[2] # Null \/ p[3] # Null]

(* Every price with every time; with one price every state, every way to   *)
(* tell the time (one read as past that is still to come), and what the    *)
(* quality rules exclude.  The provider shows the lot at the hours Shown.  *)
Bid == <<FALSE, Null, 1>>

MCSightings(t) ==
    LET times == {t + o : o \in Offset} IN
    IF t \notin Shown THEN {} ELSE
    {Sighting(at, "offset", "other", "none", p) : at \in times, p \in Prices}
    \cup {Sighting(at, "offset", a, "none", <<TRUE, 2, 1>>) : at \in times, a \in States}
    \cup {Sighting(at, "facility", "other", "none", Bid) : at \in times \cup {t - 3}}
    \cup {Sighting(t + 24, "offset", "other", f, Bid) : f \in Fault}
    \cup {[Sighting(at, "nothing", "other", "none", Bid) EXCEPT !.ad = at] : at \in {t, Null}}

(* Rows of the first discovery, some ended by time alone, some missed      *)
(* twice.                                                                  *)
MCLegacyRows ==
    {[auctionState |-> "open", fault |-> "none", auctionTime |-> 30, evidence |-> "nothing",
      providerResultState |-> "UNKNOWN", lifecycleState |-> k, freshnessState |-> "FRESH",
      currentBidUsd |-> 1, buyNowUsd |-> Null, isBuyNow |-> FALSE,
      listingObservedAt |-> Null, lastProviderUpdateAt |-> u, lastSeenAt |-> 0,
      priceObservedAt |-> Null, terminalAt |-> Null, consecutiveMisses |-> m,
      availabilityConfirmed |-> TRUE, state |-> "DISCOVERED", freshnessTier |-> "COLD",
      nextRefreshAt |-> Null] :
        k \in {"OPEN", "ENDED"}, u \in {0, Null}, m \in {0, 2}}
=============================================================================
