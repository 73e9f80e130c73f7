-------------------------------- MODULE MCShop --------------------------------
(***************************************************************************)
(* The smaller services beside the auction and the marketplace.  They      *)
(* share no state that their properties are about; a behaviour exercises   *)
(* one of them, so that their state spaces add up.                         *)
(***************************************************************************)
EXTENDS CustomerDesk, Broadcasts, VehicleImports, CalculatorEngine, CatalogPages,
        CalculatorEstimate, Showroom

VARIABLE part

vars == <<deskVars, broadcastVars, importsVars, engineVars, reading, quote, showroomVars, part>>

(* Prices at and around the steps of the fee schedule and of the insurance.*)
MCPrices == UNION {p - 2 .. p + 2 : p \in {2, 99, 499, 999, 1499, 1999, 3999, 5999, 7500, 7999, 20000}}

MCAges == -1 .. 16

(* A vehicle of each kind, and lots that differ where the lists do, in     *)
(* their spelling among others.                                            *)
Plain(n) == [word |-> n, spelling |-> "plain"]
Upper(n) == Spelt(Plain(n), "upper")
Double(n) == Spelt(Plain(n), "double")
Padded(n) == Spelt(Plain(n), "padded")

MCCarFacts == {
    [source |-> "internal", region |-> "UKRAINE", make |-> Plain(1), model |-> Padded(1),
     locationState |-> Nothing, price |-> 2, complete |-> TRUE, photos |-> TRUE],
    [source |-> "internal", region |-> "EUROPE", make |-> Padded(2), model |-> Double(2),
     locationState |-> Nothing, price |-> 0, complete |-> FALSE, photos |-> FALSE],
    [source |-> "copart", region |-> "USA", make |-> Upper(1), model |-> Plain(2),
     locationState |-> Upper(1), price |-> 3, complete |-> TRUE, photos |-> TRUE]}

MCLotFacts == {
    [provider |-> "copart", make |-> Plain(1), model |-> Plain(1), locationState |-> Plain(1), yard |-> Nothing,
     live |-> TRUE, currentBidUsd |-> 1, buyNowUsd |-> Nothing, isBuyNow |-> TRUE, fresh |-> TRUE],
    [provider |-> "copart", make |-> Upper(1), model |-> Double(2), locationState |-> Nothing, yard |-> Padded(1),
     live |-> FALSE, currentBidUsd |-> 2, buyNowUsd |-> 4, isBuyNow |-> TRUE, fresh |-> TRUE],
    [provider |-> "iaai", make |-> Double(1), model |-> Upper(2), locationState |-> Padded(2), yard |-> Upper(1),
     live |-> FALSE, currentBidUsd |-> 3, buyNowUsd |-> Nothing, isBuyNow |-> FALSE, fresh |-> FALSE],
    [provider |-> "iaai", make |-> Plain(2), model |-> Nothing, locationState |-> Padded(1), yard |-> Nothing,
     live |-> FALSE, currentBidUsd |-> 2, buyNowUsd |-> 3, isBuyNow |-> TRUE, fresh |-> TRUE]}

(* No filter, one, or one beside a range of prices.                        *)
Free == [f \in Filters |-> Nothing]
Asked == [make |-> {Plain(1), Double(1)}, model |-> {Plain(1), Upper(2), Double(2)},
          source |-> {"internal", "copart", "iaai"}, provider |-> {"copart", "iaai"},
          locationState |-> {Plain(1), Upper(2)}, lifecycle |-> {"LIVE", "UPCOMING"},
          buyNow |-> {"yes", "no"}, priceFrom |-> {0, 2}, priceTo |-> {2}]
OneAsked == UNION {{[Free EXCEPT ![f] = a] : a \in Asked[f]} : f \in DOMAIN Asked}
MCQuery == {Free} \cup OneAsked \cup {[q EXCEPT !.priceFrom = 2] : q \in OneAsked}

(* A part that is not exercised stays in one state of its Init.            *)
One(S) == CHOOSE e \in S : TRUE

MCInit ==
    /\ part \in {"requests", "managers", "broadcasts", "imports", "previews", "pages", "estimates", "showroom"}
    /\ IF part = "requests" THEN TRUE ELSE offer = [l \in Lot |-> "BID_ASSISTANCE"]
    /\ IF part = "broadcasts" THEN TRUE ELSE active = Loyal
    /\ IF part = "imports" THEN TRUE ELSE link = [l \in SourceLot |-> NoVehicle]
    /\ IF part = "pages" THEN TRUE
       ELSE reading = [copart |-> 0, iaai |-> 0, size |-> One(PageSizes), number |-> 1]
    /\ IF part = "estimates" THEN TRUE
       ELSE quote = [price |-> 99, age |-> -1, fuel |-> "electric", volume |-> One(VolumesCc)]
    /\ DeskInit /\ BroadcastInit /\ ImportsInit /\ EngineInit /\ PagesInit /\ EstimateInit
    /\ ShowroomInit

(* Managers work on one lead, a visitor's or a customer's.                 *)
OneLead ==
    \/ /\ leads = <<>> /\ RequestsNext /\ UNCHANGED <<clock, offer>>
       /\ \E r \in Request : \A q \in Request \ {r} : request'[q] = Idle
    \/ ManagersNext /\ Len(leads') <= 1

MCNext ==
    /\ UNCHANGED part
    /\ \/ /\ \/ part = "requests" /\ RequestsNext
             \/ part = "managers" /\ OneLead
          /\ UNCHANGED <<broadcastVars, importsVars, engineVars, reading, quote, showroomVars>>
       \/ /\ part = "broadcasts" /\ BroadcastsNext
          /\ UNCHANGED <<deskVars, importsVars, engineVars, reading, quote, showroomVars>>
       \/ /\ part = "imports" /\ ImportsNext
          /\ UNCHANGED <<deskVars, broadcastVars, engineVars, reading, quote, showroomVars>>
       \/ /\ part = "previews" /\ EngineNext
          /\ UNCHANGED <<deskVars, broadcastVars, importsVars, reading, quote, showroomVars>>
       \/ /\ part = "pages" /\ PagesNext
          /\ UNCHANGED <<deskVars, broadcastVars, importsVars, engineVars, quote, showroomVars>>
       \/ /\ part = "estimates" /\ EstimateNext
          /\ UNCHANGED <<deskVars, broadcastVars, importsVars, engineVars, reading, showroomVars>>
       \/ /\ part = "showroom" /\ ShowroomNext
          /\ UNCHANGED <<deskVars, broadcastVars, importsVars, engineVars, reading, quote>>

MCSpec == MCInit /\ [][MCNext]_vars
=============================================================================
